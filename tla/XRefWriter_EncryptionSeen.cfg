SPECIFICATION Spec
CONSTANTS
  d1 = d1
  d2 = d2
  p1 = p1
  k1 = k1
  c1 = c1
  LinkTarget <- MCLinkTarget
  MaxNum = 3
  MaxGen = 2
  Dicts = {d1, d2}
  Plains = {p1}
  Links = {k1}
  Cmds = {c1}
  Null = Null
  NoValue = NoValue
  Damaged = Damaged
  NoTrailer = NoTrailer
  MaxSections = 3
  Modes = {"paranoid"}
  MaxChanged = 2
  MaxNew = 2
  Docs <- OnceEncryptedDocs
CONSTRAINT FewChanges
INVARIANTS
  EncryptionSeen
