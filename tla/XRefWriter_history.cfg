SPECIFICATION Spec
CONSTANTS
  d1 = d1
  d2 = d2
  p1 = p1
  k1 = k1
  c1 = c1
  LinkTarget <- MCLinkTarget
  MaxNum = 3
  MaxGen = 2
  Dicts = {d1, d2}
  Plains = {p1}
  Links = {k1}
  Cmds = {c1}
  Null = Null
  NoValue = NoValue
  Damaged = Damaged
  NoTrailer = NoTrailer
  MaxSections = 3
  Modes = {"paranoid"}
  MaxChanged = 1
  MaxNew = 2
  Docs <- AllDocs
CONSTRAINTS FewChanges NewWhereReused
ACTION_CONSTRAINTS SavesWhereHistory FewValues
INVARIANTS
  TypeOK
  TableOfRevision
  RevisionShown
  NewRefsFresh
  SizeCoversAll
PROPERTIES
  RevisionsKept
