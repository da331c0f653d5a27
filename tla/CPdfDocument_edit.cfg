SPECIFICATION PdfSpec
CONSTANTS
  d1 = d1
  d2 = d2
  p1 = p1
  k1 = k1
  c1 = c1
  LinkTarget <- MCLinkTarget
  MaxNum = 3
  MaxGen = 1
  Dicts = {d1, d2}
  Plains = {p1}
  Links = {k1}
  Cmds = {c1}
  Null = Null
  NoValue = NoValue
  Damaged = Damaged
  NoTrailer = NoTrailer
  MaxSections = 3
  Modes = {"paranoid"}
  MaxChanged = 1
  MaxNew = 1
  OpenModes = {"ReadOnly", "ReadWrite", "Advanced"}
  Docs <- AllDocs
CONSTRAINTS
  FewChanges
  AdvancedOnRootOnly
ACTION_CONSTRAINTS
  SavesWhereHistory
  FewInAdvanced
  FewValues
INVARIANTS
  PdfTypeOK
  PropertyShowsObject
  UnchangedIsSaved
  RootStaysDict
  NewRefsFresh
  SizeCoversAll
  ReopenFindsRevisions
PROPERTIES
  ImplementsStore
  RevisionsKept
