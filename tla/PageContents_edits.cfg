SPECIFICATION Spec
CONSTANTS
  q = q
  Q = Q
  BT = BT
  ET = ET
  a = a
  b = b
  EndTag <- EndTags
  Texts = {a, b}
  ChangeTag = DP
  MaxStreams = 4
  MaxLength = 6
  MaxSteps = 3
  Pages <- AllPages
  NewOperators <- SimpleAndComposite
  NewContents <- OnlySimple
  Buffers <- OpenComposite
  NoStream = NoStream
CHECK_DEADLOCK FALSE
ACTION_CONSTRAINTS
  OneHeld
  UnseenFirst
INVARIANTS
  PageContentsTypeOK
  IterationIsTree
  StreamsHoldOperators
  ContentsAsStreams
  EditsChangeOnePlace
  ChangesBeginStreams
