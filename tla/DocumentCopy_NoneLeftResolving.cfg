SPECIFICATION Spec
CONSTANTS
  r1 = r1
  r2 = r2
  r3 = r3
  SrcRefs = {r1, r2, r3}
  Addresses = {a1}
  SourceFiles <- TwoFiles
  Loose <- LooseDict
  OpenModes = {"paranoid"}
  MaxNum = 6
  MaxDepth = 4
  MaxOwn = 1
  MaxLost = 1
  NoDoc = NoDoc
  NoPdf = NoPdf
  NoRef = NoRef
  NoEntry = NoEntry
  Nothing = Nothing
  Damaged = Damaged
  Own = Own
  Edited = Edited
CONSTRAINTS FewOthers FewLost
INVARIANT NoneLeftResolving
