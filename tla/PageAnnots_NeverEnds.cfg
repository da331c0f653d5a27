SPECIFICATION Spec
CONSTANTS
  d1 = d1
  d2 = d2
  x1 = x1
  Dicts = {d1, d2}
  Inline = {x1}
  Odd = Odd
  ArrayRefs = {r1}
  NewArrays <- SomeArrays
  NoEntry = NoEntry
  Direct = Direct
  MaxLen = 3
CHECK_DEADLOCK FALSE
INVARIANTS
  NeverEnds
