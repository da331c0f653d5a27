SPECIFICATION PageTreeSpec
CONSTANTS
  r = r
  x = x
  y = y
  p1 = p1
  p2 = p2
  p3 = p3
  NoNode = NoNode
  Leaves = {p1, p2, p3}
  Roots = {r}
  Inters = {x, y}
  Docs <- EditDocs
  Arrays <- NewArrays
  MaxKids = 3
  MayReplace = FALSE
INVARIANTS
  PageTreeTypeOK
  PagesInPlace
  PagesAreFound
  RememberedCountsTrue
  TreeConsistent
PROPERTY
  ImplementsSequence
SYMMETRY NameSymmetry
