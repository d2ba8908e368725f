CONSTANTS
  Manager = {m1, m2}
  PoolId = {p1, p2, p3}
  ECount = 2
  NULL = NULL
SPECIFICATION Spec
SYMMETRY Alike
INVARIANTS
  ElementsExact
  BooksExact
  NoOvergrowth
