CONSTANTS
  Node = {n1, n2, n3, n4, n5, n6}
  Nil = Nil
  MaxKey = 5
  FindRange = 4
  QHead = {h1, h2, h3}
  Null = Null
SPECIFICATION CSpec
SYMMETRY Alike
INVARIANTS
  SearchTree
  RedBlack
  LookupsExact
  RingExact
