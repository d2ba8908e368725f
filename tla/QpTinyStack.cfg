CONSTANTS
  Frame <- MCFrame
  Link = {0, 1}
  Null = Null
SPECIFICATION Spec
INVARIANTS
  PlacesInsideFrame
  LayersExact
