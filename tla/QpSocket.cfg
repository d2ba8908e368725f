CONSTANTS
  Skt = {s1, s2}
  MaxFd = 3
SPECIFICATION Spec
SYMMETRY Alike
INVARIANTS
  DescriptorsOwned
  NonblockTrue
PROPERTIES
  NameKept
