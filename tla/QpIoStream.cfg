CONSTANTS
  Capacity = 2
  MaxLen = 4
  MaxBytes = 6
  MayClose = TRUE
SPECIFICATION FairSpec
INVARIANTS
  StreamExact
PROPERTIES
  ShortOnlyAtEnd
  CallsReturn
CHECK_DEADLOCK FALSE
