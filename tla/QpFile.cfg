CONSTANTS
  BufSize = 3
  MaxLen = 5
  MaxBytes = 8
  FileLen = 7
  MaxOpens = 2
  Process = {p1, p2}
  FileSize = 1
  MaxHandles = 2
SPECIFICATION FFairSpec
INVARIANTS
  NothingLost
  WriteLockExcludes
PROPERTIES
  CloseStores
  ReadsInOrder
  CallsEnd
CHECK_DEADLOCK FALSE
