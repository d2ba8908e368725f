CONSTANTS
  Nobody = Nobody
  Thread = {t1, t2, t3}
  Tid <- OneProcessTid
  Pid <- OneProcessPid
  Spin = FALSE
  MaxDepth = 2
SPECIFICATION DFairSpec
INVARIANTS
  MutualExclusion
PROPERTIES
  HolderNeverRefused
  StrangerWritesNothing
  ImplementsRecursiveLock
  NeverDestroyedWhileHeld
  Handover
CHECK_DEADLOCK FALSE
