CONSTANTS
  Nobody = Nobody
  Thread = {t1, t2, t3}
  Waiter = {t1, t2}
  Signaller = {t2, t3}
  Tid <- OneProcessTid
  Pid <- OneProcessPid
  Spin = FALSE
  MaxDepth = 4
  MaxCalls = 2
  Null = Null
  MaxValue = 2
  MaxObjects = 3
  MaxFd = 1
SPECIFICATION IpcFairSpec
INVARIANTS
  CallbacksAtomic
  ProbesGivenBack
  SameNameSameMemory
  DescriptorsAccounted
PROPERTIES
  DestroyRespectsHolders
  DestroyFreesAWaiter
CHECK_DEADLOCK FALSE
