CONSTANTS
  Nobody = Nobody
  Thread = {t1, t2}
  Waiter = {t1}
  Signaller = {t2}
  Tid <- OneProcessTid
  Pid <- OneProcessPid
  Spin = FALSE
  MaxDepth = 4
  MaxCalls = 2
SPECIFICATION CFairSpec
PROPERTIES
  SignalledWaiterReturns
CHECK_DEADLOCK FALSE
