CONSTANTS
  MaxStarts = 3
  Detach = {TRUE, FALSE}
  Patient = TRUE
  MaxChildren = 2
SPECIFICATION TFairSpec
INVARIANTS
  NoRunAfterDestroy
  NoChildLost
  SignalsItsChildOnly
  StackOutlivesChild
PROPERTIES
  StoppedMeansDone
  EveryStartRuns
  KilledIsReaped
  EveryWaitEnds
CHECK_DEADLOCK FALSE
