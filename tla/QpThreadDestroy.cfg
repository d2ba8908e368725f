CONSTANTS
  MaxStarts = 1
  Detach = {FALSE}
  Patient = FALSE
SPECIFICATION Spec
INVARIANTS
  NoRunAfterDestroy
CHECK_DEADLOCK FALSE
