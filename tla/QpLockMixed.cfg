CONSTANTS
  t1 = t1
  t2 = t2
  t3 = t3
  Nobody = Nobody
  Thread = {t1, t2, t3}
  Tid <- MixedTid
  Pid <- MixedPid
  Spin = TRUE
  MaxDepth = 1
SPECIFICATION Spec
INVARIANTS
  MutualExclusion
