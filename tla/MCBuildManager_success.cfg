CONSTANTS
  t1 = t1
  t2 = t2
  t3 = t3
  t4 = t4
  None = None
  Tasks = {t1, t2}
  Kind <- TwoBuilds
  MaxPipelines = 3
SPECIFICATION Spec
CHECK_DEADLOCK FALSE
INVARIANTS
  SuccessWasWorkedFor
