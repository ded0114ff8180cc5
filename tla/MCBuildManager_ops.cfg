CONSTANTS
  t1 = t1
  t2 = t2
  t3 = t3
  t4 = t4
  None = None
  Tasks = {t1, t2, t3, t4}
  Kind <- EachKind
  MaxPipelines = 2
SPECIFICATION FairSpec
CHECK_DEADLOCK FALSE
INVARIANTS
  TypeOK
  BuildingMatchesPipeline
  TimerRunsWhileBuilding
  SignalsComeInPairs
  NothingBeforeSetup
PROPERTIES
  PipelinesAreJobQueues
  TasksEnd
