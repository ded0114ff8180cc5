CONSTANTS
  s1 = s1
  s2 = s2
  s3 = s3
  s4 = s4
  t1 = t1
  t2 = t2
  t3 = t3
  None = None
  Stages = {s1, s2, s3, s4}
  NPhases = 2
  PhaseOf <- MakePhaseOf
  Whence <- MakeWhence
  Priority <- MakePriority
  Batch <- AllLoaded
  Commands = {}
  Disabled = {s4}
  Transient = {}
  Launchers = {}
  Query <- MakeQuery
  Chains <- MakeChains
  Tasks = {t1, t2}
  Kind <- BuildOnly
  Cancellables = {t2}
  Invalidations = {{1}}
  Removable = {}
  MaxLoads = 1
SPECIFICATION Spec
CHECK_DEADLOCK FALSE
INVARIANTS
  TypeOK
  SingleFlight
  PositionMatchesCurrent
  StagesRunInOrder
PROPERTIES
  BuildReachesPhase
