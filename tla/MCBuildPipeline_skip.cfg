CONSTANTS
  s1 = s1
  s2 = s2
  s3 = s3
  s4 = s4
  t1 = t1
  t2 = t2
  t3 = t3
  None = None
  Stages = {s1, s2, s3, s4}
  NPhases = 2
  PhaseOf <- ShapePhaseOf
  Whence <- ShapeWhence
  Priority <- NoPriority
  Batch <- ShapeBatch
  Commands = {s2, s4}
  Disabled = {}
  Transient = {}
  Launchers = {s2, s4}
  Query <- NoQuery
  Chains = {}
  Tasks = {t1, t2}
  Kind <- BuildOnly
  Cancellables = {}
  Invalidations = {}
  Removable = {}
  MaxLoads = 2
SPECIFICATION Spec
CHECK_DEADLOCK FALSE
PROPERTIES
  SuccessMeansAllRan
