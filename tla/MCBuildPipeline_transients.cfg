CONSTANTS
  s1 = s1
  s2 = s2
  s3 = s3
  s4 = s4
  t1 = t1
  t2 = t2
  t3 = t3
  None = None
  Stages = {s1, s2}
  NPhases = 2
  PhaseOf <- TwoPhaseOf
  Whence <- Plainly
  Priority <- NoPriority
  Batch <- AllLoaded
  Commands = {}
  Disabled = {}
  Transient = {s2}
  Launchers = {s2}
  Query <- NoQuery
  Chains = {}
  Tasks = {t1, t2}
  Kind <- BuildOnly
  Cancellables = {}
  Invalidations = {}
  Removable = {}
  MaxLoads = 1
SPECIFICATION Spec
CHECK_DEADLOCK FALSE
PROPERTIES
  TransientsAreReleased
