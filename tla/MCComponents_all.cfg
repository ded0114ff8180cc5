SPECIFICATION ComponentsSpec
CONSTANTS
  None = None
  Files = {f1}
  MaxBuffers = 2
  MaxVersions = 2
  MaxHolds = 1
  MaxSaves = 1
  MaxRuns = 3
  RunHandlers = {run, profiler}
  DefaultHandler = run
  MaxHandlers = 2
  MaxSpawns = 4
  MaxRestarts = 2
  Plugins = {p1, p2}
  MaxWorkers = 3
  MaxRequests = 3
  DraftFiles = {d1, d2}
  MaxContents = 2
  MaxSavers = 2
  MaxCrashes = 1
  MaxContextHolds = 2
  MaxUnloads = 2
  MaxOpen = 2
  MaxDrafts = 2
  RestoreMax = 1
  Documents = {u1, u2}
  MaxEdits = 1
  MaxClients = 2
  Unopened = Unopened
  Garbled = Garbled
INVARIANTS
  ComponentsTypeOK
  OneBufferPerFile
  LoadingMatchesTasks
  TimersOfTracked
  UnsavedMirrors
  EditsAreScheduled
  OneRunAtATime
  UpWhileSupervised
  NoOrphans
  RestartFinds
  DelayedOnlyWhileHeld
  ServerMirrors
PROPERTIES
  AutoSaveCatchesUp
  CancelledRunsEnd
  UnloadsEnd
CHECK_DEADLOCK FALSE
