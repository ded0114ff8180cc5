SPECIFICATION FairSpec
CONSTANTS
  None = None
  Files = {f1, f2}
  Buffers = {b1}
  Plugins = {1, 2}
  Languages <- TwoLanguages
  MaxGroups = 2
  MaxProviders = 2
INVARIANTS
  TypeOK
  ListedByTheirFile
  NothingForgotten
PROPERTIES
  UnloadingClears
  DisposesOfTheEmpty
  ChangesAreDiagnosed
CHECK_DEADLOCK FALSE
