SPECIFICATION Spec
CONSTANTS
  None = None
  Files = {f1}
  Buffers = {b1}
  Plugins = {1, 2}
  Languages <- TwoLanguages
  MaxGroups = 2
  MaxProviders = 2
INVARIANTS
  TrackedWhileOpen
CHECK_DEADLOCK FALSE
