SPECIFICATION Spec
CONSTANTS
  None = None
  Files = {f1}
  MaxBuffers = 2
  MaxVersions = 2
  MaxHolds = 1
  MaxSaves = 1
PROPERTIES
  HeldBuffersStay
CHECK_DEADLOCK FALSE
