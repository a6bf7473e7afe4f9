SPECIFICATION Spec
CONSTANTS
  Ids = {i1, i2}
  Staff = {i2}
  SyncDisabled = FALSE
  MaxFaults = 1
  None = None
PROPERTY WhoLeavesIsInactive
CHECK_DEADLOCK FALSE
