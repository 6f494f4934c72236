SPECIFICATION Spec
CONSTANTS
  MaxStoreFaults = 0
  None = None
INVARIANTS StopsCleanly
CHECK_DEADLOCK FALSE
