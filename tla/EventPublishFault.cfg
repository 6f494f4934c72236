SPECIFICATION Spec
CONSTANTS
  Event = {e1}
  Worker = {w1}
  BatchSize = 1
  MaxAttempts = 2
  MaxRestarts = 0
  MaxPublishFaults = 1
  MaxCycleFaults = 0
  MaxRetries = 0
  None = None
INVARIANTS AppliedOnce
CHECK_DEADLOCK FALSE
