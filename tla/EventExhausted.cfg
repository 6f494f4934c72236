SPECIFICATION Spec
CONSTANTS
  Event = {e1}
  Worker = {w1}
  BatchSize = 1
  MaxAttempts = 2
  MaxRestarts = 1
  MaxPublishFaults = 0
  MaxCycleFaults = 0
  MaxRetries = 0
  None = None
INVARIANTS ExhaustedIsDeadLettered
CHECK_DEADLOCK FALSE
