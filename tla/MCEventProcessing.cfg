SPECIFICATION FairSpec
CONSTANTS
  Event = {e1}
  Worker = {w1, w2}
  BatchSize = 1
  MaxAttempts = 2
  MaxRestarts = 1
  MaxPublishFaults = 1
  MaxCycleFaults = 1
  MaxRetries = 1
  None = None
INVARIANTS TypeOK AsReportedUnlessDisturbed
PROPERTIES ImplementsQueue EventsSettle PublicationsDelivered
CHECK_DEADLOCK FALSE
