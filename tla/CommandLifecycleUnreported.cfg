SPECIFICATION FairSpec
CONSTANTS
  Command = {c1}
  QueueSize = 1
  MaxCrashes = 1
  None = None
PROPERTIES EveryExecutionReported
CHECK_DEADLOCK FALSE
