SPECIFICATION FairSpec
CONSTANTS
  Command = {c1}
  QueueSize = 1
  MaxCrashes = 1
  None = None
INVARIANTS TypeOK ManagerAgreesWithJournal
PROPERTIES RowNeverRegresses ImplementsContract OpenCommandsClose ReportsSettle
CHECK_DEADLOCK FALSE
