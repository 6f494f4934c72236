SPECIFICATION FairSpec
CONSTANTS
  MaxStoreFaults = 1
  None = None
INVARIANTS TypeOK OnlineAfterContact
PROPERTIES Reconnects NoticesOutage ShutdownEnds
CHECK_DEADLOCK FALSE
