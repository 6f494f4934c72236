SPECIFICATION FairSpec
CONSTANTS
  Record = {r1, r2}
  Plain = {r1}
  MaxBatch = 2
  ChunkSize = 1
  MaxFaults = 2
  None = None
INVARIANTS TypeOK OnlyRefusedQuarantined
PROPERTIES ImplementsTransfer GoodArrive BadIsolated
CHECK_DEADLOCK FALSE
