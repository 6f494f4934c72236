SPECIFICATION Spec
CONSTANTS
  NumLines = 2
  Triggers = {1}
  CommandLife = 1
  CacheLife = 1
  MaxTime = 2
  MaxRefreshes = 1
  MaxInterruptions = 1
  None = None
INVARIANTS TypeOK ActsOnce CollectedKept EvidenceTrue ActionReported
PROPERTIES ImplementsContracts LinesCollected
