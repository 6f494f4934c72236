SPECIFICATION Spec
CONSTANTS
  Event = {1, 2, 3, 4, 5}
  User = {u1, u2}
  u1 = u1
  u2 = u2
  Field = {text, name}
  text = text
  name = name
  Worker = {w1, w2}
  Window = 3
  FailuresNeeded = 2
  ReplayLimit = 3
  MaxDepth = 8
  MaxNodes = 128
  MaxChildren = 32
  Streams <- MCStreams
  NumRules = 2
  Rules <- MCRules
  NumPolicies = 3
  Policies <- MCPolicies
  Delta <- MCDelta
  TicksPerPoint = 2
  MaxTime = 3
  MaxOverwrites = 1
  None = None
INVARIANTS TypeOK AlarmsCountOnce ErrorNeverMatches OneCommandPerIncident DecayWithinRate
PROPERTIES RiskAddsUp
CHECK_DEADLOCK FALSE
SYMMETRY Symmetric
