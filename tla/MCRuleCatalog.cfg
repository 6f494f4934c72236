SPECIFICATION Spec
CONSTANTS
  Rule = {r1}
  Policy = {p1}
  Thread = {t1, t2}
  Body = {b1, b2}
  MaxVersion = 3
  MaxRequests = 3
  NoRule = NoRule
  None = None
INVARIANTS TypeOK HistoryComplete EvidenceStands DecidedWithStored
PROPERTIES ImplementsHistory DeleteSeesEarlierLinks
CHECK_DEADLOCK FALSE
SYMMETRY Symmetric
