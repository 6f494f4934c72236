SPECIFICATION Spec
CONSTANTS
  Rule = {r1}
  Policy = {p1}
  Thread = {t1}
  Body = {b1}
  MaxVersion = 1
  MaxRequests = 1
  NoRule = NoRule
  None = None
INVARIANT EnabledPoliciesEvaluated
CHECK_DEADLOCK FALSE
