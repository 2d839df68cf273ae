SPECIFICATION FairSpec
CONSTANTS
  Pools = {"automation"}
  Workers = {w1}
  Requests = {q1}
  Assigner = {}
  Callees <- RealCallees
  Cap = 1
  MaxCalls = 3
CHECK_DEADLOCK FALSE
PROPERTY AutomationCloses
