SPECIFICATION FairSpec
CONSTANTS
  Pools = {"automation", "notifier", "conversation"}
  Workers = {w1}
  Requests = {q1}
  Assigner = {"autoassigner"}
  Callees <- RealCallees
  Cap = 1
  MaxCalls = 2
CHECK_DEADLOCK FALSE
INVARIANT CallersNeverPanic
PROPERTY LeavesClose
