SPECIFICATION FairSpec
CONSTANTS
  None = None
  Conversations = {c1, c2}
  Agents = {a1, a2}
  Teams = {t1, t2}
  Requests = {r1}
  MaxAuto = 1
  MaxEvents = 1
INVARIANT WithinCapacity
PROPERTY NoStarvation
INVARIANT PoolsAreFresh
PROPERTY ClaimsSuitTeam
