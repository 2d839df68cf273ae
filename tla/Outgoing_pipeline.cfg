\* Two replies, one of a human; scanner, two workers, a retry, one failure and one end of the process.
SPECIFICATION FairSpec
CONSTANTS
  NoMsg = NoMsg
  Messages = {m1, m2}
  Human = {m1}
  Workers = {w1, w2}
  Requests = {r1}
  QueueCap = 1
  MaxReasons = 1
  MaxStops = 1
INVARIANT Custody
INVARIANT DuplicatesExplained
INVARIANT SentIsStamped
PROPERTY Implements
PROPERTY EventuallySettled
