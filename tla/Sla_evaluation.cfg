SPECIFICATION FairSpec
CONSTANTS
  None = None
  MaxSlas = 2
  MaxTime = 2
  MaxErrors = 1
INVARIANTS VerdictsTrue VerdictsAgree OneNotice
PROPERTIES JudgedEventually
CHECK_DEADLOCK FALSE
