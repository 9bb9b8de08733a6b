SPECIFICATION FairSpec
CONSTANTS
  Scheduler = {s1, s2}
  Contents = 2
  OtherRefs = FALSE
  MaxRuns = 2
  PeriodRuns = 2
  PeriodTokens = 3
  Cap = 2
  MaxBook = 3
  MaxEvents = 1
INVARIANTS OneAtWork WithinPeriod
PROPERTIES PendingIsDecided ChangeIsTakenUp
CHECK_DEADLOCK FALSE
