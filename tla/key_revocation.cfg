SPECIFICATION FairSpec
CONSTANTS
  Drainer = {host, timer}
  RequestId = {r1, r2}
  MaxAsks = 2
  MaxCrashes = 1
INVARIANTS CallsAreDecided RecordTellsTruth
PROPERTIES DecisionsAreServed RevokedIsRecorded
CHECK_DEADLOCK FALSE
