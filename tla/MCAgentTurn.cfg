SPECIFICATION FairSpec
CONSTANTS
  Worker = {w1, w2}
  NoWorker = NoWorker
  Call = {ask, auto}
  Manual = {ask}
  NoCall = NoCall
  MaxGen = 2
  MaxEpoch = 0
  Faults = {"crash", "lapse", "stop", "transient"}
  MaxFaults = 1
INVARIANTS LiveHasJob WaitingHasRequest OneRunner
PROPERTIES ImplementsExecutionLife NothingBehindOpenCall RunsEnd CancellationTakesEffect
CHECK_DEADLOCK FALSE
