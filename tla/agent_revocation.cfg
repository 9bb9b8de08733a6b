SPECIFICATION Spec
CONSTANTS
  Worker = {w1, w2}
  NoWorker = NoWorker
  Call = {ask, auto}
  Manual = {ask}
  NoCall = NoCall
  MaxGen = 2
  MaxEpoch = 2
  Faults = {}
  MaxFaults = 0
PROPERTIES DispatchIsApproved
CHECK_DEADLOCK FALSE
