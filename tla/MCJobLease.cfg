SPECIFICATION LeaseSpec
CONSTANTS
  w1 = w1
  w2 = w2
  Worker = {w1, w2}
  Job = {1, 2}
  NoWorker = NoWorker
  Serves <- MCServes
  LeaseTicks = 1
  MaxSkew = 1
  MaxTime = 1
  MaxFence = 2
INVARIANT SingleOwner
PROPERTIES TokenOrderedWrites ImplementsFencedJob
CHECK_DEADLOCK FALSE
