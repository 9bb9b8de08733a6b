\* One worker that dies once while its Runner is at work, and whose time runs out.
CONSTANTS
  Worker = {w1, w2}
  Faults = {"crash"}
  MaxFaults = 1
SPECIFICATION Spec
INVARIANT StartedIsReconciled
CHECK_DEADLOCK FALSE
