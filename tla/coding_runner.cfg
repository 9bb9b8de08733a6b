\* One turn of a Coding Execution, its supervisor and its decisions, two handler
\* calls at a time and one fault of any kind.
CONSTANTS
  Worker = {w1, w2}
  Faults = {"crash", "lapse", "stop", "orphan"}
  MaxFaults = 1
SPECIFICATION FairSpec
INVARIANTS NoRunnerBehind ConfirmedIsStopped
PROPERTIES CancelledStands RunnerEnds TurnEnds
CHECK_DEADLOCK FALSE
