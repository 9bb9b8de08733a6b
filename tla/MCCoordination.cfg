SPECIFICATION FairSpec
CONSTANTS
  Node = {"draft", "check", "cli"}
  External = {"cli"}
  Gate = {"approve"}
  DependsOn <- InSequence
  Plans <- TeamOrCli
  Budget <- OneEach
  InitialCap = 2
  MaxRun = 2
  MaxTry = 2
  MaxAttempts = 3
  MaxParallel = 2
  MaxOver = 1
INVARIANTS SpendWithinCap NothingBesideUnknown StoppedPlansAreQuiet DependenciesHold RepeatsOnlyFailures
CHECK_DEADLOCK FALSE
PROPERTIES PlansEndOrRest
