SPECIFICATION FairSpec
CONSTANTS
  MaxPosts = 2
  MaxResumes = 2
  MaxCrashes = 1
  MaxStops = 1
  MaxBoundary = 2
INVARIANTS NothingLeftBehind FollowUpsInOrder ResumeBeforeNext
PROPERTIES EveryRunEnds
CHECK_DEADLOCK FALSE
