CONSTANTS
  MaxMoves = 2
  MaxRuns = 1
  MaxEdits = 2
CHECK_DEADLOCK FALSE
SPECIFICATION FairSpec
INVARIANTS Settled
PROPERTIES FollowsNetwork ImplementsPreferences
