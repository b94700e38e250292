SPECIFICATION Spec
CONSTANTS
  Newest = 2
  MaxRuns = 1
  MaxCrashes = 0
  MaxAppends = 1
INVARIANT MigratedIsPinned
CHECK_DEADLOCK FALSE
