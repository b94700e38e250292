SPECIFICATION Spec
CONSTANTS
  Pids = {1, 2, 3}
  MaxBirths = 3
  MaxTime = 1
  OldAge = 1
  Near = 0
INVARIANT OrphansAreReported
CHECK_DEADLOCK FALSE
