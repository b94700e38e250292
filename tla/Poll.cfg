SPECIFICATION FairPollSpec
CONSTANTS
  Workspaces = {1, 2}
  Requests <- TwoClones
  NoRequest = NoRequest
  Interval = 2
  Faults = {"pull", "codex", "git"}
  Files = {f1, f2}
  Runs = {r1, r2}
  MaxChanges = 3
INVARIANTS SweptIsWhole NewsIsKept
PROPERTIES WholeIsReviewed QuietLaneIsTold
CHECK_DEADLOCK FALSE
