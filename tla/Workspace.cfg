SPECIFICATION Spec
CONSTANTS
  Stampers = {s1, s2}
  NoStamper = NoStamper
  MaxDeaths = 1
  Newest = 2
  MaxRuns = 2
  MaxCrashes = 1
  MaxAppends = 1
  Names = {n1, n2}
  MaxEdits = 3
  Lanes = {r1, r2, channel}
  Channel = channel
  MaxLines = 2
  MaxCount = 2
  MaxPushes = 2
INVARIANTS StampIsWhole RecordsAsWritten MigrationHolds ScaledIsComplete OnlyRotIsOverwritten GreenKeepsLogs
CHECK_DEADLOCK FALSE
