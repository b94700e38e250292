SPECIFICATION PlanSpec
CONSTANTS
  Files = {f1, f2}
  Steps = {x, y}
  Seats = {owner, builder}
  Nobody = Nobody
  Gate = Gate
  Clock = Clock
  Typo = Typo
  DigestCap = 3
  MaxNow = 2
  MaxEdits = 3
  MaxExplains = 2
  MaxStops = 2
  Sessions = {s1, s2}
  MaxDays = 2
  Week = 1
  MaxHooks = 3
  HookFaults = {"watchdog", "write", "unlink", "read"}
INVARIANTS ClearIsCurrent ReportsAreWhole
PROPERTIES ProgressHidesNothing SweepTakesOnlyDead
CHECK_DEADLOCK FALSE
