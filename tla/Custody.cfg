SPECIFICATION CustodySpec
CONSTANTS
  None = None
  Trees = {here, there}
  Sessions = {me, s1}
  Self = me
  Here = here
  Ttl = 1
  MaxClock = 3
  Runs = {r1, r2, r3}
  MaxLines = 2
  FreezeAfter = 1
  LastTick = 2
  LogFaults = {"kill", "tear", "append", "count"}
  Seats = {s1}
  Pids = {p1}
  StallAfter = 2
  AbandonAfter = 2
  Halfwidth = 1
  LeaseTtl = 1
  Window = 2
  MaxRecords = 3
  MaxSpawns = 2
  MaxTime = 3
SYMMETRY Symmetry
INVARIANTS NoLivePeerMissed VerdictsAreTrue
PROPERTIES StallsAreExact
CHECK_DEADLOCK FALSE
