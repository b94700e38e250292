SPECIFICATION FairWakeSpec
CONSTANTS
  Minters = {m1, m2}
  Ids = {i1, i2}
  Scopes = {s1}
  Ttls = {1, 2}
  LockTimeout = 1
  MaxClock = 2
  None = None
  Faults = {"write", "unlink", "crash"}
  Graders = {g1, g2}
  EventIds = {e1, e2}
  Pids = {p1, p2}
  Starts = {t1, t2}
  MaxLoads = 2
  Agents = {a1, a2, a3}
  Unavailable = Unavailable
  MaxLines = 3
  MaxRuns = 3
  Items = {w1}
  Subjects = {l1, l2}
  Unreadable = Unreadable
INVARIANTS StoreIsSound GradesAreFacts
PROPERTIES BindingsHold Answers
CHECK_DEADLOCK FALSE
