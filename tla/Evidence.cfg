SPECIFICATION EvidenceSpec
CONSTANTS
  Pids = {1, 2, 3}
  SlotPids = {1, 2}
  Takers = {t1, t2, t3}
  NoTaker = NoTaker
  Epochs = {1}
  MaxBirths = 4
  MaxTime = 1
  OldAge = 1
  Near = 0
  Days = 2
  MaxFires = 2
  MaxBodies = 2
  MaxRecords = 2
  Clients = {c1, c2}
  Dates = 2
  MaxLength = 1
  MaxPreviews = 2
INVARIANTS PublicationHolds ProbesAreTrue DetectorIsRight RecordsAreKept BindingHolds
CHECK_DEADLOCK FALSE
