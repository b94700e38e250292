SPECIFICATION FairLedgersSpec
CONSTANTS
  Arms = {a1, a2, a3}
  MaxCap = 2
  BadCap = BadCap
  NoArm = NoArm
  Claims = {c1, c2, c3, c4}
  MaxDay = 2
  Cap = 2
  MaxCuts = 1
  Edges = {e1, e2}
  MaxRound = 2
  Troubles = {"crash", "vanish", "recreate", "unreadable"}
  Archives = 3
  MaxVolumes = 6
  MaxTrouble = 3
  Roles = {r1, r2}
  Grants = {g1}
  MaxScope = 2
  MaxIds = 1
  MaxEvents = 5
  NoId = NoId
  Scribes = {s1, s2}
  Commissions = {k1, k2}
  Heading = Heading
  Garbled = Garbled
  Width = 3
  Columns = {"closed", "ready"}
  MaxRows = 4
  MaxDeaths = 1
INVARIANTS FleetIsKept GrantsWithinCap RefusedMeansFull OverspendIsBounded TroubleCostsOneArchive CleanMeansAuthorised
PROPERTIES VerdictIsEvidence ClaimTerminates
CHECK_DEADLOCK FALSE
