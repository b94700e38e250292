------------------------------ MODULE MCLedgers ------------------------------
(***************************************************************************)
(* TLC instances of the tools that grant from, hold in or read a ledger.   *)
(* They share no state, so a behaviour runs one of them: `focus`.          *)
(***************************************************************************)
EXTENDS DispatchCap, TLC

CONSTANTS
  Claims, MaxDay, Cap, MaxCuts,                         \* LegLedger's
  Edges, MaxRound, Troubles,                            \* TapLedger's
  Archives, MaxVolumes, MaxTrouble,                     \* RotateLog's
  Roles, Grants, MaxScope, MaxIds, MaxEvents, NoId,     \* AuthLog's
  Scribes, Commissions, Heading, Garbled, Columns, Width, MaxRows, MaxDeaths   \* FleetLedger's

ASSUME LegAssumption ==
  IsFiniteSet(Claims) /\ MaxDay \in Nat \ {0} /\ Cap \in Nat /\ MaxCuts \in Nat
ASSUME TapAssumption == MaxRound \in Nat
ASSUME RotateAssumption == Archives \in Nat /\ MaxVolumes \in Nat /\ MaxTrouble \in Nat
ASSUME AuthAssumption ==
  /\ MaxScope \in Nat /\ MaxIds \in Nat /\ MaxEvents \in Nat
  /\ NoId \notin Grants \cup (Grants \X {"R"} \X (1 .. MaxIds)) \cup {<<"pending">>}
ASSUME FleetAssumption ==
  /\ IsFiniteSet(Scribes) /\ MaxRows \in Nat /\ MaxDeaths \in Nat
  /\ Heading \notin Commissions /\ Garbled \notin Commissions \cup {Heading} /\ Width \in Nat /\ Width > 1

VARIABLES
  focus,
  today, file, headed, legPc, day, cuts, legs, peak,
  record, obs, log, round, tapPc, todo, at, fire, tapped, reported, taken,
  volume, large, begun, next, trouble,
  events, reading,
  exists, lines, fleetPc, row, told, crowd, deaths

Legs == INSTANCE LegLedger WITH pc <- legPc
Taps == INSTANCE TapLedger WITH pc <- tapPc
Rotation == INSTANCE RotateLog WITH at <- next
Auth == INSTANCE AuthLog
Fleet == INSTANCE FleetLedger WITH file <- lines, pc <- fleetPc, peak <- crowd

legOnly == <<today, file, headed, legPc, day, cuts, legs, peak>>
tapOnly == <<record, obs, log, round, tapPc, todo, at, fire, tapped, reported, taken>>
rotateOnly == <<volume, large, begun, next, trouble>>
authOnly == <<events, reading>>
fleetOnly == <<exists, lines, fleetPc, row, told, crowd, deaths>>
all == <<focus, vars, legOnly, tapOnly, rotateOnly, authOnly, fleetOnly>>

\* What a component starts from is chosen only in the behaviours it runs.
LedgersInit ==
  /\ focus \in {"arms", "legs", "taps", "rotation", "auth", "fleet"}
  /\ Init /\ Legs!Init /\ Taps!Init /\ Rotation!Init /\ Auth!Init /\ Fleet!Init
  /\ focus # "legs" => headed
  /\ focus # "fleet" => exists
  /\ focus # "taps" => log = [e \in Edges |-> "there"]

Claiming(A) == focus = "arms" /\ A /\ UNCHANGED <<focus, legOnly, tapOnly, rotateOnly, authOnly, fleetOnly>>

LedgersNext ==
  \/ Claiming(Next)
  \/ focus = "legs" /\ Legs!Next /\ UNCHANGED <<focus, vars, tapOnly, rotateOnly, authOnly, fleetOnly>>
  \/ focus = "taps" /\ Taps!Next /\ UNCHANGED <<focus, vars, legOnly, rotateOnly, authOnly, fleetOnly>>
  \/ focus = "rotation" /\ Rotation!Next /\ UNCHANGED <<focus, vars, legOnly, tapOnly, authOnly, fleetOnly>>
  \/ focus = "auth" /\ Auth!Next /\ UNCHANGED <<focus, vars, legOnly, tapOnly, rotateOnly, fleetOnly>>
  \/ focus = "fleet" /\ Fleet!Next /\ UNCHANGED <<focus, vars, legOnly, tapOnly, rotateOnly, authOnly>>

LedgersSpec == LedgersInit /\ [][LedgersNext]_all
FairLedgersSpec == LedgersSpec /\ \A a \in Arms : WF_all(Claiming(Step(a)))

\* Each is stated, and explained, in the module of its component; GrantsWithinCap,
\* RefusedMeansFull and ClaimTerminates are DispatchCap's.
VerdictIsEvidence == Taps!VerdictIsEvidence
CleanMeansAuthorised == Auth!TypeOK /\ Auth!CleanMeansAuthorised

\* The missing lock, a cut append and a missing header cost a day a bounded number
\* of legs; and the variables of the leg ledger have their types.
OverspendIsBounded == Legs!TypeOK /\ Legs!OverspendIsBounded

\* The archives are in order and what goes wrong costs one volume each time; and
\* the variables of the rotation have their types.
TroubleCostsOneArchive == Rotation!TypeOK /\ Rotation!TroubleCostsOneArchive

\* A row that a scribe reported is read as it was written, but for one for each scribe
\* that ended half way and one for a missing header; a superseding row is a copy of the
\* latest but for one field, and a lone scribe's report has what was told only; and the
\* variables of the fleet ledger, the tap ledger and the dispatch cap have their types.
FleetIsKept == TypeOK /\ Taps!TypeOK /\ Fleet!TypeOK /\ Fleet!LedgerIsKept
=============================================================================
