------------------------------ MODULE MCCustody ------------------------------
(***************************************************************************)
(* TLC instances of the custody tools.  They share files and no state that *)
(* one step of two of them changes, so a behaviour runs one of them:       *)
(* `focus` says which, and for the sweep which part of the fleet moves.    *)
(***************************************************************************)
EXTENDS CustodyLease, Sequences, TLC

VARIABLES
  focus,
  lines, unended, pc, count, alone, unkilled, whole, lost,
  script, plugin, beacon, table, spawns, sweep

Attempts == INSTANCE CustodyAttempts
Wedge == INSTANCE WedgeSweep

leaseOnly == <<lease, home, old, drawn, up, probe>>
attemptsOnly == <<lines, unended, pc, count, alone, unkilled, whole, lost>>
sweepOnly == <<script, plugin, beacon, table, spawns, sweep>>
vars == <<focus, clock, leaseOnly, attemptsOnly, sweepOnly>>

\* What does not move has one initial state.
CustodyInit ==
  /\ focus \in {"lease", "attempts", "transcripts", "processes"}
  /\ Init /\ Attempts!Init /\ Wedge!Init
  /\ focus # "lease" => old = {} /\ home = [s \in Sessions |-> Here]
  /\ focus # "transcripts" => plugin = {}

CustodyNext ==
  /\ focus' = focus
  /\ \/ /\ focus = "lease" /\ Next
        /\ UNCHANGED <<attemptsOnly, sweepOnly>>
     \/ /\ focus = "attempts" /\ Attempts!Next
        /\ UNCHANGED <<leaseOnly, sweepOnly>>
     \/ /\ focus = "transcripts" /\ Wedge!Next /\ spawns' = 0
        /\ UNCHANGED <<leaseOnly, attemptsOnly>>
     \/ /\ focus = "processes" /\ Wedge!Next
        /\ beacon' = beacon /\ \A s \in Seats : Len(script'[s]) <= 1
        /\ UNCHANGED <<leaseOnly, attemptsOnly>>

CustodySpec == CustodyInit /\ [][CustodyNext]_vars

Symmetry == Permutations(Runs)

\* Each part is stated, and explained, in the module of its component; NoLivePeerMissed
\* is CustodyLease's.
TypesOK == CASE focus = "lease" -> TypeOK
             [] focus = "attempts" -> Attempts!TypeOK
             [] OTHER -> Wedge!TypeOK

\* What the attempt log says of a session is so, and no process that the sweep graded
\* is killed young; and every variable of the tools has its type.
VerdictsAreTrue == TypesOK /\ Attempts!VerdictsAreTrue /\ Wedge!NoYoungVictim

\* The sweep reports every stall it could see, and no other.
StallsAreExact == Wedge!NoInventedStall /\ Wedge!NoStallHidden
KillsWhatItGraded == Wedge!KillsWhatItGraded
=============================================================================
