------------------------------- MODULE MCPlan -------------------------------
(***************************************************************************)
(* TLC instances of the plan tools: the ledger alone, edited at length;    *)
(* the gate, over a ledger that is edited now and then; the compaction     *)
(* hooks.  A behaviour runs one of them: `focus`.                          *)
(***************************************************************************)
EXTENDS PlanGate, Functions

CONSTANTS MaxDays, Week, MaxHooks, HookFaults  \* CompactionMark's
ASSUME HookAssumption == MaxDays \in Nat /\ Week \in Nat /\ MaxHooks \in Nat
ASSUME StartAssumption == Files # {} /\ Steps # {}   \* of the ledgers a behaviour starts from

VARIABLES focus, today, mark, side, sentinel, hook, hooks, since

Marks == INSTANCE CompactionMark
markOnly == <<today, mark, side, sentinel, hook, hooks, since>>
all == <<focus, ledgerVars, gateVars, markOnly>>

-----------------------------------------------------------------------------
(* The ledgers a behaviour starts from.  The first file's first step waits *)
(* for `ref`, the second for the first; the second file's constraint parks *)
(* the first's steps.                                                      *)

seat1 == CHOOSE s \in Seats : TRUE
file1 == CHOOSE f \in Files : TRUE
session1 == CHOOSE s \in Sessions : TRUE
step1 == CHOOSE s \in Steps : TRUE

AStep(status, owner, pre, judged, coord) ==
  [status |-> status, owner |-> owner, pre |-> pre, judged |-> judged, coord |-> coord]
APlan(step, coords, dangling, fires, byGate, until, parks) ==
  [open |-> TRUE, step |-> step, coords |-> coords, ruled |-> FALSE, dangling |-> dangling, fired |-> FALSE,
   fires |-> fires, typed |-> FALSE, byGate |-> byGate, until |-> until, parks |-> parks]
Fine(plan) == [text |-> "fine", plan |-> plan]

Working(ref, status, judged) ==
  APlan([s \in Steps |-> IF s = step1 THEN AStep(status, seat1, {ref}, judged, TRUE)
                                      ELSE AStep("pending", seat1, {step1}, FALSE, FALSE)],
        FALSE, FALSE, 1, FALSE, 0, {})
Freezing(owner, byGate, parks) ==
  APlan([s \in Steps |-> AStep("done", owner, {}, FALSE, s = step1)], byGate, byGate, Never, byGate, 1, parks)

Shapes ==
  {[f \in Files |-> IF f = file1 THEN Fine(Working(ref, status, judged))
                                 ELSE Fine(Freezing(Nobody, byGate, parks))] :
     ref \in {Gate, Clock, Typo, step1}, status \in {"pending", "blocked"}, judged \in BOOLEAN,
     byGate \in BOOLEAN, parks \in {{}, {<<file1, step1>>}}}
Plain == [f \in Files |->
  IF f = file1 THEN Fine(Working(Clock, "pending", FALSE)) ELSE Fine(Freezing(Nobody, FALSE, {}))]

-----------------------------------------------------------------------------
PlanInit ==
  /\ \/ focus \in {"marks", "stops"} /\ ledger = Plain /\ lock = [s \in Sessions |-> Nobody]
     \/ focus = "checks" /\ ledger = Plain /\ lock \in Bijection(Sessions, Seats) /\ lock[session1] = seat1
     \/ focus = "ledger" /\ ledger \in Shapes /\ lock = [s \in Sessions |-> Nobody]
  /\ Init /\ Marks!Init

\* Beside the gate the ledger is edited twice at most, by damage, or as a step is
\* done; and the sessions, one of each seat, take turns.
Done == \E s \in Steps :
  LET p == ledger[file1].plan IN
  p.step[s].status # "done" /\ SetPlan(file1, [p EXCEPT !.step[s].status = "done"])
Some == Damage \/ Tick \/ Done
Alone(s) == \A t \in Sessions \ {s} : frame[t].pc = "idle"
Editing ==
  /\ \/ focus = "ledger" /\ LedgerNext
     \/ focus \in {"stops", "checks"} /\ edits < 2 /\ Some
  /\ UNCHANGED <<focus, gateVars, markOnly>>
Gating(s) ==
  /\ Alone(s)
  /\ \/ focus = "stops" /\ StopStep(s)
     \/ focus = "checks" /\ CheckStep(s, Files \cup {<<file1, step1>>})
  /\ UNCHANGED <<focus, ledgerVars, markOnly>>
Marking == focus = "marks" /\ Marks!Next /\ UNCHANGED <<focus, ledgerVars, gateVars>>

PlanNext == Editing \/ (\E s \in Sessions : Gating(s)) \/ Marking
PlanSpec == PlanInit /\ [][PlanNext]_all

\* Each part is stated, and explained, in the module of its component; ClearIsCurrent
\* and ProgressHidesNothing are PlanGate's and PlanLedger's.
TypesOK == LedgerOK /\ GateOK /\ Marks!TypeOK
SweepTakesOnlyDead == Marks!SweepTakesOnlyDead

\* What a seat reads of the ledger names everything that is owed, and of a digest that
\* is too large what would make it smaller; what the rollup reads of the stops makes
\* no zero of a gap; and every variable has its type.
ReportsAreWhole == TypesOK /\ CarrierIsComplete /\ (focus = "ledger" => BannerIsTrue) /\ NoFalseZero
=============================================================================
