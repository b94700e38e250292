----------------------------- MODULE PlanLedger -----------------------------
(***************************************************************************)
(* tools/plan_gate/plan_common.py and the projection of stop_observer.py:  *)
(* what a ledger of plan files says is runnable, licensed, owed and done,  *)
(* as seats edit it and time passes.  A plan is reduced to what these read *)
(* of it: its steps, one gate, one clock and one constraint.               *)
(***************************************************************************)
EXTENDS Naturals, FiniteSets

CONSTANTS
  Files,         \* plans/*.plan.yaml, each with one plan
  Steps,         \* step ids, of every plan
  Seats, Nobody, \* seats; the owner of a step that has none
  Gate, Clock,   \* the gate and the clock of a plan, as its steps refer to them
  Typo,          \* a reference that resolves to nothing
  DigestCap,     \* DIGEST_CAP_BYTES, in lines
  MaxNow,        \* the time passes the instants 0 .. MaxNow
  MaxEdits       \* bound on the edits of the ledger

ASSUME LedgerAssumption ==
  /\ DigestCap \in Nat /\ MaxNow \in Nat /\ MaxEdits \in Nat /\ Nobody \notin Seats
  /\ IsFiniteSet(Files) /\ IsFiniteSet(Steps)
  /\ Gate \notin Steps /\ Clock \notin Steps \cup {Gate} /\ Typo \notin Steps \cup {Gate, Clock}

Never == MaxNow + 1       \* "close", no time, or one that parse_dt() refuses

Step == [status : {"pending", "blocked", "done", "superseded"},
         owner : Seats \cup {Nobody}, pre : SUBSET (Steps \cup {Gate, Clock, Typo}),
         judged : BOOLEAN,         \* closed by judgment
         coord : BOOLEAN]          \* names the coordinate, and has evidence if it is done
Plan == [open : BOOLEAN, step : [Steps -> Step],
         coords : BOOLEAN,                        \* the plan itself names the coordinate
         ruled : BOOLEAN, dangling : BOOLEAN,     \* the gate, and an edge of it to no step
         fired : BOOLEAN, fires : 0 .. Never,     \* the clock
         typed : BOOLEAN,                         \* YAML made a time of a time field
         byGate : BOOLEAN, until : 0 .. Never,    \* the constraint
         parks : SUBSET (Files \X Steps)]
File == [text : {"fine", "broken", "unreadable"}, plan : Plan]

VARIABLES ledger, now, edits
ledgerVars == <<ledger, now, edits>>

-----------------------------------------------------------------------------
(* Loading.  Files that do not load are named; plans with a defect are kept *)
(* and named.                                                              *)

Loads(file) == file.text = "fine"
Loaded(files) == {f \in DOMAIN files : Loads(files[f])}
Defective(p) == p.typed \/ (p.dangling /\ ~p.ruled)
LoadErrors(files) == {f \in DOMAIN files : ~Loads(files[f]) \/ Defective(files[f].plan)}
Opens(files) == {f \in Loaded(files) : files[f].plan.open}

\* ledger_sha() is the ledger itself, or nothing.
NoLedger == [f \in {} |-> Typo]
ShaOf(files) ==
  IF \E f \in DOMAIN files : files[f].text = "unreadable" THEN NoLedger ELSE files

-----------------------------------------------------------------------------
(* Preconditions and constraints.                                          *)

Met(p, ref, at) ==
  CASE ref \in Steps -> p.step[ref].status = "done"
    [] ref = Gate    -> p.ruled
    [] ref = Clock   -> p.fired \/ p.fires <= at
    [] OTHER         -> FALSE
Satisfied(p, s, at) == \A ref \in p.step[s].pre : Met(p, ref, at)

\* Mutant: a constraint begins, and does not end, at its instant.
ActiveFrom(p, at) == IF p.byGate THEN ~p.ruled ELSE at >= p.until
Active(p, at) == IF p.byGate THEN ~p.ruled ELSE at < p.until

\* parked_by_constraints(): entries that name no open step park nothing.
Parked(files, at) ==
  UNION {files[f].plan.parks : f \in {g \in Opens(files) : Active(files[g].plan, at)}}
    \cap (Opens(files) \X Steps)

-----------------------------------------------------------------------------
(* runnable() of stop_observer.                                            *)

\* A step in these states is nobody's to do.
Open(step) == step.status \in {"pending", "blocked"} /\ ~step.judged
Believed(p, s) == p.step[s].status = "blocked" /\ Gate \in p.step[s].pre /\ ~p.ruled
Runnable(files, seat, at) ==
  {e \in Opens(files) \X Steps :
     LET p == files[e[1]].plan
         s == e[2] IN
     /\ p.step[s].owner = seat
     /\ Open(p.step[s]) /\ ~Believed(p, s) /\ Satisfied(p, s, at)}
  \ Parked(files, at)

-----------------------------------------------------------------------------
(* The coordinate, and the digest.                                         *)

Names(files, f, s) == files[f].plan.step[s].coord
TopLevel(files) == \E f \in Opens(files) : files[f].plan.coords
\* Mutant: a step's preconditions are not asked.
AnyTime(files, at) ==
  {e \in Opens(files) \X Steps :
     Names(files, e[1], e[2]) /\ files[e[1]].plan.step[e[2]].status \in {"pending", "done"}}
LicensedBy(files, at) ==
  {e \in Opens(files) \X Steps :
     /\ Names(files, e[1], e[2]) /\ files[e[1]].plan.step[e[2]].status \in {"pending", "done"}
     /\ Satisfied(files[e[1]].plan, e[2], at)}
Licensed(files, at) == TopLevel(files) \/ LicensedBy(files, at) # {}
Population(files) ==
  TopLevel(files) \/ \E f \in Opens(files), s \in Steps : Names(files, f, s)
Owed(files, at) ==
  \E f \in Opens(files), s \in Steps : Names(files, f, s) /\ ~Satisfied(files[f].plan, s, at)

\* render_digest(), section by section.
\* Mutant: blocked steps are left out with the closed ones.
OnlyPending(step) == step.status = "pending"
Carried(step) == step.status \notin {"done", "superseded"}
OpenSteps(files) == {e \in Opens(files) \X Steps : Carried(files[e[1]].plan.step[e[2]])}
Unruled(files) == {f \in Opens(files) : ~files[f].plan.ruled}
Unfired(files) == {f \in Opens(files) : ~files[f].plan.fired}
ActiveConstraints(files, at) == {f \in Opens(files) : Active(files[f].plan, at)}
DoneRecord(files) ==
  {e \in Loaded(files) \X Steps :
     Names(files, e[1], e[2]) /\ files[e[1]].plan.step[e[2]].status = "done"}
Produced(files) == DoneRecord(files) # {}

\* What a plan takes of the digest, in lines: its heading and its rows.
Contribution(files, f, at) ==
  1 + Cardinality(OpenSteps(files) \cap ({f} \X Steps)) + Cardinality({f} \cap Unruled(files))
    + Cardinality({f} \cap Unfired(files)) + Cardinality({f} \cap ActiveConstraints(files, at))
\* All of them, the files that do not load, and what closes the digest.
Lines(files, at) ==
  Cardinality(Opens(files)) + Cardinality(OpenSteps(files)) + Cardinality(Unruled(files))
    + Cardinality(Unfired(files)) + Cardinality(ActiveConstraints(files, at))
    + Cardinality(LoadErrors(files))
    + (IF Produced(files) THEN 1 ELSE 0) + (IF Opens(files) = {} THEN 1 ELSE 0)

\* The banner of a digest that is over its cap: the three plans that take most of
\* it, or more where they take the same.  Nothing is dropped.
\* Mutant: it names plans that are not in the digest.
AnyThree(files, at) == {f \in Loaded(files) : ~files[f].plan.open} \cup Opens(files)
Largest(files, at) ==
  {f \in Opens(files) :
     Cardinality({g \in Opens(files) :
       Contribution(files, g, at) > Contribution(files, f, at)}) < 3}
OverCap(files, at) == IF Lines(files, at) > DigestCap THEN Largest(files, at) ELSE {}

\* The digest below its banner.
Digest(files, at) ==
  [steps |-> OpenSteps(files), gates |-> Unruled(files), clocks |-> Unfired(files),
   constraints |-> ActiveConstraints(files, at), done |-> Produced(files),
   errors |-> LoadErrors(files)]

-----------------------------------------------------------------------------
(* Seats edit one field of one file at a time; whoever writes the text may *)
(* leave it broken, and it may be unreadable for a while.                  *)

SetPlan(f, p) ==
  /\ ledger[f].text = "fine" /\ edits < MaxEdits /\ edits' = edits + 1
  /\ ledger' = [ledger EXCEPT ![f].plan = p]
  /\ UNCHANGED now

Progress ==
  \E f \in Files :
    LET p == ledger[f].plan IN
    \/ \E s \in Steps : p.step[s].status # "done" /\ SetPlan(f, [p EXCEPT !.step[s].status = "done"])
    \/ ~p.ruled /\ SetPlan(f, [p EXCEPT !.ruled = TRUE])
    \/ ~p.fired /\ SetPlan(f, [p EXCEPT !.fired = TRUE])
Rework ==
  \E f \in Files :
    LET p == ledger[f].plan IN
    \/ \E s \in Steps, st \in {"blocked", "pending"} :
         p.step[s].status # st /\ SetPlan(f, [p EXCEPT !.step[s].status = st])
    \/ SetPlan(f, [p EXCEPT !.open = ~@])
    \/ ~p.typed /\ SetPlan(f, [p EXCEPT !.typed = TRUE, !.fires = Never])
Damage ==
  \E f \in Files, text \in {"fine", "broken", "unreadable"} :
    /\ text # ledger[f].text /\ edits < MaxEdits /\ edits' = edits + 1
    /\ ledger' = [ledger EXCEPT ![f].text = text]
    /\ UNCHANGED now
Tick == now < MaxNow /\ now' = now + 1 /\ UNCHANGED <<ledger, edits>>

LedgerInit == now = 0 /\ edits = 0 /\ ledger \in [Files -> File]
LedgerNext == Progress \/ Rework \/ Damage \/ Tick

-----------------------------------------------------------------------------
(* Properties.                                                             *)

LedgerOK == /\ \A f \in Files : ledger[f] \in File
            /\ now \in 0 .. MaxNow /\ edits \in 0 .. MaxEdits

\* The digest is the carrier of record, also of a later moment than it was rendered at.
\* What a seat's stop is counted for, and what parks a step, is in it; what an open step
\* waits for is in it too, if it is not a reference that resolves to nothing or a step
\* that was superseded; and an open plan that it does not show is in a file that it
\* names, as is one whose clock can never fire.  A step by which the coordinate gate lets
\* work through is done and recorded as such, on its owner's list, parked or judged, or
\* has no owner, and is on no list at all; where a coordinate is known and not licensed,
\* some step that names it is owed, blocked or superseded.
CarrierIsComplete ==
  \A then \in 0 .. now :
    LET d == Digest(ledger, then) IN
    /\ \A seat \in Seats : Runnable(ledger, seat, now) \subseteq d.steps
    /\ \A e \in Parked(ledger, now) :
         \E f \in d.constraints : e \in ledger[f].plan.parks
    /\ \A f \in Opens(ledger), s \in Steps :
         ledger[f].plan.step[s].status \in {"pending", "blocked"} /\ ~Satisfied(ledger[f].plan, s, now) =>
           \/ ledger[f].plan.step[s].pre \cap {Typo} # {}
           \/ Gate \in ledger[f].plan.step[s].pre /\ f \in d.gates
           \/ Clock \in ledger[f].plan.step[s].pre /\ f \in d.clocks
                /\ (ledger[f].plan.typed => f \in d.errors)
           \/ \E t \in Steps : t \in ledger[f].plan.step[s].pre /\
                (<<f, t>> \in d.steps \/ ledger[f].plan.step[t].status = "superseded")
    /\ \A f \in Files : ledger[f].plan.open => f \in Opens(ledger) \/ f \in d.errors
    /\ \A e \in LicensedBy(ledger, now) :
         LET step == ledger[e[1]].plan.step[e[2]] IN
         \/ e \in DoneRecord(ledger) \/ e \in Parked(ledger, now) \/ step.judged
         \/ step.owner \in Seats /\ e \in Runnable(ledger, step.owner, now)
         \/ step.owner = Nobody
    /\ Population(ledger) /\ ~Licensed(ledger, now) =>
         \E f \in Opens(ledger), s \in Steps :
           /\ Names(ledger, f, s)
           /\ \/ Owed(ledger, now) /\ ~Satisfied(ledger[f].plan, s, now)
              \/ ledger[f].plan.step[s].status \in {"blocked", "superseded"}

\* "WHAT ACTUALLY MOVES ... close whole PLANS", and never closing done steps: each
\* plan that the banner names is one whose closing shortens the digest, and the
\* steps that are done or superseded take nothing of it.
BannerIsTrue ==
  /\ \A f \in OverCap(ledger, now) :
       Opens(ledger) \ {f} # {} =>
         Lines([ledger EXCEPT ![f].plan.open = FALSE], now) < Lines(ledger, now)
  /\ \A f \in Opens(ledger), s \in Steps :
       ledger[f].plan.step[s].status = "done" =>
         Lines([ledger EXCEPT ![f].plan.step[s].status = "superseded"], now) <= Lines(ledger, now)

\* Progress hides nothing: a step that is runnable stays so when time passes,
\* gates are ruled, clocks fire and other steps are done.
ProgressHidesNothing ==
  [][Tick \/ Progress =>
       \A seat \in Seats :
         \A e \in Runnable(ledger, seat, now) \ Runnable(ledger', seat, now') :
           ledger'[e[1]].plan.step[e[2]].status = "done"]_ledgerVars
=============================================================================
