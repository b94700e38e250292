--------------------------- MODULE WakeIsolation ---------------------------
(***************************************************************************)
(* tools/wake_isolation.py: may this candidate run the grader?             *)
(*                                                                         *)
(* check() climbs the spawn graph from the candidate, edge by edge, and    *)
(* only then asks for its name, its process and its launch authority.  The *)
(* graph is what the oracle copied when it was constructed: any function,  *)
(* cycles included, that may be unable to answer for some agents.          *)
(***************************************************************************)
CONSTANTS
  None, Agents,
  Unavailable   \* the oracle's answer when it could not look

VARIABLES
  parent,       \* parent_of(): an agent, None, or Unavailable
  candidate,    \* agent_id, or None
  seat,         \* the subject seat
  standing,     \* the first of the later checks that the candidate fails
  chain,        \* the ancestors reached (their order is only displayed)
  seen,
  current,
  walk,         \* "asked", "climbing" or "answered"
  verdict       \* [verdict, reason] as one name; "none" before

vars == <<parent, candidate, seat, standing, chain, seen, current, walk, verdict>>
question == <<parent, candidate, seat, standing>>

Standings == {"ROLE-NAME-ONLY", "NO-PROCESS-IDENTITY", "NO-LAUNCH-AUTHORITY", "OK"}
Barred == {"SUBJECT-SEAT", "DESCENDANT"}

Init == /\ parent \in [Agents -> Agents \cup {None, Unavailable}]
        /\ candidate \in Agents \cup {None} /\ seat \in Agents
        /\ standing \in Standings
        /\ chain = {} /\ seen = {} /\ current = None
        /\ walk = "asked" /\ verdict = "none"

AnswerWith(v) == walk' = "answered" /\ verdict' = v

\* check() before it climbs: a candidate without id, or the seat itself.
RefuseAtOnce ==
  /\ walk = "asked" /\ candidate \in {None, seat}
  /\ AnswerWith(IF candidate = None THEN "NO-PROCESS-IDENTITY" ELSE "SUBJECT-SEAT")
  /\ UNCHANGED <<question, chain, seen, current>>

\* ancestors(): the walk starts at the candidate, which it has seen.
StartClimb ==
  /\ walk = "asked" /\ candidate \notin {None, seat}
  /\ walk' = "climbing"
  /\ seen' = {candidate} /\ current' = candidate
  /\ UNCHANGED <<question, chain, verdict>>

\* Mutant: a cycle is not noticed.
NeverAgain(a) == a = None
AtTop(a) == a = None \/ a \in seen

Climb ==
  /\ walk = "climbing" /\ parent[current] # Unavailable /\ ~AtTop(parent[current])
  /\ chain' = chain \cup {parent[current]}
  /\ seen' = seen \cup {parent[current]}
  /\ current' = parent[current]
  /\ UNCHANGED <<question, walk, verdict>>

CannotLook ==
  /\ walk = "climbing" /\ parent[current] = Unavailable
  /\ AnswerWith("GRAPH-UNAVAILABLE")
  /\ UNCHANGED <<question, chain, seen, current>>

\* The closure first, the candidate's standing second.
\* Mutant: asks for the standing first.
StandingFirst == IF standing = "OK" /\ seat \in chain THEN "DESCENDANT" ELSE standing
Decision == IF seat \in chain THEN "DESCENDANT" ELSE standing

Decide ==
  /\ walk = "climbing" /\ AtTop(parent[current])
  /\ AnswerWith(Decision)
  /\ UNCHANGED <<question, chain, seen, current>>

Step == RefuseAtOnce \/ StartClimb \/ Climb \/ CannotLook \/ Decide
Next == Step

Spec == Init /\ [][Next]_vars
FairSpec == Spec /\ WF_vars(Step)

-----------------------------------------------------------------------------
(* Properties.                                                             *)

TypeOK ==
  /\ parent \in [Agents -> Agents \cup {None, Unavailable}]
  /\ candidate \in Agents \cup {None} /\ seat \in Agents /\ standing \in Standings
  /\ chain \subseteq Agents /\ seen \subseteq Agents
  /\ current \in Agents \cup {None}
  /\ walk \in {"asked", "climbing", "answered"}
  /\ verdict \in Standings \cup Barred \cup {"GRAPH-UNAVAILABLE", "none"}

\* a is d or an ancestor of d: it is in every set of agents that contains d and,
\* with an agent, its parent.
Closed(S) == \A a \in S : parent[a] \in Agents => parent[a] \in S
Above(a, d) == \A S \in SUBSET Agents : d \in S /\ Closed(S) => a \in S

\* No descendant of the seat under judgement is allowed to grade it, at any
\* depth and in any graph, nor a candidate with an ancestor the oracle could not
\* look above ("'could not look' never reads as 'not barred'").
NoDescendantRuns ==
  verdict = "OK" => \A a \in Agents : Above(a, candidate) => a # seat /\ parent[a] # Unavailable

\* "A barred candidate is reported BARRED even when its process cannot be
\* resolved", and nobody else is.
BarredIsDescendant ==
  walk = "answered" /\ candidate # None =>
    /\ verdict \in Barred => Above(seat, candidate)
    /\ Above(seat, candidate) =>
         \/ verdict \in Barred
         \/ verdict = "GRAPH-UNAVAILABLE"
            /\ \E a \in Agents : Above(a, candidate) /\ parent[a] = Unavailable

\* The verdict is about the spawn graph before it is about anything else.
VerdictIsRight == NoDescendantRuns /\ BarredIsDescendant

\* "A hang is not a verdict": check() answers on cyclic graphs too.
WalkTerminates == (walk = "asked") ~> (walk = "answered")
=============================================================================
