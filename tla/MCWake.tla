------------------------------- MODULE MCWake -------------------------------
(***************************************************************************)
(* TLC instances of the wake-delivery instruments.  They read what one     *)
(* another wrote but run apart, so a behaviour runs one of them: `focus`.  *)
(* What a component starts from is chosen only in the behaviours it runs.  *)
(***************************************************************************)
EXTENDS WakeArm

CONSTANTS
  Graders, EventIds, Pids, Starts, MaxLoads,      \* WakeJoin's
  Agents, Unavailable,                            \* WakeIsolation's
  MaxLines,                                       \* WakeGrade's
  MaxRuns, Items, Subjects, Unreadable            \* WakeDetectors'

ASSUME OracleAssumption == None # Unavailable /\ {None, Unavailable} \cap Agents = {}
ASSUME BoundAssumption == {MaxLoads, MaxLines, MaxRuns} \subseteq Nat

VARIABLES
  focus,
  arm, armState, process, spent, torn, joinPc, mem, event, bindings, loads, undisturbed,
  parent, candidate, seat, standing, chain, seen, current, walk, verdict,
  exists, lines, armValid, read, deliveries, grading, outcome, promised,
  now, runs, met, overlapped,
  signal

Join == INSTANCE WakeJoin WITH pc <- joinPc
Isolation == INSTANCE WakeIsolation
Grading == INSTANCE WakeGrade
Detectors == INSTANCE WakeDetectors

\* Absent and unreadable are answers of their own.
ASSUME AnswerAssumption ==
  None \notin Grading!Outcomes /\ Unreadable \notin Detectors!DownStates \cup Detectors!OkStates

joinVars == <<arm, armState, process, spent, torn, joinPc, mem, event, bindings, loads,
              undisturbed>>
isolationVars == <<parent, candidate, seat, standing, chain, seen, current, walk, verdict>>
gradeVars == <<exists, lines, armValid, read, deliveries, grading, outcome, promised>>
pollVars == <<now, runs, met, overlapped>>
all == <<focus, vars, joinVars, isolationVars, gradeVars, pollVars, signal>>

WakeInit ==
  /\ focus \in {"arm", "join", "isolation", "grade", "poll", "diagnosis"}
  /\ Init
  /\ Join!Init
  /\ \/ focus = "join"
     \/ arm = [pid |-> None, start |-> None] /\ process = [p \in Pids |-> None]
  /\ Grading!Init
  /\ focus = "grade" \/ (exists /\ armValid)
  /\ Detectors!Init
  /\ Isolation!Init
  /\ \/ focus = "isolation"
     \/ /\ candidate = None /\ standing = "OK"
        /\ seat = (CHOOSE a \in Agents : TRUE) /\ parent = [a \in Agents |-> None]
  /\ \/ focus = "diagnosis" /\ Detectors!SignalInit
     \/ focus # "diagnosis" /\ signal = Detectors!AllWell

Mints(A) ==
  focus = "arm" /\ A /\ UNCHANGED <<focus, joinVars, isolationVars, gradeVars, pollVars, signal>>
Joins(A) ==
  focus = "join" /\ A /\ UNCHANGED <<focus, vars, isolationVars, gradeVars, pollVars, signal>>
Walks(A) ==
  focus = "isolation" /\ A /\ UNCHANGED <<focus, vars, joinVars, gradeVars, pollVars, signal>>
Grades(A) ==
  focus = "grade" /\ A /\ UNCHANGED <<focus, vars, joinVars, isolationVars, pollVars, signal>>
Polls(A) ==
  focus = "poll" /\ A /\ UNCHANGED <<focus, vars, joinVars, isolationVars, gradeVars, signal>>

WakeNext == \/ Mints(Next) \/ Joins(Join!Next) \/ Walks(Isolation!Next)
            \/ Grades(Grading!Next) \/ Polls(Detectors!Next)

WakeSpec == WakeInit /\ [][WakeNext]_all
FairWakeSpec == /\ WakeSpec
                /\ WF_all(Mints(Tick)) /\ \A m \in Minters : WF_all(Mints(Step(m)))
                /\ WF_all(Walks(Isolation!Step))

\* Each part is stated, and explained, in the module of its component.
TypesOK == TypeOK /\ Join!TypeOK /\ Isolation!TypeOK /\ Grading!TypeOK /\ Detectors!TypeOK

\* However minters race, stall and fail, the readers of the store agree on the one
\* open arm, and the audit never takes a race for tampering; and every variable of
\* the instruments has its type.
StoreIsSound == TypesOK /\ OneOpenArm /\ HonestAudit

\* An event is never bound on its own word for a process' start, and graders that
\* follow one another bind it once.
BindingsHold == [][Join!NeverSelfVerified /\ Join!BoundOnceAlone']_all

\* What the graders, the isolation check, the self-poll detector and the diagnosis of
\* a wake that does not come say is the case in the spawn graph, in the session's
\* store, in the runs and in the signals they look at.
GradesAreFacts ==
  /\ Isolation!VerdictIsRight /\ Grading!NotDeliveredIsFact
  /\ Detectors!DetectsOverlap /\ Detectors!ToldApart

\* A mint() and a climb of the isolation check both end, whatever they meet.
Answers == MintTerminates /\ (focus = "isolation" => Isolation!WalkTerminates)
=============================================================================
