------------------------------ MODULE WakeJoin ------------------------------
(***************************************************************************)
(* tools/wake_join.py: binding a wake event to the arm it answers.         *)
(*                                                                         *)
(* A grader is a process: it loads the spent log when it constructs        *)
(* SpentLog, and then joins events to the one arm under review.  join()    *)
(* grades the event (identity, then whether the arm is open) and only then *)
(* looks at, and appends to, what it holds of the spent log.  Meanwhile    *)
(* time passes, arms are superseded, watchers die and their pids are used  *)
(* again.  "Instance" is the start time of a process.                      *)
(***************************************************************************)
EXTENDS Naturals

CONSTANTS
  None, Graders, EventIds, Pids,
  Starts,        \* process start times
  MaxLoads       \* model bound: constructions of SpentLog

VARIABLES
  arm,           \* [pid, start]: the identity the arm committed, None where it did not
  armState,      \* what check_arm_token() would say: "open", "expired",
                 \* "superseded" or "unreadable"
  process,       \* process[p]: the start of the process that now has pid p, or None
  spent,         \* the event ids in the spent log file
  torn,          \* does the file end in a part of a line?
  pc, mem,       \* pc[g]; mem[g]: the ids g's SpentLog holds
  event,         \* event[g]: the event g is joining, or None
  bindings,      \* bindings[e]: how often e was answered BOUND, up to 2 (history)
  loads,         \* constructions so far (bounded)
  undisturbed    \* no line was cut short, and no two graders were up at once (history)

vars == <<arm, armState, process, spent, torn, pc, mem, event, bindings, loads, undisturbed>>
world == <<arm, armState, process>>
log == <<spent, torn>>

\* What an event says.  `foreign` names the first of the plain checks it fails.
Foreign == {"nothing", "field-missing", "different-arm", "token-mismatch", "weak-token",
            "subject-seat", "different-registration", "different-target"}
Event == [id : EventIds, foreign : Foreign, pid : Pids, start : Starts]

Init == /\ arm \in [pid : Pids \cup {None}, start : Starts \cup {None}]
        /\ armState = "open"
        /\ process \in [Pids -> Starts \cup {None}]
        /\ spent = {} /\ torn = FALSE
        /\ pc = [g \in Graders |-> "down"]
        /\ mem = [g \in Graders |-> {}]
        /\ event = [g \in Graders |-> None]
        /\ bindings = [e \in EventIds |-> 0]
        /\ loads = 0 /\ undisturbed = TRUE

\* SpentLog(path) reads the file as it is now.
\* Mutant: an in-memory set that starts empty.
InMemory == {}
Loaded == spent
Load(g) ==
  /\ pc[g] = "down" /\ loads < MaxLoads
  /\ loads' = loads + 1
  /\ mem' = [mem EXCEPT ![g] = Loaded]
  /\ pc' = [pc EXCEPT ![g] = "ready"]
  /\ undisturbed' = (undisturbed /\ \A h \in Graders : pc[h] = "down")
  /\ UNCHANGED <<world, log, event, bindings>>

\* The start time of the emitter, from a source the event did not write.
\* Mutant: falls back to the event's own report.
SelfReport(e) == IF arm.start # None THEN arm.start
                 ELSE IF process[e.pid] # None THEN process[e.pid] ELSE e.start
Independent(e) == IF arm.start # None THEN arm.start ELSE process[e.pid]

\* join() up to check_arm_token(), check after check; REJECTED and CANNOT-VERIFY
\* leave no trace but the answer.
\* Mutant: the pid alone is identity.
PidOnly(e) ==
  CASE e.foreign # "nothing" \/ arm.pid \notin {None, e.pid} -> "REJECTED"
    [] Independent(e) = None \/ armState = "unreadable"       -> "CANNOT-VERIFY"
    [] armState \in {"expired", "superseded"}                 -> "REJECTED"
    [] OTHER                                                  -> "graded"
Answer(e) ==
  CASE e.foreign # "nothing" \/ arm.pid \notin {None, e.pid} -> "REJECTED"
    [] Independent(e) = None                                  -> "CANNOT-VERIFY"
    [] Independent(e) # e.start                               -> "REJECTED"
    [] armState = "unreadable"                                -> "CANNOT-VERIFY"
    [] armState \in {"expired", "superseded"}                 -> "REJECTED"
    [] OTHER                                                  -> "graded"

Grade(g, e) ==
  /\ pc[g] = "ready" /\ Answer(e) = "graded"
  /\ event' = [event EXCEPT ![g] = e]
  /\ pc' = [pc EXCEPT ![g] = "spending"]
  /\ UNCHANGED <<world, log, mem, bindings, loads, undisturbed>>

\* The event is in this grader's SpentLog: replay.
\* Mutant: looks for the whole event among the ids.
WholeEvent(g) == event[g] \in mem[g]
IsSpent(g) == event[g].id \in mem[g]
EndJoin(g) == /\ pc' = [pc EXCEPT ![g] = "ready"]
              /\ event' = [event EXCEPT ![g] = None]
Replay(g) ==
  /\ pc[g] = "spending" /\ IsSpent(g)
  /\ EndJoin(g)
  /\ UNCHANGED <<world, log, mem, bindings, loads, undisturbed>>

\* mark_spent(): the set, then a line of the file.  A line appended to a part
\* of one is glued to it, and no later construction recognises either.
\* Mutant: writes the event and not its id.
EventMarked(g) == spent \cup {event[g]}
Marked(g) == IF torn THEN spent ELSE spent \cup {event[g].id}
Bind(g) ==
  /\ pc[g] = "spending" /\ ~IsSpent(g)
  /\ mem' = [mem EXCEPT ![g] = @ \cup {event[g].id}]
  /\ spent' = Marked(g)
  /\ torn' = FALSE
  /\ bindings' = [bindings EXCEPT ![event[g].id] = IF @ = 0 THEN 1 ELSE 2]
  /\ EndJoin(g)
  /\ UNCHANGED <<world, loads, undisturbed>>

\* The grader dies; in mark_spent() the line may be there, whole or in part.
Crash(g) ==
  /\ pc[g] # "down"
  /\ IF pc[g] = "spending" /\ ~IsSpent(g)
       THEN \/ spent' = Marked(g) /\ torn' = FALSE /\ UNCHANGED undisturbed
            \/ spent' = spent /\ torn' = TRUE /\ undisturbed' = FALSE
            \/ UNCHANGED <<log, undisturbed>>
       ELSE UNCHANGED <<log, undisturbed>>
  /\ mem' = [mem EXCEPT ![g] = {}]
  /\ pc' = [pc EXCEPT ![g] = "down"]
  /\ event' = [event EXCEPT ![g] = None]
  /\ UNCHANGED <<world, bindings, loads>>

\* The grader's run is over.
Exit(g) ==
  /\ pc[g] = "ready"
  /\ mem' = [mem EXCEPT ![g] = {}]
  /\ pc' = [pc EXCEPT ![g] = "down"]
  /\ UNCHANGED <<world, log, event, bindings, loads, undisturbed>>

\* The arm expires, is superseded, or its store stops being readable.
Close(s) == /\ armState = "open" /\ armState' = s
            /\ UNCHANGED <<arm, process, log, pc, mem, event, bindings, loads, undisturbed>>

\* A process ends, or a pid is given to another process.
Reuse(p, t) == /\ process[p] # t /\ process' = [process EXCEPT ![p] = t]
               /\ UNCHANGED <<arm, armState, log, pc, mem, event, bindings, loads, undisturbed>>

Next == \/ \E g \in Graders :
             \/ \E e \in Event : Grade(g, e)
             \/ Load(g) \/ Replay(g) \/ Bind(g) \/ Crash(g) \/ Exit(g)
        \/ \E s \in {"expired", "superseded", "unreadable"} : Close(s)
        \/ \E p \in Pids, t \in Starts \cup {None} : Reuse(p, t)

Spec == Init /\ [][Next]_vars

-----------------------------------------------------------------------------
(* Properties.                                                             *)

TypeOK == /\ arm \in [pid : Pids \cup {None}, start : Starts \cup {None}]
          /\ armState \in {"open", "expired", "superseded", "unreadable"}
          /\ process \in [Pids -> Starts \cup {None}]
          /\ spent \subseteq EventIds /\ torn \in BOOLEAN
          /\ pc \in [Graders -> {"down", "ready", "spending"}]
          /\ mem \in [Graders -> SUBSET EventIds]
          /\ event \in [Graders -> Event \cup {None}]
          /\ bindings \in [EventIds -> 0 .. 2] /\ loads \in 0 .. MaxLoads
          /\ undisturbed \in BOOLEAN

\* The event's own report never verifies itself: every bound event agrees with
\* a start time that the arm committed or the grader read off the process
\* table, whatever processes died or took over pids in the meantime.
NeverSelfVerified ==
  \A g \in Graders :
    pc[g] = "ready" /\ pc'[g] = "spending" =>
      LET e == event'[g] IN
      /\ e.start = IF arm.start # None THEN arm.start ELSE process[e.pid]
      /\ arm.pid \in {None, e.pid}

\* Over grader runs that follow one another, ended or killed between two lines,
\* an event is bound once.
BoundOnceAlone == undisturbed => \A e \in EventIds : bindings[e] <= 1

\* "Replay across PROCESSES is the case that matters": an event is bound once,
\* whatever graders run and however they end.
BoundOnce == \A e \in EventIds : bindings[e] <= 1
=============================================================================
