---------------------------- MODULE WakeDetectors ----------------------------
(***************************************************************************)
(* The two detectors that explain, of facts handed to them, why wakes go   *)
(* wrong.  detect() of tools/wake_selfpoll.py is handed the intervals of a *)
(* poller: whatever starts and ends runs as time passes, asked at any      *)
(* moment.  detect_all() of tools/wake_conditions.py is handed what its    *)
(* caller could read of the intake, the scheduled task and the arm when a  *)
(* wake does not come, and answers with a set of diagnoses.                *)
(***************************************************************************)
EXTENDS Naturals, Sequences

CONSTANTS
  None,
  MaxClock,      \* model bound: the last tick
  MaxRuns,       \* model bound: runs of the poller
  Items,         \* at the intake, and pending
  Subjects,      \* that an arm watches
  Unreadable     \* UNREADABLE: the source could not answer

VARIABLES
  now,
  runs,          \* [start, end] in order of start, end = None while it runs
  met,           \* has a run started while another was up? (history)
  overlapped,    \* were two runs up while time passed? (history)
  signal         \* what detect_all() is handed

vars == <<now, runs, met, overlapped>>    \* the poller's

-----------------------------------------------------------------------------
(* The poller, and detect().                                               *)

Init == now = 0 /\ runs = << >> /\ met = FALSE /\ overlapped = FALSE

Up == {k \in DOMAIN runs : runs[k].end = None}

Begin == /\ Len(runs) < MaxRuns
         /\ runs' = Append(runs, [start |-> now, end |-> None])
         /\ met' = (met \/ Up # {})
         /\ UNCHANGED <<now, overlapped>>

End(k) == /\ runs[k].end = None
          /\ runs' = [runs EXCEPT ![k].end = now]
          /\ UNCHANGED <<now, met, overlapped>>

Pass == /\ now < MaxClock /\ now' = now + 1
        /\ overlapped' = (overlapped \/ \E j, k \in Up : j # k)
        /\ UNCHANGED <<runs, met>>

Next == Begin \/ Pass \/ \E k \in DOMAIN runs : End(k)

\* detect().  sorted() is stable, and the intervals come in order of start.

\* Mutant: a run without end is skipped.
SkipRunning(a, b) == a.end # None /\ b.start < a.end
Overlaps(a, b) == a.end = None \/ b.start < a.end

Detected == \E k \in 1 .. Len(runs) - 1 : Overlaps(runs[k], runs[k + 1])

\* What it answers with a source of intervals or without, of which some runs lack a
\* start: fewer than two runs cannot overlap, whatever they lack.
Answer(source, unstarted) ==
  CASE ~source -> "SELFPOLL-UNDETERMINED"
    [] source /\ Len(runs) < 2 -> "SELFPOLL-OK"
    [] source /\ Len(runs) >= 2 /\ unstarted # {} -> "SELFPOLL-UNDETERMINED"
    [] source /\ Len(runs) >= 2 /\ unstarted = {} ->
         IF Detected THEN "SELFPOLL-OVERLAP" ELSE "SELFPOLL-OK"

-----------------------------------------------------------------------------
(* detect_all(): which of three conditions.  Nothing of it has a state.    *)

Sources == {"items", "pending", "task", "resolved"}
DownStates == {"Disabled", "Missed", "LauncherDead", "Stopped"}
OkStates == {"Ready", "Running"}
Conditions == {"UPSTREAM-CANONICAL-BLIND", "OS-TASK-COMMON-MODE-DOWN", "ARMED-WRONG-SUBJECT"}

\* "expected" is None for an arm that carries no subjects, or no arm; a state of the
\* task that the tool does not know is "Queued" here.
Signals ==
  [items : (SUBSET Items) \cup {Unreadable}, pending : (SUBSET Items) \cup {Unreadable},
   task : DownStates \cup OkStates \cup {"Queued", None, Unreadable},
   expected : (SUBSET Subjects) \cup {None}, resolved : (SUBSET Subjects) \cup {Unreadable},
   machine : {"on", "asleep", "off"}, overdue : BOOLEAN]

SignalInit == signal \in Signals
AllWell == [items |-> {}, pending |-> {}, task |-> "Ready", expected |-> {}, resolved |-> {},
            machine |-> "on", overdue |-> FALSE]

\* detect_i(): a machine that is not on is no better than a blind intake.
\* Mutant: a source that could not answer has found nothing.
SilentIntake(s) ==
  IF s.machine \in {"asleep", "off"} \/ (s.items \notin {{}, Unreadable} /\ s.pending = {})
    THEN {"UPSTREAM-CANONICAL-BLIND"} ELSE {}
DetectI(s) ==
  CASE s.machine \in {"asleep", "off"} -> {"UPSTREAM-CANONICAL-BLIND"}
    [] s.machine = "on" /\ Unreadable \in {s.items, s.pending} -> {"UNDETERMINED-i"}
    [] s.machine = "on" /\ Unreadable \notin {s.items, s.pending} ->
         IF s.items # {} /\ s.pending = {} THEN {"UPSTREAM-CANONICAL-BLIND"} ELSE {}

\* detect_j(): not ready is not down, and unknown is neither.
\* Mutant: every state that is not known to be down is fine.
DownOrFine(s) == IF s.task \in DownStates THEN {"OS-TASK-COMMON-MODE-DOWN"} ELSE {}
DetectJ(s) ==
  CASE s.task \in DownStates -> {"OS-TASK-COMMON-MODE-DOWN"}
    [] s.task \in OkStates -> {}
    [] OTHER -> {"UNDETERMINED-j"}

\* detect_k().
DetectK(s) ==
  CASE s.resolved = Unreadable \/ s.expected = None -> {"UNDETERMINED-k"}
    [] OTHER -> IF s.expected \subseteq s.resolved THEN {} ELSE {"ARMED-WRONG-SUBJECT"}

\* detect_all(): every finding; a delivery that is late is a finding of its own, and
\* only where no condition is.
Found(s) == DetectI(s) \cup DetectJ(s) \cup DetectK(s)
\* Mutant: what could not be read explains a late delivery.
LateUnlessFound(s) == IF s.overdue /\ Found(s) = {} THEN {"DELIVERY-TIMEOUT-UNDIAGNOSED"} ELSE {}
Late(s) ==
  IF s.overdue /\ Found(s) \cap Conditions = {} THEN {"DELIVERY-TIMEOUT-UNDIAGNOSED"} ELSE {}
DetectAll(s) == IF Found(s) \cup Late(s) = {} THEN {"HEALTHY"} ELSE Found(s) \cup Late(s)

-----------------------------------------------------------------------------
(* Properties.                                                             *)

TypeOK ==
  /\ now \in 0 .. MaxClock /\ met \in BOOLEAN /\ overlapped \in BOOLEAN
  /\ runs \in Seq([start : 0 .. MaxClock, end : (0 .. MaxClock) \cup {None}])

\* Neighbours are enough, and touching is not: a window in which two runs were
\* up, however far apart they started, is found by comparing each run with the
\* next and never answered OK, what is found has happened, and only what could not
\* be seen is undetermined.
DetectsOverlap ==
  \A source \in BOOLEAN, unstarted \in SUBSET DOMAIN runs :
    LET code == Answer(source, unstarted) IN
    /\ code = "SELFPOLL-OK" => ~overlapped
    /\ code = "SELFPOLL-OVERLAP" => met
    /\ code = "SELFPOLL-UNDETERMINED" => ~source \/ unstarted # {}

\* The diagnoses that hang on a source.
Own(source) ==
  CASE source \in {"items", "pending"} -> {"UPSTREAM-CANONICAL-BLIND", "UNDETERMINED-i"}
    [] source = "task" -> {"OS-TASK-COMMON-MODE-DOWN", "UNDETERMINED-j"}
    [] source = "resolved" -> {"ARMED-WRONG-SUBJECT", "UNDETERMINED-k"}
Blinded(s, source) == [s EXCEPT ![source] = Unreadable]

\* "HEALTHY only when nothing fired AND nothing was unreadable."
HealthIsSeen ==
  "HEALTHY" \in DetectAll(signal) <=>
    /\ \A source \in Sources : signal[source] # Unreadable
    /\ signal.machine = "on" /\ (signal.pending = {} => signal.items = {})
    /\ signal.task \in OkStates
    /\ signal.expected # None /\ signal.expected \subseteq signal.resolved
    /\ ~signal.overdue

\* "I could not look" is never "it is fine", and is said of nothing else: losing
\* sight of one source takes its own diagnosis and leaves the others, never makes a
\* report healthy, and is not what explains a late delivery.
BlindnessIsLocal ==
  \A source \in Sources :
    LET told == DetectAll(signal)
        blind == DetectAll(Blinded(signal, source))
    IN  /\ "HEALTHY" \notin blind
        /\ told \ (Own(source) \cup {"HEALTHY"}) \subseteq blind
        /\ blind \ told \subseteq Own(source) \cup {"DELIVERY-TIMEOUT-UNDIAGNOSED"}
        /\ signal.overdue => blind \cap (Conditions \cup {"DELIVERY-TIMEOUT-UNDIAGNOSED"}) # {}

ToldApart == HealthIsSeen /\ BlindnessIsLocal
=============================================================================
