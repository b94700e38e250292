------------------------------- MODULE Watcher -------------------------------
(***************************************************************************)
(* tools/watcher.py.  --watch is a process that reports what changed in    *)
(* the lanes it watches, by the settle rule of Settle.  It keeps two       *)
(* pictures of a lane, the signature that detect_settled() compares and    *)
(* the snapshot that the next report is a difference with; both are told   *)
(* here by the files that have changed since.                              *)
(*                                                                         *)
(* --once is runs that compare a lane with the snapshot in a state file,   *)
(* write the new snapshot there and then print what changed.  A scheduler  *)
(* starts them, and a slow one may still be up when the next begins.  A    *)
(* snapshot is the number of changes the lane has had.                     *)
(***************************************************************************)
EXTENDS Naturals, Settle

CONSTANTS
  Lanes, Files,
  Runs,          \* runs of --once
  MaxChanges     \* model bound: changes of the lane they look at

VARIABLES
  unsigned,      \* unsigned[w]: files changed since the signature of lane w was kept
  untold,        \* untold[w]: files changed since the snapshot that was reported
  dirty,
  pc, settled,   \* its step, and the lanes to report in this tick,
  changes,       \* changes of the lane so far
  state,         \* the state file: "absent", "torn" or "whole"
  saved,         \* the snapshot in it
  oncePc,        \* oncePc[r]: the step of run r
  first,         \* first[r]: did run r find no state file?
  prior, at,     \* the snapshots that run r loaded and took
  told,          \* the changes that were printed, or are of the baseline (history)
  died           \* has a run died? (history)

loopVars == <<unsigned, untold, dirty, pc, settled>>
file == <<state, saved>>
onceVars == <<changes, file, oncePc, first, prior, at, told, died>>
vars == <<loopVars, onceVars>>

-----------------------------------------------------------------------------
(* --watch.                                                                *)

Nothing == [w \in Lanes |-> {}]

LoopInit ==
  /\ unsigned = Nothing /\ untold = Nothing
  /\ dirty = {} /\ pc = "off" /\ settled = {}

\* Somebody adds, rewrites or removes a file.
Change(w, f) ==
  /\ pc # "off"
  /\ unsigned' = [unsigned EXCEPT ![w] = @ \cup {f}]
  /\ untold' = [untold EXCEPT ![w] = @ \cup {f}]
  /\ UNCHANGED <<dirty, pc, settled>>

\* watch() keeps the signatures of all lanes, and then takes the snapshots.
\* Mutant: the other way round.
SignLast == unsigned' = Nothing /\ untold' = untold
Look == untold' = Nothing /\ unsigned' = unsigned
Sign ==
  /\ pc = "off" /\ pc' = "signed"
  /\ UNCHANGED <<unsigned, untold, dirty, settled>>
Snapshot ==
  /\ pc = "signed" /\ pc' = "asleep"
  /\ Look
  /\ UNCHANGED <<dirty, settled>>

Moved == {w \in Lanes : unsigned[w] # {}}
Tick ==
  /\ pc = "asleep" /\ pc' = "reporting"
  /\ unsigned' = Nothing
  /\ dirty' = DirtyAfter(Moved, dirty)
  /\ settled' = ToSweep(Lanes, SettledNow(Moved, dirty), dirty', FALSE)
  /\ UNCHANGED untold

\* report_settled(): the lines of a lane are its difference with the snapshot,
\* and there is a new snapshot.
Report(w) ==
  /\ pc = "reporting" /\ w \in settled
  /\ settled' = settled \ {w}
  /\ untold' = [untold EXCEPT ![w] = {}]
  /\ UNCHANGED <<unsigned, dirty, pc>>

\* The lines are printed and --on-change has run, which takes any time.
Sleep ==
  /\ pc = "reporting" /\ settled = {}
  /\ pc' = "asleep"
  /\ UNCHANGED <<unsigned, untold, dirty, settled>>

Turn == Sign \/ Snapshot \/ Tick \/ Sleep
          \/ (\E w \in Lanes : Report(w))
LoopNext == Turn \/ \E w \in Lanes, f \in Files : Change(w, f)

-----------------------------------------------------------------------------
(* --once.                                                                 *)

OnceInit ==
  /\ changes = 0 /\ state = "absent" /\ saved = 0
  /\ oncePc = [r \in Runs |-> "idle"]
  /\ first = [r \in Runs |-> FALSE]
  /\ prior = [r \in Runs |-> 0] /\ at = [r \in Runs |-> 0]
  /\ told = {} /\ died = FALSE

Move ==
  /\ changes < MaxChanges /\ changes' = changes + 1
  /\ UNCHANGED <<file, oncePc, first, prior, at, told, died>>

\* load_state(); a torn file does not parse, and the run ends there.
Load(r) ==
  /\ oncePc[r] = "idle" /\ state # "torn"
  /\ first' = [first EXCEPT ![r] = (state = "absent")]
  /\ prior' = [prior EXCEPT ![r] = saved]
  /\ oncePc' = [oncePc EXCEPT ![r] = "looking"]
  /\ UNCHANGED <<changes, file, at, told, died>>

Compare(r) ==
  /\ oncePc[r] = "looking"
  /\ at' = [at EXCEPT ![r] = changes]
  /\ oncePc' = [oncePc EXCEPT ![r] = "saving"]
  /\ UNCHANGED <<changes, file, first, prior, told, died>>

\* save_state(): write_text() truncates, then writes.
Truncate(r) ==
  /\ oncePc[r] = "saving" /\ oncePc' = [oncePc EXCEPT ![r] = "writing"]
  /\ state' = "torn"
  /\ UNCHANGED <<changes, saved, first, prior, at, told, died>>
\* Mutant: saves what the lane is by then.
Latest(r) == changes
Compared(r) == at[r]
Save(r) ==
  /\ oncePc[r] = "writing" /\ oncePc' = [oncePc EXCEPT ![r] = "telling"]
  /\ state' = "whole" /\ saved' = Compared(r)
  /\ UNCHANGED <<changes, first, prior, at, told, died>>

\* The lines are printed; a first run prints none.
News(r) == {n \in 1 .. at[r] : first[r] \/ n > prior[r]}
Finish(r) == /\ oncePc' = [oncePc EXCEPT ![r] = "idle"]
             /\ first' = [first EXCEPT ![r] = FALSE]
             /\ prior' = [prior EXCEPT ![r] = 0] /\ at' = [at EXCEPT ![r] = 0]
Tell(r) ==
  /\ oncePc[r] = "telling" /\ Finish(r)
  /\ told' = told \cup News(r)
  /\ UNCHANGED <<changes, file, died>>

Die(r) ==
  /\ oncePc[r] # "idle" /\ Finish(r)
  /\ died' = TRUE
  /\ UNCHANGED <<changes, file, told>>

OnceNext ==
  \/ Move
  \/ \E r \in Runs : Load(r) \/ Compare(r) \/ Truncate(r) \/ Save(r) \/ Tell(r) \/ Die(r)

Init == LoopInit /\ OnceInit
Next == (LoopNext /\ UNCHANGED onceVars) \/ (OnceNext /\ UNCHANGED loopVars)
Spec == Init /\ [][Next]_vars

-----------------------------------------------------------------------------
(* Properties.                                                             *)

LoopOK ==
  /\ unsigned \in [Lanes -> SUBSET Files] /\ untold \in [Lanes -> SUBSET Files]
  /\ dirty \subseteq Lanes /\ settled \subseteq Lanes
  /\ pc \in {"off", "signed", "asleep", "reporting"}

\* No change falls between the two pictures: what has not been reported yet is
\* in a lane that is about to be reported, is waiting for a still tick, or
\* will be seen to have moved, also when the change came between the two looks
\* at start or while other lanes were being reported.
NothingForgotten ==
  pc \in {"asleep", "reporting"} =>
    \A w \in Lanes : untold[w] # {} => unsigned[w] # {} \/ w \in dirty \cup settled

\* "One dirty lane never suppresses a sibling lane's settled report": a lane
\* that stops changing is reported, however the others go on.
Quiet(w) == [][untold'[w] \subseteq untold[w] /\ unsigned'[w] \subseteq unsigned[w]]_loopVars
QuietLaneIsTold ==
  \A w \in Lanes : <>Quiet(w) => <>[](untold[w] = {})

OnceOK ==
  /\ changes \in 0 .. MaxChanges /\ saved \in 0 .. MaxChanges
  /\ state \in {"absent", "torn", "whole"}
  /\ oncePc \in [Runs -> {"idle", "looking", "saving", "writing", "telling"}]
  /\ first \in [Runs -> BOOLEAN]
  /\ prior \in [Runs -> 0 .. MaxChanges] /\ at \in [Runs -> 0 .. MaxChanges]
  /\ told \subseteq 1 .. MaxChanges /\ died \in BOOLEAN

\* Nothing goes by in silence: however runs overlap, as long as none dies every
\* change that the state file takes as seen was printed, is about to be, or
\* came before a first run looked.
SavedIsTold ==
  ~died /\ state = "whole" =>
    \A n \in 1 .. saved : n \in told \/ \E r \in Runs : oncePc[r] = "telling" /\ n \in News(r)

TypeOK == LoopOK /\ OnceOK
=============================================================================
