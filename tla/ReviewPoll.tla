----------------------------- MODULE ReviewPoll -----------------------------
(***************************************************************************)
(* tools/reviewer_poller.py --watch: the process that carries review       *)
(* requests from the channels of its clones to the reviewer command and    *)
(* commits and pushes the verdicts.                                        *)
(*                                                                         *)
(* A request reaches a channel in two ways: a producer writes it there,    *)
(* piece after piece, or a pull brings it whole.  Producers do not pause:  *)
(* a file still being written changes at least once between two looks of   *)
(* the poller, which is what its settle rule asks of them.  --once is a    *)
(* start and one sweep; --loop is that over and over.                      *)
(***************************************************************************)
EXTENDS Naturals, FiniteSets, Settle

CONSTANTS
  Workspaces,
  Requests,      \* pairs of a workspace and a round
  NoRequest,
  Interval,      \* --interval, in ticks of --watch-interval
  Faults         \* subset of {"pull", "codex", "git"}: what may fail

ASSUME IntervalAssumption == Interval \in Nat \ {0}
ASSUME RequestsAssumption == Requests \subseteq Workspaces \X Nat
ASSUME NoRequestAssumption == NoRequest \notin Requests

Of(W) == {q \in Requests : q[1] \in W}

VARIABLES
  request,       \* request[q]: "absent", "remote" (committed elsewhere, not pulled),
                 \* or in the channel: "part", "whole"
  verdict,       \* verdict[q]: "none", a "file", "staged", "committed", "pushed"
  touched,       \* requests whose files changed since the signature was kept
  dirty,
  age,           \* ticks since the last fallback
  pc, todo, queue, cur,   \* the sweep: workspaces and requests left, and the one in hand
  swept,         \* the workspaces of this sweep
  begun          \* requests in their channels when this sweep was planned (history)

vars == <<request, verdict, touched, dirty, age, pc, todo, queue, cur, swept, begun>>
channel == <<request, verdict>>
signs == <<touched, dirty, age>>
sweep == <<todo, queue, swept, begun>>

InChannel(q) == request[q] \in {"part", "whole"}
Idle == /\ todo = {} /\ queue = {} /\ cur = NoRequest /\ swept = {} /\ begun = {}

Init == /\ request = [q \in Requests |-> "absent"]
        /\ verdict = [q \in Requests |-> "none"]
        /\ touched = {} /\ dirty = {} /\ age = 0
        /\ pc = "down" /\ Idle

-----------------------------------------------------------------------------
(* Producers.                                                              *)

Write(q, from, to) ==
  /\ request[q] = from /\ request' = [request EXCEPT ![q] = to]
  /\ touched' = touched \cup {q}
  /\ UNCHANGED <<verdict, dirty, age, pc, cur, sweep>>

Begin(q) == Write(q, "absent", "part")
More(q) == q \notin touched /\ Write(q, "part", "part")
Finish(q) == Write(q, "part", "whole")
Announce(q) ==
  /\ request[q] = "absent" /\ request' = [request EXCEPT ![q] = "remote"]
  /\ UNCHANGED <<verdict, signs, pc, cur, sweep>>

-----------------------------------------------------------------------------
(* The poller.                                                             *)

\* watch() begins with a sweep of everything; there is no signature yet.
Start ==
  /\ pc = "down" /\ pc' = "sweeping"
  /\ todo' = Workspaces /\ swept' = Workspaces
  /\ UNCHANGED <<channel, signs, queue, cur, begun>>

\* One tick: detect_settled(), then plan_sweep().  A sweep takes any time, so
\* the fallback may be due before Interval ticks.
Moved == {w \in Workspaces : \E q \in touched : q[1] = w}
NoPause == \A q \in Requests : request[q] = "part" => q \in touched

\* The age after a tick.
\* Mutant: the timer never restarts.
NeverRestarted(due) == age + 1
Aged(due) == IF due THEN 0 ELSE age + 1
Due(due) == due \in BOOLEAN /\ (age + 1 >= Interval => due)

Tick(due) ==
  /\ pc = "sleeping" /\ NoPause
  /\ age' = Aged(due)
  /\ dirty' = DirtyAfter(Moved, dirty)
  /\ touched' = {}
  /\ todo' = ToSweep(Workspaces, SettledNow(Moved, dirty), dirty', due)
  /\ swept' = todo'
  /\ begun' = {q \in Of(todo') : InChannel(q)}
  /\ pc' = IF todo' = {} THEN "sleeping" ELSE "sweeping"
  /\ UNCHANGED <<channel, queue, cur>>

\* cycle(): fetch and pull, whose failure is ignored, then pending_requests().
\* git refuses to pull over an index with uncommitted changes.
Pullable(w) == \A q \in Of({w}) : verdict[q] # "staged"
Arrived(w) == {q \in Of({w}) : request[q] = "remote"}
Pending(w) == {q \in Of({w}) : request'[q] \in {"part", "whole"} /\ verdict[q] = "none"}

Visit(w, pulled) ==
  /\ pc = "sweeping" /\ queue = {} /\ w \in todo
  /\ pulled => Pullable(w)
  /\ ~pulled => ~Pullable(w) \/ "pull" \in Faults
  /\ todo' = todo \ {w}
  /\ IF pulled
       THEN /\ request' = [q \in Requests |-> IF q \in Arrived(w) THEN "whole" ELSE request[q]]
            /\ touched' = touched \cup Arrived(w)
       ELSE UNCHANGED <<request, touched>>
  /\ queue' = Pending(w)
  /\ UNCHANGED <<verdict, dirty, age, pc, cur, swept, begun>>

\* review_one(): read_text(), then the reviewer command.
Read(q) ==
  /\ pc = "sweeping" /\ q \in queue
  /\ queue' = queue \ {q} /\ cur' = q /\ pc' = "asking"
  /\ UNCHANGED <<channel, signs, todo, swept, begun>>

\* Not on the PATH, not launched, a return code, or empty output.
NoAnswer ==
  /\ pc = "asking" /\ "codex" \in Faults
  /\ cur' = NoRequest /\ pc' = "sweeping"
  /\ UNCHANGED <<channel, signs, sweep>>

Answer ==
  /\ pc = "asking" /\ pc' = "adding"
  /\ verdict' = [verdict EXCEPT ![cur] = "file"]
  /\ touched' = touched \cup {cur}
  /\ UNCHANGED <<request, dirty, age, cur, sweep>>

\* git add takes the one file; git commit all that is staged in the clone, and
\* git push all that is committed.
Promoted(from, to) ==
  [q \in Requests |-> IF q[1] = cur[1] /\ verdict[q] = from THEN to ELSE verdict[q]]
Add ==
  /\ pc = "adding" /\ pc' = "committing"
  /\ verdict' = [verdict EXCEPT ![cur] = "staged"]
  /\ UNCHANGED <<request, signs, cur, sweep>>
Commit ==
  /\ pc = "committing" /\ pc' = "pushing"
  /\ verdict' = Promoted("staged", "committed")
  /\ UNCHANGED <<request, signs, cur, sweep>>
Push ==
  /\ pc = "pushing" /\ pc' = "sweeping"
  /\ verdict' = Promoted("committed", "pushed")
  /\ cur' = NoRequest
  /\ UNCHANGED <<request, signs, sweep>>

\* The swept channels are signed again: what was written in them meanwhile is
\* taken as seen.
Resigned == touched \ Of(swept)
EndSweep ==
  /\ pc = "sweeping" /\ todo = {} /\ queue = {}
  /\ pc' = "sleeping"
  /\ touched' = Resigned
  /\ dirty' = dirty \ swept
  /\ swept' = {} /\ begun' = {}
  /\ UNCHANGED <<channel, age, todo, queue, cur>>

\* A git command that fails raises through watch(), and main() does not catch
\* it; a poller that is killed with a verdict in hand leaves the same behind.
Die == /\ pc' = "down"
       /\ touched' = {} /\ dirty' = {} /\ age' = 0
       /\ todo' = {} /\ queue' = {} /\ cur' = NoRequest /\ swept' = {} /\ begun' = {}
       /\ UNCHANGED channel
Raise == "git" \in Faults /\ pc \in {"adding", "committing", "pushing"} /\ Die

Turn == Start \/ (\E due \in BOOLEAN : Due(due) /\ Tick(due))
          \/ (\E w \in Workspaces, pulled \in BOOLEAN : Visit(w, pulled))
          \/ (\E q \in Requests : Read(q)) \/ Add \/ Commit \/ Push \/ EndSweep
Produce == \E q \in Requests : Begin(q) \/ More(q) \/ Finish(q) \/ Announce(q)
Next == Turn \/ Answer \/ NoAnswer \/ Raise \/ Produce

Spec == Init /\ [][Next]_vars

\* A poller that runs takes its next step and, once down, is started again by
\* its scheduler; a producer ends its file; a reviewer that is asked again and
\* again answers in the end.
FairSpec == /\ Spec /\ WF_vars(Turn) /\ SF_vars(Answer)
            /\ \A q \in Requests : WF_vars(Finish(q))

-----------------------------------------------------------------------------
(* Properties.                                                             *)

TypeOK ==
  /\ request \in [Requests -> {"absent", "remote", "part", "whole"}]
  /\ verdict \in [Requests -> {"none", "file", "staged", "committed", "pushed"}]
  /\ touched \subseteq Requests /\ dirty \subseteq Workspaces /\ age \in 0 .. Interval - 1
  /\ pc \in {"down", "sleeping", "sweeping", "asking", "adding", "committing", "pushing"}
  /\ todo \subseteq Workspaces /\ queue \subseteq Requests
  /\ cur \in Requests \cup {NoRequest}
  /\ swept \subseteq Workspaces /\ begun \subseteq Requests
  /\ pc \in {"down", "sleeping", "sweeping"} <=> cur = NoRequest

\* The settle rule, on the tick and on the timer path: a request whose file had
\* been begun when a sweep was planned is whole when the sweep lists and reads
\* it, whatever was written, pulled, failed or restarted before.
SweptIsWhole == \A q \in queue \cup {cur} : q \in begun => request[q] = "whole"

\* Every request written to a channel is reviewed in the end, also when git
\* fails, when pulls fail, and when it was written during a sweep and only the
\* timer can find it.
WholeIsReviewed ==
  \A q \in Requests : request[q] = "whole" ~> verdict[q] # "none"

\* "Either way a mid-write channel is never swept -- that is the
\* never-read-half-formed guarantee": no request is read before it is whole.
\* (Sweeps of everything are left out, and with them the one that watch() begins
\* with, before it has any signature.)
NeverReadHalf ==
  [][\A q \in Requests : Read(q) /\ swept # Workspaces => request[q] = "whole"]_vars

\* The poller "carries requests to local Codex and pushes verdicts back".
VerdictIsPushed ==
  \A q \in Requests : verdict[q] # "none" ~> verdict[q] = "pushed"
=============================================================================
