------------------------------- MODULE MCPoll -------------------------------
(***************************************************************************)
(* TLC instances of the reviewer poller and of the watcher.  They share    *)
(* the settle rule and no state, so a behaviour runs one of them: `focus`. *)
(***************************************************************************)
EXTENDS ReviewPoll, TLC

CONSTANTS Files, Runs, MaxChanges
ASSUME ChangesAssumption == MaxChanges \in Nat

VARIABLES
  focus,
  unsigned, untold, restless, lanePc, settled,
  changes, state, saved, oncePc, first, prior, at, told, died

Watch == INSTANCE Watcher WITH Lanes <- Workspaces, dirty <- restless, pc <- lanePc

laneOnly == <<unsigned, untold, restless, lanePc, settled>>
onceOnly == <<changes, state, saved, oncePc, first, prior, at, told, died>>
all == <<focus, vars, laneOnly, onceOnly>>

TwoClones == {<<1, 1>>, <<1, 2>>, <<2, 1>>}

PollInit == /\ focus \in {"review", "lane", "once"}
            /\ Init /\ Watch!Init

Reviews(A) == focus = "review" /\ A /\ UNCHANGED <<focus, laneOnly, onceOnly>>
Watches(A) == focus = "lane" /\ A /\ UNCHANGED <<focus, vars, onceOnly>>
RunsOnce(A) == focus = "once" /\ A /\ UNCHANGED <<focus, vars, laneOnly>>

PollNext == Reviews(Next) \/ Watches(Watch!LoopNext) \/ RunsOnce(Watch!OnceNext)

PollSpec == PollInit /\ [][PollNext]_all
FairPollSpec == /\ PollSpec
                /\ WF_all(Reviews(Turn)) /\ SF_all(Reviews(Answer))
                /\ \A q \in Requests : WF_all(Reviews(Finish(q)))
                /\ WF_all(Watches(Watch!Turn))

\* Each part is stated, and explained, in the module of its component; SweptIsWhole
\* and WholeIsReviewed are ReviewPoll's.
TypesOK == TypeOK /\ Watch!TypeOK
QuietLaneIsTold == Watch!QuietLaneIsTold

\* The watcher loses no change: its loop still has before it what it has not told, and
\* what a --once run saved as seen is told, unless a run died; and every variable of
\* the poller and the watcher has its type.
NewsIsKept == TypesOK /\ Watch!NothingForgotten /\ Watch!SavedIsTold
=============================================================================
