----------------------------- MODULE Poll_proofs -----------------------------
(***************************************************************************)
(* What the reviewer poller and the watcher keep, for any clones, lanes,   *)
(* requests, files, runs, interval and faults.  The settle rule keeps      *)
(* half-written requests out of a planned sweep; the watcher's loop has    *)
(* every change before it that it has not told; and what a --once run      *)
(* takes as seen was told by the run that saved it, or is about to be.     *)
(***************************************************************************)
EXTENDS MCPoll, TLAPS

-----------------------------------------------------------------------------
(* The reviewer poller.                                                    *)

\* What a sweep was planned with stays whole: the strengthening that SweptIsWhole
\* needs, since the requests listed and read are fewer than those begun.
BegunIsWhole == \A q \in begun : request[q] = "whole"

ReviewInv == TypeOK /\ BegunIsWhole

USE IntervalAssumption, RequestsAssumption, NoRequestAssumption

\* A request is in a workspace.
LEMMA RequestShape == \A q \in Requests : q[1] \in Workspaces
OBVIOUS

\* plan_sweep() picks no directory whose signature moved at this tick, whether
\* the timer is due or not.
LEMMA NeverSweepsMoving ==
  ASSUME NEW due \in BOOLEAN, dirty \subseteq Workspaces
  PROVE  LET marks == DirtyAfter(Moved, dirty)
             plan == ToSweep(Workspaces, SettledNow(Moved, dirty), marks, due)
         IN  /\ plan \subseteq Workspaces
             /\ marks \subseteq Workspaces
             /\ plan \cap Moved = {}
<1>1. Moved \subseteq Workspaces
  BY DEF Moved
<1>2. DirtyAfter(Moved, dirty) = Moved
  BY <1>1 DEF DirtyAfter, SettledNow
<1> QED
  BY <1>1, <1>2 DEF ToSweep, SettledNow

\* Every step keeps the types.
LEMMA TypeStep == TypeOK /\ [Next]_vars => TypeOK'
<1> SUFFICES ASSUME TypeOK, [Next]_vars PROVE TypeOK'
  OBVIOUS
<1> USE DEF TypeOK, channel, signs, sweep
<1>1. ASSUME NEW q \in Requests, Begin(q) \/ More(q) \/ Finish(q) \/ Announce(q)
      PROVE  TypeOK'
  BY <1>1 DEF Begin, More, Finish, Announce, Write
<1>2. CASE Start
  BY <1>2 DEF Start
<1>3. ASSUME NEW due \in BOOLEAN, Due(due), Tick(due) PROVE TypeOK'
  <2>1. age' \in 0 .. Interval - 1
    BY <1>3 DEF Tick, Due, Aged
  <2>2. todo' \subseteq Workspaces /\ dirty' \subseteq Workspaces
    BY <1>3, NeverSweepsMoving DEF Tick
  <2>3. begun' \subseteq Requests
    BY <1>3 DEF Tick, Of
  <2> QED
    BY <1>3, <2>1, <2>2, <2>3 DEF Tick
<1>4. ASSUME NEW w \in Workspaces, NEW pulled \in BOOLEAN, Visit(w, pulled) PROVE TypeOK'
  <2>1. request' \in [Requests -> {"absent", "remote", "part", "whole"}]
    BY <1>4 DEF Visit
  <2>2. touched' \subseteq Requests /\ queue' \subseteq Requests
    BY <1>4 DEF Visit, Arrived, Pending, Of
  <2> QED
    BY <1>4, <2>1, <2>2 DEF Visit
<1>5. ASSUME NEW q \in Requests, Read(q) PROVE TypeOK'
  BY <1>5, RequestShape DEF Read
<1>6. CASE Answer
  BY <1>6 DEF Answer
<1>7. CASE NoAnswer
  BY <1>7 DEF NoAnswer
<1>8. CASE Add
  BY <1>8 DEF Add
<1>9. CASE Commit
  BY <1>9 DEF Commit, Promoted
<1>10. CASE Push
  BY <1>10 DEF Push, Promoted
<1>11. CASE EndSweep
  BY <1>11 DEF EndSweep, Resigned
<1>12. CASE Raise
  BY <1>12 DEF Raise, Die
<1>13. CASE UNCHANGED vars
  BY <1>13 DEF vars
<1> QED
  BY <1>1, <1>2, <1>3, <1>4, <1>5, <1>6, <1>7, <1>8, <1>9, <1>10, <1>11, <1>12, <1>13
  DEF Next, Turn, Produce

\* A planned sweep holds no request that is still being written, and a request
\* once whole stays so.
LEMMA BegunStep == TypeOK /\ BegunIsWhole /\ [Next]_vars => BegunIsWhole'
<1> SUFFICES ASSUME TypeOK, BegunIsWhole, [Next]_vars, NEW q \in begun'
             PROVE  request'[q] = "whole"
  BY DEF BegunIsWhole
<1> USE DEF TypeOK, channel, signs, sweep
<1>1. ASSUME NEW p \in Requests, Begin(p) \/ More(p) \/ Finish(p) \/ Announce(p)
      PROVE  request'[q] = "whole"
  BY <1>1 DEF Begin, More, Finish, Announce, Write, BegunIsWhole
<1>2. ASSUME NEW due \in BOOLEAN, Due(due), Tick(due) PROVE request'[q] = "whole"
  <2>1. q \in Requests /\ q[1] \in todo' /\ InChannel(q)
    BY <1>2 DEF Tick, Of
  <2>2. q[1] \notin Moved
    BY <1>2, <2>1, NeverSweepsMoving DEF Tick
  <2>3. q \notin touched
    BY <2>1, <2>2, RequestShape DEF Moved
  <2>4. request[q] # "part"
    BY <1>2, <2>1, <2>3 DEF Tick, NoPause
  <2> QED
    BY <1>2, <2>1, <2>4 DEF Tick, InChannel
<1>3. ASSUME NEW w \in Workspaces, NEW pulled \in BOOLEAN, Visit(w, pulled)
      PROVE  request'[q] = "whole"
  BY <1>3 DEF Visit, BegunIsWhole
<1>4. CASE UNCHANGED <<request, begun>>
  BY <1>4 DEF BegunIsWhole
<1>5. CASE EndSweep \/ Raise
  BY <1>5 DEF EndSweep, Raise, Die
<1> QED
  BY <1>1, <1>2, <1>3, <1>4, <1>5
  DEF Next, Turn, Produce, Start, Read, Answer, NoAnswer, Add, Commit, Push, vars

LEMMA ReviewInit == Init => ReviewInv
BY DEF Init, Idle, ReviewInv, TypeOK, BegunIsWhole

LEMMA ReviewStep == ReviewInv /\ [Next]_vars => ReviewInv'
BY TypeStep, BegunStep DEF ReviewInv

-----------------------------------------------------------------------------
(* The loop of the watcher.  Only while it reports are there lanes to      *)
(* report.                                                                 *)

LaneInv == /\ Watch!LoopOK /\ Watch!NothingForgotten
           /\ lanePc # "reporting" => settled = {}

LEMMA LaneInit == Watch!LoopInit => LaneInv
BY DEF Watch!LoopInit, Watch!Nothing, LaneInv, Watch!LoopOK, Watch!NothingForgotten

LEMMA LaneStep == LaneInv /\ [Watch!LoopNext]_laneOnly => LaneInv'
<1> SUFFICES ASSUME LaneInv, [Watch!LoopNext]_laneOnly PROVE LaneInv'
  OBVIOUS
<1> USE DEF LaneInv, Watch!LoopOK, Watch!NothingForgotten
<1>1. ASSUME NEW w \in Workspaces, NEW f \in Files, Watch!Change(w, f) PROVE LaneInv'
  BY <1>1 DEF Watch!Change
<1>2. CASE Watch!Sign
  BY <1>2 DEF Watch!Sign
<1>3. CASE Watch!Snapshot
  BY <1>3 DEF Watch!Snapshot, Watch!Look, Watch!Nothing
<1>4. CASE Watch!Tick
  <2>1. /\ unsigned' = [w \in Workspaces |-> {}] /\ untold' = untold
        /\ lanePc = "asleep" /\ lanePc' = "reporting"
        /\ restless' = Watch!DirtyAfter(Watch!Moved, restless)
        /\ settled' = Watch!SettledNow(Watch!Moved, restless)
    BY <1>4 DEF Watch!Tick, Watch!Nothing, Watch!ToSweep
  <2>2. \A w \in Workspaces : w \in Watch!Moved <=> unsigned[w] # {}
    BY DEF Watch!Moved
  <2>3. restless' \subseteq Workspaces /\ settled' \subseteq Workspaces
    BY <2>1 DEF Watch!DirtyAfter, Watch!SettledNow, Watch!Moved
  <2>4. ASSUME NEW w \in Workspaces, untold[w] # {} PROVE w \in restless' \cup settled'
    BY <2>1, <2>2, <2>4 DEF Watch!DirtyAfter, Watch!SettledNow
  <2> QED BY <2>1, <2>3, <2>4
<1>5. ASSUME NEW w \in Workspaces, Watch!Report(w) PROVE LaneInv'
  BY <1>5 DEF Watch!Report
<1>6. CASE Watch!Sleep
  BY <1>6 DEF Watch!Sleep
<1>7. CASE UNCHANGED laneOnly
  BY <1>7 DEF laneOnly
<1> QED BY <1>1, <1>2, <1>3, <1>4, <1>5, <1>6, <1>7 DEF Watch!LoopNext, Watch!Turn

-----------------------------------------------------------------------------
(* The runs of --once.  A run that has loaded a snapshot relies on those   *)
(* that told what is in it: before its own save the state file says        *)
(* nothing of that.                                                        *)

\* The change n was told, or is about to be.
Told(n) == n \in told \/ \E r \in Runs : oncePc[r] = "telling" /\ n \in Watch!News(r)
OnceInv ==
  /\ Watch!OnceOK
  /\ state = "absent" => saved = 0
  /\ ~died => /\ state = "whole" => \A n \in 1 .. saved : Told(n)
              /\ \A r \in Runs : oncePc[r] # "idle" => \A n \in 1 .. prior[r] : Told(n)

LEMMA OnceInit == Watch!OnceInit => OnceInv
<1> SUFFICES ASSUME Watch!OnceInit PROVE OnceInv
  OBVIOUS
<1> USE DEF Watch!OnceInit
<1>1. 0 \in 0 .. MaxChanges
  BY ChangesAssumption
<1>2. Watch!OnceOK
  BY <1>1 DEF Watch!OnceOK
<1>3. \A r \in Runs : oncePc[r] = "idle"
  OBVIOUS
<1>4. state = "absent" /\ saved = 0
  OBVIOUS
<1> QED BY <1>2, <1>3, <1>4 DEF OnceInv

LEMMA OnceTypes ==
  ASSUME OnceInv, [Watch!OnceNext]_onceOnly
  PROVE  Watch!OnceOK' /\ (state' = "absent" => saved' = 0)
<1> USE ChangesAssumption DEF OnceInv, Watch!OnceOK, Watch!file
<1>1. CASE Watch!Move
  BY <1>1 DEF Watch!Move
<1>2. ASSUME NEW r \in Runs, Watch!Load(r) PROVE Watch!OnceOK' /\ (state' = "absent" => saved' = 0)
  BY <1>2 DEF Watch!Load
<1>3. ASSUME NEW r \in Runs, Watch!Compare(r) PROVE Watch!OnceOK' /\ (state' = "absent" => saved' = 0)
  BY <1>3 DEF Watch!Compare
<1>4. ASSUME NEW r \in Runs, Watch!Truncate(r) PROVE Watch!OnceOK' /\ (state' = "absent" => saved' = 0)
  BY <1>4 DEF Watch!Truncate
<1>5. ASSUME NEW r \in Runs, Watch!Save(r) PROVE Watch!OnceOK' /\ (state' = "absent" => saved' = 0)
  BY <1>5 DEF Watch!Save, Watch!Compared
<1>6. ASSUME NEW r \in Runs, Watch!Tell(r) PROVE Watch!OnceOK' /\ (state' = "absent" => saved' = 0)
  <2>1. Watch!News(r) \subseteq 1 .. MaxChanges
    BY DEF Watch!News
  <2>2. told' \subseteq 1 .. MaxChanges /\ UNCHANGED <<changes, state, saved, died>>
    BY <1>6, <2>1 DEF Watch!Tell
  <2>3. 0 \in 0 .. MaxChanges
    OBVIOUS
  <2>4. /\ oncePc' \in [Runs -> {"idle", "looking", "saving", "writing", "telling"}]
        /\ first' \in [Runs -> BOOLEAN]
        /\ prior' \in [Runs -> 0 .. MaxChanges] /\ at' \in [Runs -> 0 .. MaxChanges]
    BY <1>6, <2>3 DEF Watch!Tell, Watch!Finish
  <2> QED BY <2>2, <2>4
<1>7. ASSUME NEW r \in Runs, Watch!Die(r) PROVE Watch!OnceOK' /\ (state' = "absent" => saved' = 0)
  BY <1>7 DEF Watch!Die, Watch!Finish
<1>8. CASE UNCHANGED onceOnly
  BY <1>8 DEF onceOnly
<1> QED BY <1>1, <1>2, <1>3, <1>4, <1>5, <1>6, <1>7, <1>8 DEF Watch!OnceNext

\* What was told stays told as long as no run dies.
LEMMA ToldStays ==
  ASSUME OnceInv, [Watch!OnceNext]_onceOnly, ~died', NEW n, Told(n)
  PROVE  Told(n)'
<1> USE DEF OnceInv, Watch!OnceOK, Watch!file, Told, Watch!News
<1>1. CASE Watch!Move
  BY <1>1 DEF Watch!Move
<1>2. ASSUME NEW r \in Runs, Watch!Load(r) PROVE Told(n)'
  BY <1>2 DEF Watch!Load
<1>3. ASSUME NEW r \in Runs, Watch!Compare(r) PROVE Told(n)'
  BY <1>3 DEF Watch!Compare
<1>4. ASSUME NEW r \in Runs, Watch!Truncate(r) PROVE Told(n)'
  BY <1>4 DEF Watch!Truncate
<1>5. ASSUME NEW r \in Runs, Watch!Save(r) PROVE Told(n)'
  BY <1>5 DEF Watch!Save
<1>6. ASSUME NEW r \in Runs, Watch!Tell(r) PROVE Told(n)'
  BY <1>6 DEF Watch!Tell, Watch!Finish
<1>7. ASSUME NEW r \in Runs, Watch!Die(r) PROVE Told(n)'
  BY <1>7 DEF Watch!Die
<1>8. CASE UNCHANGED onceOnly
  BY <1>8 DEF onceOnly
<1> QED BY <1>1, <1>2, <1>3, <1>4, <1>5, <1>6, <1>7, <1>8 DEF Watch!OnceNext

LEMMA OnceStep == OnceInv /\ [Watch!OnceNext]_onceOnly => OnceInv'
<1> SUFFICES ASSUME OnceInv, [Watch!OnceNext]_onceOnly PROVE OnceInv'
  OBVIOUS
<1>1. Watch!OnceOK' /\ (state' = "absent" => saved' = 0)
  BY OnceTypes
<1>2. ASSUME ~died'
      PROVE  /\ state' = "whole" => \A n \in 1 .. saved' : Told(n)'
             /\ \A r \in Runs : oncePc'[r] # "idle" => \A n \in 1 .. prior'[r] : Told(n)'
  <2>1. ~died
    BY <1>2 DEF Watch!OnceNext, Watch!Move, Watch!Load, Watch!Compare, Watch!Truncate, Watch!Save, Watch!Tell, Watch!Die, onceOnly
  <2>2. /\ state = "whole" => \A n \in 1 .. saved : Told(n)'
        /\ \A r \in Runs : oncePc[r] # "idle" => \A n \in 1 .. prior[r] : Told(n)'
    BY <1>2, <2>1, ToldStays DEF OnceInv
  <2>3. CASE /\ UNCHANGED <<state, saved>>
             /\ \A r \in Runs : /\ prior'[r] = prior[r] \/ prior'[r] = 0
                                /\ oncePc'[r] = "idle" \/ oncePc[r] # "idle"
    BY <2>2, <2>3 DEF OnceInv, Watch!OnceOK
  <2>4. ASSUME NEW r \in Runs, Watch!Load(r)
        PROVE  /\ state' = "whole" => \A n \in 1 .. saved' : Told(n)'
               /\ \A q \in Runs : oncePc'[q] # "idle" => \A n \in 1 .. prior'[q] : Told(n)'
    <3>1. \A q \in Runs : q # r => prior'[q] = prior[q] /\ oncePc'[q] = oncePc[q]
      BY <2>4 DEF Watch!Load, OnceInv, Watch!OnceOK
    <3>2. prior'[r] = saved /\ UNCHANGED <<state, saved>> /\ state \in {"absent", "whole"}
      BY <2>4 DEF Watch!Load, Watch!file, OnceInv, Watch!OnceOK
    <3>3. state = "absent" => 1 .. saved = {}
      BY DEF OnceInv
    <3> QED BY <2>2, <3>1, <3>2, <3>3
  <2>5. ASSUME NEW r \in Runs, Watch!Truncate(r)
        PROVE  /\ state' = "whole" => \A n \in 1 .. saved' : Told(n)'
               /\ \A q \in Runs : oncePc'[q] # "idle" => \A n \in 1 .. prior'[q] : Told(n)'
    BY <2>2, <2>5 DEF Watch!Truncate, OnceInv, Watch!OnceOK
  <2>6. ASSUME NEW r \in Runs, Watch!Save(r)
        PROVE  /\ state' = "whole" => \A n \in 1 .. saved' : Told(n)'
               /\ \A q \in Runs : oncePc'[q] # "idle" => \A n \in 1 .. prior'[q] : Told(n)'
    <3>1. /\ saved' = at[r] /\ prior' = prior /\ at' = at /\ first' = first
          /\ oncePc[r] = "writing" /\ oncePc'[r] = "telling"
          /\ \A q \in Runs : q # r => oncePc'[q] = oncePc[q]
          /\ at[r] \in Nat /\ prior[r] \in Nat
      BY <2>6 DEF Watch!Save, Watch!Compared, OnceInv, Watch!OnceOK
    <3>2. ASSUME NEW n \in 1 .. at[r] PROVE Told(n)'
      <4>1. CASE n > prior[r]
        BY <3>1, <4>1 DEF Told, Watch!News
      <4>2. CASE n \in 1 .. prior[r]
        BY <2>2, <3>1, <4>2
      <4> QED BY <3>1, <4>1, <4>2
    <3> QED BY <2>2, <3>1, <3>2
  <2>7. ASSUME NEW r \in Runs, Watch!Compare(r) \/ Watch!Tell(r) \/ Watch!Die(r)
        PROVE  /\ UNCHANGED <<state, saved>>
               /\ \A q \in Runs : /\ prior'[q] = prior[q] \/ prior'[q] = 0
                                  /\ oncePc'[q] = "idle" \/ oncePc[q] # "idle"
    BY <2>7 DEF Watch!Compare, Watch!Tell, Watch!Die, Watch!Finish, Watch!file, OnceInv, Watch!OnceOK
  <2>8. CASE Watch!Move \/ UNCHANGED onceOnly
    BY <2>3, <2>8 DEF Watch!Move, Watch!file, onceOnly
  <2> QED BY <2>3, <2>4, <2>5, <2>6, <2>7, <2>8 DEF Watch!OnceNext
<1> QED BY <1>1, <1>2 DEF OnceInv

-----------------------------------------------------------------------------
(* The three together.                                                     *)

PollInv == ReviewInv /\ LaneInv /\ OnceInv

\* A step moves one of them, and leaves the variables of the others alone.
LEMMA StepsApart ==
  ASSUME [PollNext]_all
  PROVE  [Next]_vars /\ [Watch!LoopNext]_laneOnly /\ [Watch!OnceNext]_onceOnly
BY DEF PollNext, Reviews, Watches, RunsOnce, all

\* The inductive invariant.
THEOREM PollInvariant == PollSpec => []PollInv
<1>1. PollInit => PollInv
  BY ReviewInit, LaneInit, OnceInit DEF PollInit, PollInv, Watch!Init
<1>2. PollInv /\ [PollNext]_all => PollInv'
  BY StepsApart, ReviewStep, LaneStep, OnceStep DEF PollInv
<1> QED BY <1>1, <1>2, PTL DEF PollSpec

\* For any clones, requests, interval and faults: what had been begun when a
\* sweep was planned is read whole, on the tick and on the timer path.
THEOREM NothingBegunIsReadHalf == PollSpec => []SweptIsWhole
<1>1. PollInv => SweptIsWhole
  BY DEF PollInv, ReviewInv, BegunIsWhole, SweptIsWhole
<1> QED BY <1>1, PollInvariant, PTL

\* For any lanes, files and runs of --once: a change that was not told yet is before
\* the watcher's loop, and what the state file takes as seen was told, or is about to
\* be, unless a run died; and every variable has its type.
THEOREM NewsIsAlwaysKept == PollSpec => []NewsIsKept
<1>1. PollInv => NewsIsKept
  BY DEF PollInv, ReviewInv, LaneInv, OnceInv, Told, NewsIsKept, TypesOK, Watch!TypeOK, Watch!SavedIsTold
<1> QED BY <1>1, PollInvariant, PTL
=============================================================================
