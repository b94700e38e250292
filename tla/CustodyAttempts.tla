--------------------------- MODULE CustodyAttempts ---------------------------
(***************************************************************************)
(* tools/custody/custody_attempts.py: the attempt log of one session.      *)
(*                                                                         *)
(* Every run of the emitter hook appends an attempt before its work and a  *)
(* completion after it; classify() tells from the log alone whether the    *)
(* session is healthy, frozen or gone.  Runs may overlap, be killed at any *)
(* step (also by their own watchdog), or fail to append.                   *)
(***************************************************************************)
EXTENDS CustodyParameters, Sequences

VARIABLES
  clock,
  lines,         \* the lines of the log, in file order
  unended,       \* the last line lacks its newline
  pc,            \* pc[r]: where run r of the hook is
  count,         \* count[r]: the lines it counted
  alone,         \* runs have followed one another (history)
  unkilled,      \* no run was killed (history)
  whole,         \* no append failed or was cut short, no count failed (history)
  lost           \* runs with a line whose append failed, or whose completion went
                 \* into the end of a cut line (history)

attemptVars == <<clock, lines, unended, pc, count, alone, unkilled, whole, lost>>

\* A line by what read_records() makes of it: "A" and "C" records, whose id may be
\* that of no run, the cap marker, or the malformed beginning of one of these.
Line == [kind : {"A", "C"}, ts : Nat, id : Runs \cup {None}]
        \cup [kind : {"capped", "cutA", "cutC", "cut"}, ts : Nat, id : {None}]
Cut(l) == [kind |-> CASE l.kind = "A" -> "cutA" [] l.kind = "C" -> "cutC" [] OTHER -> "cut",
           ts |-> l.ts, id |-> None]
Marker == [kind |-> "capped", ts |-> 0, id |-> None]

Inside == {r \in Runs : pc[r] \in {"counted", "working", "untracked"}}

Init == /\ clock = 0 /\ lines = << >> /\ unended = FALSE
        /\ pc = [r \in Runs |-> "new"] /\ count = [r \in Runs |-> 0]
        /\ alone = TRUE /\ unkilled = TRUE /\ whole = TRUE /\ lost = {}

-----------------------------------------------------------------------------
(* The writer.                                                             *)

\* What a line that lacks its newline may read as when l follows it: a beginning that
\* had not reached its fourth field is completed by l's fields, as a record whose id
\* is no run's.
Glued(old, l) ==
  {old} \cup {[kind |-> k, ts |-> old.ts, id |-> None] :
                k \in {j \in {"A", "C"} : /\ l.kind \in {"A", "C", "cutA", "cutC"}
                                         /\ old.kind = (IF j = "A" THEN "cutA" ELSE "cutC")}}
Joined(l) ==
  IF unended THEN {[lines EXCEPT ![Len(lines)] = read] : read \in Glued(lines[Len(lines)], l)}
             ELSE {Append(lines, l)}

\* _append_line() of a whole line.
Put(l) == lines' \in Joined(l) /\ unended' = FALSE

\* An append cut short, or refused.  What is written of a line is malformed, or
\* has all the fields the reader asks for and lacks the newline.
PutPart(l) ==
  \/ UNCHANGED <<lines, unended>>
  \/ \E part \in {l, Cut(l)} : lines' \in Joined(part) /\ unended' = TRUE

\* The run enters start(), and counts the lines.
Count(r) ==
  /\ pc[r] = "new"
  /\ count' = [count EXCEPT ![r] = Len(lines)]
  /\ pc' = [pc EXCEPT ![r] = "counted"]
  /\ alone' = (alone /\ Inside = {})
  /\ UNCHANGED <<clock, lines, unended, unkilled, whole, lost>>

CountFails(r) ==
  /\ "count" \in LogFaults /\ pc[r] = "new"
  /\ pc' = [pc EXCEPT ![r] = "untracked"]
  /\ whole' = FALSE
  /\ alone' = (alone /\ Inside = {})
  /\ UNCHANGED <<clock, lines, unended, count, unkilled, lost>>

\* At the cap neither half of a pair is recorded.
AtCap(r) == count[r] >= MaxLines
\* Mutant: the marker is due one line later.
PastCap(r) == count[r] = MaxLines + 1
MarkerDue(r) == count[r] = MaxLines

Start(r) ==
  /\ pc[r] = "counted" /\ ~AtCap(r)
  /\ Put([kind |-> "A", ts |-> clock, id |-> r])
  /\ pc' = [pc EXCEPT ![r] = "working"]
  /\ UNCHANGED <<clock, count, alone, unkilled, whole, lost>>

Refuse(r) ==
  /\ pc[r] = "counted" /\ AtCap(r)
  /\ IF MarkerDue(r) THEN Put(Marker) ELSE UNCHANGED <<lines, unended>>
  /\ pc' = [pc EXCEPT ![r] = "untracked"]
  /\ UNCHANGED <<clock, count, alone, unkilled, whole, lost>>

\* finish(), in the `finally` of a run that recorded its attempt.
\* Mutant: the cap is checked here as well.
CompletesBelowCap(r) == Len(lines) < MaxLines
Completes(r) == TRUE
Finish(r) ==
  /\ pc[r] = "working"
  /\ IF Completes(r) THEN Put([kind |-> "C", ts |-> clock, id |-> r])
                     ELSE UNCHANGED <<lines, unended>>
  /\ pc' = [pc EXCEPT ![r] = "returned"]
  /\ lost' = IF unended THEN lost \cup {r} ELSE lost
  /\ UNCHANGED <<clock, count, alone, unkilled, whole>>

Leave(r) ==
  /\ pc[r] = "untracked" /\ pc' = [pc EXCEPT ![r] = "returned"]
  /\ UNCHANGED <<clock, lines, unended, count, alone, unkilled, whole, lost>>

\* What r appends next.
Pending(r) == IF pc[r] = "working" THEN [kind |-> "C", ts |-> clock, id |-> r]
              ELSE IF AtCap(r) THEN Marker ELSE [kind |-> "A", ts |-> clock, id |-> r]
Appends(r) == pc[r] = "working" \/ (pc[r] = "counted" /\ (AtCap(r) => MarkerDue(r)))

\* _append_line() returns False, and the run goes on.
AppendFails(r) ==
  /\ "append" \in LogFaults /\ Appends(r)
  /\ PutPart(Pending(r))
  /\ pc' = [pc EXCEPT ![r] = IF @ = "working" THEN "returned" ELSE "untracked"]
  /\ whole' = FALSE /\ lost' = lost \cup {r}
  /\ UNCHANGED <<clock, count, alone, unkilled>>

\* The run is killed, by its watchdog or from outside, between two lines or in one.
Kill(r) ==
  /\ "kill" \in LogFaults /\ r \in Inside
  /\ \/ UNCHANGED <<lines, unended, whole>>
     \/ "tear" \in LogFaults /\ Appends(r) /\ PutPart(Pending(r)) /\ whole' = FALSE
  /\ pc' = [pc EXCEPT ![r] = "killed"]
  /\ unkilled' = FALSE
  /\ UNCHANGED <<clock, count, alone, lost>>

Tick == /\ clock < LastTick /\ clock' = clock + 1
        /\ UNCHANGED <<lines, unended, pc, count, alone, unkilled, whole, lost>>

Next == \/ \E r \in Runs : \/ Count(r) \/ CountFails(r) \/ Start(r) \/ Refuse(r)
                           \/ Finish(r) \/ Leave(r) \/ AppendFails(r) \/ Kill(r)
        \/ Tick

Spec == Init /\ [][Next]_attemptVars

-----------------------------------------------------------------------------
(* The reader.                                                             *)

\* The records, by their places in the log.
Records == {k \in DOMAIN lines : lines[k].kind \in {"A", "C"}}
Last == lines[CHOOSE k \in Records : \A j \in Records : j <= k]
Capped == \E k \in DOMAIN lines : lines[k].kind = "capped"
\* (The ids that two cut lines were completed to are taken to differ.)
Closed == {lines[k].id : k \in {j \in DOMAIN lines : lines[j].kind = "C"}} \ {None}

\* classify(), asked now.
Verdict ==
  IF Capped \/ Records = {} THEN "unknown"
  ELSE IF clock - Last.ts <= FreezeAfter THEN "healthy"
  ELSE IF Last.kind = "A" /\ Last.id \notin Closed THEN "frozen" ELSE "gone"

-----------------------------------------------------------------------------
(* Properties.                                                             *)

TypeOK == /\ clock \in 0 .. LastTick
          /\ lines \in Seq(Line)
          /\ \A k \in DOMAIN lines : lines[k].ts <= clock
          /\ unended \in BOOLEAN /\ (unended => lines # << >>)
          /\ pc \in [Runs -> {"new", "counted", "working", "untracked", "returned", "killed"}]
          /\ count \in [Runs -> Nat]
          /\ alone \in BOOLEAN /\ unkilled \in BOOLEAN /\ whole \in BOOLEAN
          /\ lost \subseteq Runs

\* A session reads frozen only when the run of its newest attempt never came back,
\* but for two cases: an append of that run failed, or its completion went into the
\* end of a line cut before it (finish() is best effort, and it may have returned); or
\* the newest attempt is a cut line that the next one completed, and no run's.  No
\* order of runs and kills, no line the cap refused and no line of another run that
\* was lost leaves an attempt open whose run returned.
\* And over runs that follow one another, while none is cut off and no count or append
\* has failed, a session with a run inside the hook never reads gone, the cap reached
\* or not.
VerdictsAreTrue ==
  /\ Verdict = "frozen" => IF Last.id = None THEN ~whole
                           ELSE pc[Last.id] \in {"working", "killed"} \/ Last.id \in lost
  /\ alone /\ unkilled /\ whole /\ Verdict = "gone" =>
       \A r \in Runs : pc[r] \notin {"working", "untracked"}

\* The cap's promise: the file says so in-band, and a truncated log supports no
\* verdict.  No attempt has been refused for the cap in a log that has one.
TruncatedIsUnknown ==
  (\E r \in Runs : pc[r] = "untracked" /\ AtCap(r)) => Verdict = "unknown"
=============================================================================
