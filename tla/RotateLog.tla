----------------------------- MODULE RotateLog -----------------------------
(***************************************************************************)
(* tools/heartbeat/rotate_log.py: rotation of a run log before each run.   *)
(* A file is known by the run of appends it holds: the n-th log that was   *)
(* begun is the volume n.  Each file operation is a step, may fail alone,  *)
(* and the process may end before any of them.                             *)
(***************************************************************************)
EXTENDS Naturals, FiniteSets

CONSTANTS
  Archives,      \* keep - 1
  MaxVolumes,    \* bound on the logs that are begun
  MaxTrouble     \* bound on failed operations and rotations that end half way

None == 0
Files == 0 .. Archives        \* 0 is the live log
Idle == Archives + 1

VARIABLES
  volume,        \* volume[i]: what file i holds, or None
  large,         \* the live log is above max_bytes
  begun,         \* the volumes begun so far
  at,            \* the rotation: Idle, or the file it handles next, from the oldest to 0
  trouble        \* history

vars == <<volume, large, begun, at, trouble>>

Init == /\ volume = [i \in Files |-> None] /\ large = FALSE
        /\ begun = 0 /\ at = Idle /\ trouble = 0

\* The scheduled command appends to the live log, and so creates it.
Grow ==
  /\ at = Idle /\ ~large
  /\ IF volume[0] = None
       THEN begun < MaxVolumes /\ begun' = begun + 1 /\ large' \in BOOLEAN
       ELSE begun' = begun /\ large' = TRUE
  /\ volume' = [volume EXCEPT ![0] = begun']
  /\ UNCHANGED <<at, trouble>>

\* rotate() of a log that is not too large, or absent, does nothing.  With no
\* archive to keep, the last step is the only one.
Rotate ==
  /\ at = Idle /\ large /\ at' = Archives
  /\ UNCHANGED <<volume, large, begun, trouble>>

\* Mutant: the shifts go from the newest archive up.
FromNewest(n) == CASE n = Archives -> IF n = 1 THEN 0 ELSE 1
                   [] n = Archives - 1 -> 0
                   [] OTHER -> n + 1
NextStep(n) == n - 1

Moved(from, to) ==
  IF volume[from] = None THEN volume ELSE [volume EXCEPT ![to] = volume[from], ![from] = None]
Works(new) == volume' = new /\ UNCHANGED trouble
Fails == trouble < MaxTrouble /\ trouble' = trouble + 1 /\ UNCHANGED volume

RemoveOldest ==
  /\ at = Archives /\ at > 0 /\ at' = NextStep(at)
  /\ Works([volume EXCEPT ![Archives] = None]) \/ (volume[Archives] # None /\ Fails)
  /\ UNCHANGED <<large, begun>>

Shift(n) ==
  /\ at = n /\ n < Archives /\ at' = NextStep(n)
  /\ Works(Moved(n, n + 1)) \/ (volume[n] # None /\ Fails)
  /\ UNCHANGED <<large, begun>>

Finish ==
  /\ at = 0 /\ at' = Idle
  /\ \/ /\ Works(IF Archives = 0 THEN [volume EXCEPT ![0] = None] ELSE Moved(0, 1))
        /\ large' = FALSE
     \/ Fails /\ large' = large
  /\ UNCHANGED begun

Die ==
  /\ at # Idle /\ at' = Idle
  /\ trouble < MaxTrouble /\ trouble' = trouble + 1
  /\ UNCHANGED <<volume, large, begun>>

Next == Grow \/ Rotate \/ RemoveOldest \/ (\E n \in 1 .. Archives : Shift(n)) \/ Finish \/ Die
Spec == Init /\ [][Next]_vars

-----------------------------------------------------------------------------
(* Properties.                                                             *)

TypeOK ==
  /\ volume \in [Files -> 0 .. MaxVolumes] /\ large \in BOOLEAN /\ begun \in 0 .. MaxVolumes
  /\ at \in 0 .. Idle /\ trouble \in 0 .. MaxTrouble

\* "the oldest archive is discarded", and what goes wrong costs little: between
\* rotations the archives are in order, and of the newest volumes, as many as
\* there are archives, each failed operation and each rotation that ended half
\* way has cost at most one.
TroubleCostsOneArchive ==
  LET finished == IF volume[0] = None THEN begun ELSE begun - 1
      newest == {v \in 1 .. finished : v > finished - Archives}
      kept == {volume[i] : i \in 1 .. Archives}
  IN  at = Idle =>
        /\ Cardinality(newest \ kept) <= trouble
        /\ \A i, j \in Files : i < j /\ volume[i] # None /\ volume[j] # None => volume[i] > volume[j]
=============================================================================
