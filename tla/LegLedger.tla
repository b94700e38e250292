----------------------------- MODULE LegLedger -----------------------------
(***************************************************************************)
(* tools/codex_leg_ledger.py: the legs of the probe that one UTC day may   *)
(* spend.  A claim is a process: it takes the day from the clock, counts   *)
(* the day's rows, and appends a row of that day or refuses.  Nothing is   *)
(* locked.                                                                 *)
(***************************************************************************)
EXTENDS Naturals, Sequences, FiniteSets

CONSTANTS
  Claims,        \* the processes that run `claim`
  MaxDay,        \* the clock passes the days 1 .. MaxDay
  Cap,           \* CAP
  MaxCuts        \* how often an append may be cut short

\* A line is the header, or a row, or what an append that failed left of a row:
\* "short" of the model column, or "long" enough to hold it.  A row that is
\* appended to such a part is one line with it.
Lines == [day : 0 .. MaxDay, is : {"header", "row", "short", "long"}, open : BOOLEAN]
Row(d) == [day |-> d, is |-> "row", open |-> FALSE]
Header == [day |-> 0, is |-> "header", open |-> FALSE]

VARIABLES
  today,
  file,          \* the lines of the ledger; an absent one has none
  headed,        \* the ledger is the shipped one, which has its header
  pc, day,       \* of each claim: its next step, and the day it drew
  cuts, legs,    \* history: appends cut short, claims told "claimed" per day,
  peak           \*   and the most claims that ever ran at once

vars == <<today, file, headed, pc, day, cuts, legs, peak>>

Init == /\ today = 1
        /\ headed \in BOOLEAN
        /\ file = IF headed THEN <<Header>> ELSE <<>>
        /\ pc = [c \in Claims |-> "start"] /\ day = [c \in Claims |-> 0]
        /\ cuts = 0 /\ legs = [d \in 1 .. MaxDay |-> 0] /\ peak = 0

\* count_for_date(): the first line is the header, whatever it holds.
Counted(d) == {k \in 2 .. Len(file) : file[k].day = d /\ file[k].is \in {"row", "long"}}

\* append_row().
Glued == file # <<>> /\ file[Len(file)].open
Appended(line) ==
  IF Glued THEN [file EXCEPT ![Len(file)].open = line.open] ELSE Append(file, line)

\* Mutant: refuses above the cap and not at it.
AboveCap(n) == n > Cap
AtCap(n) == n >= Cap

Running == {c \in Claims : pc[c] \in {"counting", "appending"}}
Claim(c) ==
  /\ pc[c] = "start"
  /\ peak' = IF peak > Cardinality(Running) THEN peak ELSE peak + 1
  /\ day' = [day EXCEPT ![c] = today]
  /\ pc' = [pc EXCEPT ![c] = "counting"]
  /\ UNCHANGED <<today, file, headed, cuts, legs>>

Count(c) ==
  /\ pc[c] = "counting"
  /\ pc' = [pc EXCEPT ![c] = IF AtCap(Cardinality(Counted(day[c]))) THEN "refused" ELSE "appending"]
  /\ UNCHANGED <<today, file, headed, day, cuts, legs, peak>>

Write(c) ==
  /\ pc[c] = "appending" /\ pc' = [pc EXCEPT ![c] = "claimed"]
  /\ file' = Appended(Row(day[c]))
  /\ legs' = [legs EXCEPT ![day[c]] = @ + 1]
  /\ UNCHANGED <<today, headed, day, cuts, peak>>

\* A full disk, or the end of the process: the claim is not told.
WriteCut(c, part) ==
  /\ pc[c] = "appending" /\ pc' = [pc EXCEPT ![c] = "failed"]
  /\ cuts < MaxCuts /\ cuts' = cuts + 1
  /\ file' = Appended([day |-> day[c], is |-> part, open |-> TRUE])
  /\ UNCHANGED <<today, headed, day, legs, peak>>

Midnight ==
  /\ today < MaxDay /\ today' = today + 1
  /\ UNCHANGED <<file, headed, pc, day, cuts, legs, peak>>

Next == \/ \E c \in Claims : Claim(c) \/ Count(c) \/ Write(c)
        \/ \E c \in Claims, part \in {"short", "long"} : WriteCut(c, part)
        \/ Midnight
Spec == Init /\ [][Next]_vars

-----------------------------------------------------------------------------
TypeOK ==
  /\ today \in 1 .. MaxDay /\ headed \in BOOLEAN /\ file \in Seq(Lines)
  /\ pc \in [Claims -> {"start", "counting", "appending", "claimed", "refused", "failed"}]
  /\ day \in [Claims -> 0 .. MaxDay]
  /\ cuts \in 0 .. MaxCuts /\ legs \in [1 .. MaxDay -> Nat] /\ peak \in 0 .. Cardinality(Claims)

\* What the missing lock, a cut append and a missing header can cost at most: a
\* day takes Cap legs, and one more for each cut, for the header, and for each
\* claim that ever ran beside another.
Extra == cuts + (IF headed THEN 0 ELSE 1) + (IF peak > 1 THEN peak - 1 ELSE 0)
OverspendIsBounded == \A d \in 1 .. MaxDay : legs[d] <= Cap + Extra

\* "The 21st claim in a UTC day is REFUSED (exit 3) and appends nothing", of
\* claims that run one after the other and never fail.
CapIsHard == peak <= 1 /\ cuts = 0 => \A d \in 1 .. MaxDay : legs[d] <= Cap
=============================================================================
