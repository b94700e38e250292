---------------------------- MODULE DispatchCap ----------------------------
(***************************************************************************)
(* tools/or_dispatch_cap.py: the hard cap on the arms one run dispatches.  *)
(*                                                                         *)
(* Every arm is a process that calls the tool once.  A slot is a file of   *)
(* the run-state directory, created with O_CREAT|O_EXCL and never deleted. *)
(* Creating it and writing into it are two steps; the arms may be given    *)
(* different caps, for a human may raise --cap (or lower it) in mid-run.   *)
(***************************************************************************)
EXTENDS Naturals, FiniteSets

CONSTANTS
  Arms,         \* the arms of the run
  MaxCap,       \* the largest --cap anybody passes
  BadCap,       \* a --cap that is absent, not an integer, or negative
  NoArm         \* the holder of a slot whose file does not exist

ASSUME MaxCapAssumption == MaxCap \in Nat
ASSUME ArmsAssumption == NoArm \notin Arms /\ BadCap \notin 0 .. MaxCap

VARIABLES
  holder,       \* holder[k]: the arm that created slot-k, or NoArm
  pc,           \* pc[a]: the next step of arm a's process
  cap,          \* cap[a]: the --cap of arm a
  i,            \* i[a]: the loop variable of claim()
  rc,           \* rc[a]: the exit code, or "none"
  used          \* used[a]: the count a refusal prints

vars == <<holder, pc, cap, i, rc, used>>

Slots == 1 .. MaxCap
Caps == (0 .. MaxCap) \cup {BadCap}
Codes == {"granted", "exhausted", "cannot-run", "none"}  \* exit 0, 4, 3

Taken == {k \in Slots : holder[k] # NoArm}

Init == /\ holder = [k \in Slots |-> NoArm]
        /\ pc = [a \in Arms |-> "start"]
        /\ cap = [a \in Arms |-> BadCap]
        /\ i = [a \in Arms |-> 0]
        /\ rc = [a \in Arms |-> "none"]
        /\ used = [a \in Arms |-> 0]

\* The process ends with exit code c.
Exit(a, c) == /\ pc' = [pc EXCEPT ![a] = "done"]
              /\ rc' = [rc EXCEPT ![a] = c]

\* main() parses its arguments and makes the run-state directory.
Start(a, c) ==
  /\ pc[a] = "start" /\ c # BadCap
  /\ cap' = [cap EXCEPT ![a] = c]
  /\ i' = [i EXCEPT ![a] = 1]
  /\ pc' = [pc EXCEPT ![a] = "claiming"]
  /\ UNCHANGED <<holder, rc, used>>

\* An unusable cap or run-state directory: never a silent proceed.
CannotStart(a, c) ==
  /\ pc[a] = "start"
  /\ cap' = [cap EXCEPT ![a] = c]
  /\ Exit(a, "cannot-run")
  /\ UNCHANGED <<holder, i, used>>

\* The loop of claim() still has slots to try.
\* Mutant: range(1, cap).
OneTooFew(a) == i[a] < cap[a]
Trying(a) == i[a] <= cap[a]

\* os.open succeeds: the slot file did not exist and a creates it.
\* Mutant: the file is opened without O_EXCL.
AnyFile(k) == TRUE
Free(k) == holder[k] = NoArm
Create(a) ==
  /\ pc[a] = "claiming" /\ Trying(a) /\ Free(i[a])
  /\ holder' = [holder EXCEPT ![i[a]] = a]
  /\ pc' = [pc EXCEPT ![a] = "writing"]
  /\ UNCHANGED <<cap, i, rc, used>>

\* EEXIST: someone else holds it; try the next.
\* Mutant: waits for the slot instead.
Stay(a) == i[a]
Advance(a) == i[a] + 1
TryNext(a) ==
  /\ pc[a] = "claiming" /\ Trying(a) /\ ~Free(i[a])
  /\ i' = [i EXCEPT ![a] = Advance(a)]
  /\ UNCHANGED <<holder, pc, cap, rc, used>>

\* Any other error of os.open.
OpenFails(a) ==
  /\ pc[a] = "claiming" /\ Trying(a)
  /\ Exit(a, "cannot-run")
  /\ UNCHANGED <<holder, cap, i, used>>

\* The line that names the arm is written, and the slot is granted.
Grant(a) ==
  /\ pc[a] = "writing"
  /\ Exit(a, "granted")
  /\ UNCHANGED <<holder, cap, i, used>>

\* The line cannot be written; the slot file stays.
WriteFails(a) ==
  /\ pc[a] = "writing"
  /\ Exit(a, "cannot-run")
  /\ UNCHANGED <<holder, cap, i, used>>

\* The loop is over: count the slot files (an unlistable directory counts 0).
\* Mutant: counts the directory as well.
OneMore == Cardinality(Taken) + 1
SlotsUsed == Cardinality(Taken)
Refuse(a) ==
  /\ pc[a] = "claiming" /\ ~Trying(a)
  /\ \E n \in {SlotsUsed, 0} :
       used' = [used EXCEPT ![a] = n]
  /\ Exit(a, "exhausted")
  /\ UNCHANGED <<holder, cap, i>>

\* The arm's process dies; what it created stays.
Crash(a) ==
  /\ pc[a] # "done"
  /\ Exit(a, "none")
  /\ UNCHANGED <<holder, cap, i, used>>

Step(a) == Create(a) \/ TryNext(a) \/ Grant(a) \/ Refuse(a)

Next == \E a \in Arms :
          \/ \E c \in Caps : Start(a, c) \/ CannotStart(a, c)
          \/ Step(a) \/ OpenFails(a) \/ WriteFails(a) \/ Crash(a)

Spec == Init /\ [][Next]_vars

\* A process that runs executes its next file operation; nothing must fail.
FairSpec == Spec /\ \A a \in Arms : WF_vars(Step(a))

-----------------------------------------------------------------------------
(* Properties.                                                             *)

TypeOK == /\ holder \in [Slots -> Arms \cup {NoArm}]
          /\ pc \in [Arms -> {"start", "claiming", "writing", "done"}]
          /\ cap \in [Arms -> Caps]
          /\ i \in [Arms -> 0 .. MaxCap + 1]
          /\ rc \in [Arms -> Codes]
          /\ used \in [Arms -> 0 .. MaxCap]

Granted(c) == {a \in Arms : rc[a] = "granted" /\ cap[a] \in 0 .. c}

\* The cap is hard: however the claims of concurrent arms interleave, fail and
\* crash, and whatever caps the arms were given, no more than c of the arms
\* that were told a cap of at most c are granted a slot.
GrantsWithinCap == \A c \in 0 .. MaxCap : Cardinality(Granted(c)) <= c

\* A cap hit is a fact and not a lost race: an arm is refused only when every
\* slot its own cap gives the run has been taken by another arm.
RefusedMeansFull ==
  \A a \in Arms : rc[a] = "exhausted" => \A k \in 1 .. cap[a] : holder[k] \notin {NoArm, a}

\* Every claim answers: the loop ends for every cap, whoever takes the slots.
ClaimTerminates == \A a \in Arms : pc[a] # "start" ~> pc[a] = "done"
=============================================================================
