-------------------------- MODULE CustodyParameters --------------------------
(***************************************************************************)
(* The parameters of the custody tools, the bounds of their models, and    *)
(* the custody lease as a file (tools/custody/custody_lease.py), which the *)
(* census and the wedge sweep read: what one reading of it says.           *)
(***************************************************************************)
EXTENDS Integers

CONSTANTS
  None,

  \* custody_lease.py
  Trees,         \* working trees
  Sessions,
  Self,          \* the session that asks
  Here,          \* the tree its census is scoped to
  Ttl,           \* ttl_seconds
  MaxClock,      \* model bound: the last tick

  \* custody_attempts.py
  Runs,          \* runs of the emitter (model bound)
  MaxLines,      \* ATTEMPT_MAX_LINES
  FreezeAfter,   \* freeze_after_s
  LastTick,      \* model bound: the last tick
  LogFaults,     \* subset of {"kill", "tear", "append", "count"}: what may fail

  \* wedge_sweep.py
  Seats,         \* sessions with a transcript
  Pids,
  StallAfter,    \* --stall-s
  AbandonAfter,  \* --abandoned-after-s
  Halfwidth,     \* --join-halfwidth-s
  LeaseTtl,      \* LEASE_TTL_S
  Window,        \* TAIL_BYTES, in records
  MaxRecords,    \* model bound: records of a transcript
  MaxSpawns,     \* model bound: processes
  MaxTime        \* model bound: the last tick

ASSUME NoneAssumption == None \notin Nat \cup Sessions \cup Trees \cup Runs
ASSUME LeaseAssumption == Self \in Sessions /\ Ttl \in Nat \ {0} /\ MaxClock \in Nat
\* The cap is 20000: only an even one is met, and marked, by lines that come in pairs.
ASSUME AttemptAssumption ==
  MaxLines \in Nat \ {0} /\ MaxLines % 2 = 0 /\ FreezeAfter \in Nat /\ LastTick \in Nat
ASSUME SweepAssumption == /\ {StallAfter, AbandonAfter, Halfwidth, LeaseTtl} \subseteq Nat
                          /\ Halfwidth < StallAfter /\ StallAfter <= AbandonAfter
                          /\ Window \in Nat \ {0} /\ {MaxSpawns, MaxTime} \subseteq Nat

-----------------------------------------------------------------------------
(* A lease file is absent, or empty (write_text truncates before it        *)
(* writes), or holds a stamp and the tree its seat types in.               *)

\* An old writer records no tree.
File == [state : {"absent", "empty", "written"}, stamp : Nat, tree : Trees \cup {None}]
Absent == [state |-> "absent", stamp |-> 0, tree |-> None]
Empty == [state |-> "empty", stamp |-> 0, tree |-> None]
Written(stamp, tree) == [state |-> "written", stamp |-> stamp, tree |-> tree]

\* _age_of(): an unparseable or a future stamp raises, an absent file is no peer.
\* Mutant: an unparseable lease is skipped, as an absent one is.
GarbageSkipped(file, now) ==
  IF file.state # "written" THEN "absent" ELSE IF file.stamp > now THEN "raised" ELSE "read"
Reading(file, now) ==
  IF file.state = "absent" THEN "absent"
  ELSE IF file.state = "empty" \/ file.stamp > now THEN "raised" ELSE "read"

\* Of a lease that reads.
AgeOf(file, now) == now - file.stamp

\* _tree_of(): None where the lease records no tree, is being written, or has gone.
TreeOf(file) == file.tree
=============================================================================
