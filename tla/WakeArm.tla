------------------------------ MODULE WakeArm ------------------------------
(***************************************************************************)
(* tools/wake_arm.py: the minter of wake-delivery arms.                    *)
(*                                                                         *)
(* The store is a log of records, appended to by mint() under a lock file  *)
(* and read by open_arm(), check_arm_token() and audit() without it.  A    *)
(* minter is a process: it reads the clock, takes the lock, reads the      *)
(* store, decides, takes the digest of the file, writes one line, unlocks. *)
(* A record is named by its id (the token is drawn with it); the digest of *)
(* the file before a record is the number of records before it.            *)
(***************************************************************************)
EXTENDS Naturals, Sequences

CONSTANTS
  None,         \* absent: Python's None
  Minters,      \* processes that call mint()
  Ids,          \* what the entropy source can draw (model bound on records)
  Scopes,
  Ttls,         \* --ttl
  LockTimeout,  \* LOCK_TIMEOUT_S, in ticks
  MaxClock,     \* model bound: the last tick
  Faults        \* subset of {"write", "unlink", "crash"}: what may fail

ASSUME NoneAssumption == None \notin Ids \cup Scopes \cup Minters
ASSUME TimeAssumption == Ttls \subseteq Nat /\ LockTimeout \in Nat /\ MaxClock \in Nat

VARIABLES
  store,        \* the records of the log, in file order
  tail,         \* "clean"; "open": the last line lacks its newline; "torn": a
                \* line does not parse
  lock,         \* the process that created the lock file, or None
  clock,
  pc,           \* pc[m]: the next step of m's mint(), or "idle"
  call          \* call[m]: the arguments and the locals of m's mint()

vars == <<store, tail, lock, clock, pc, call>>

NoCall == [scope |-> None, supersede |-> FALSE, ttl |-> 0, now |-> 0, live |-> None,
           rec |-> None]

-----------------------------------------------------------------------------
(* Questions answered by replaying the log.                                *)

Superseded(recs) == {recs[k].supersedes : k \in DOMAIN recs} \ {None}

OfScope(recs, s) == {k \in DOMAIN recs : recs[k].scope = s}

Newest(recs, s) == CHOOSE k \in OfScope(recs, s) : \A j \in OfScope(recs, s) : j <= k

\* _open_arm_from(): the newest record of the scope, unless closed or expired.
OpenArm(recs, s, now) ==
  {recs[k].id : k \in {j \in OfScope(recs, s) : /\ j = Newest(recs, s)
                                                 /\ recs[j].id \notin Superseded(recs)
                                                 /\ recs[j].expires > now}}

\* check_arm_token(): the arms whose token it accepts.
Accepted(recs, s, now) ==
  {recs[k].id : k \in {j \in OfScope(recs, s) : /\ recs[j].id \notin Superseded(recs)
                                                 /\ recs[j].expires > now}}

\* audit(): every record carries the digest of the file before it.
AuditOK(recs) == \A k \in DOMAIN recs : recs[k].prev = k - 1

\* read_records() does not raise.
Readable == tail # "torn"

-----------------------------------------------------------------------------
(* mint().                                                                 *)

Init == /\ store = << >> /\ tail = "clean"
        /\ lock = None /\ clock = 0
        /\ pc = [m \in Minters |-> "idle"]
        /\ call = [m \in Minters |-> NoCall]

\* The clock is read when mint() is called, before the lock is.
Call(m, s, supersede, ttl) ==
  /\ pc[m] = "idle" /\ clock + LockTimeout <= MaxClock
  /\ pc' = [pc EXCEPT ![m] = "locking"]
  /\ call' = [call EXCEPT ![m] = [NoCall EXCEPT !.scope = s, !.supersede = supersede,
                                                !.ttl = ttl, !.now = clock]]
  /\ UNCHANGED <<store, tail, lock, clock>>

\* O_CREAT|O_EXCL: only one process can create the lock file.
\* Mutant: the lock file is opened without O_EXCL.
NoExclusion == TRUE
LockFree == lock = None
TakeLock(m) ==
  /\ pc[m] = "locking" /\ LockFree
  /\ lock' = m
  /\ pc' = [pc EXCEPT ![m] = "reading"]
  /\ UNCHANGED <<store, tail, clock, call>>

\* mint() returns, outside the lock.
Return(m) == /\ pc' = [pc EXCEPT ![m] = "idle"]
             /\ call' = [call EXCEPT ![m] = NoCall]

\* The wait is bounded, and a lock that looks stale is not stolen.
\* Mutant: waits for ever.
NeverExpires(m) == FALSE
WaitedOut(m) == clock >= call[m].now + LockTimeout
GiveUp(m) ==
  /\ pc[m] = "locking" /\ ~LockFree /\ WaitedOut(m)
  /\ Return(m)
  /\ UNCHANGED <<store, tail, lock, clock>>

\* m leaves the critical section with an answer.
Finish(m) == /\ pc' = [pc EXCEPT ![m] = "unlocking"]
             /\ call' = [call EXCEPT ![m] = NoCall]

\* read_records(), and the decision on that one snapshot.
Live(m) == OpenArm(store, call[m].scope, call[m].now)

ReadFails(m) ==
  /\ pc[m] = "reading" /\ ~Readable
  /\ Finish(m)
  /\ UNCHANGED <<store, tail, lock, clock>>

RefuseOpen(m) ==
  /\ pc[m] = "reading" /\ Readable
  /\ Live(m) # {} /\ ~call[m].supersede
  /\ Finish(m)
  /\ UNCHANGED <<store, tail, lock, clock>>

\* Every id and token in the store is refused a second time.
Seen == {store[k].id : k \in DOMAIN store}

\* The ids superseded by a mint that found live open.
\* Mutant: the new record does not name the old one.
SupersedesNothing(live) == None
\* Mutant: names the record and not its arm_id.
SupersedesRecord(live) == IF live = {} THEN None ELSE live
Supersedes(live) == IF live = {} THEN None ELSE CHOOSE id \in live : TRUE

Decide(m, id) ==
  /\ pc[m] = "reading" /\ Readable
  /\ Live(m) = {} \/ call[m].supersede
  /\ IF id \in Seen
       THEN Finish(m)
       ELSE /\ pc' = [pc EXCEPT ![m] = "digest"]
            /\ call' = [call EXCEPT ![m].live = Supersedes(Live(m)), ![m].rec = id]
  /\ UNCHANGED <<store, tail, lock, clock>>

\* _file_sha256(store), the last thing read before the append.
Record(m) == [id |-> call[m].rec, scope |-> call[m].scope,
              expires |-> call[m].now + call[m].ttl,
              supersedes |-> call[m].live, prev |-> Len(store)]
Digest(m) ==
  /\ pc[m] = "digest"
  /\ pc' = [pc EXCEPT ![m] = "writing"]
  /\ call' = [call EXCEPT ![m].rec = Record(m)]
  /\ UNCHANGED <<store, tail, lock, clock>>

\* What the file is after `written` of the line got there.  After a last line
\* without newline, the new one is glued to it and neither parses.
Appended(m, written) ==
  CASE written = "none" -> UNCHANGED <<store, tail>>
    [] written # "none" /\ (tail = "open" \/ written = "part") ->
         tail' = "torn" /\ UNCHANGED store
    [] written \in {"all", "no-newline"} /\ tail # "open" ->
         /\ store' = Append(store, call[m].rec)
         /\ tail' = IF written = "all" THEN tail ELSE "open"

Write(m) ==
  /\ pc[m] = "writing"
  /\ Appended(m, "all")
  /\ Finish(m)
  /\ UNCHANGED <<lock, clock>>

\* The write fails part way; the exception leaves mint() through its finally.
WriteFails(m) ==
  /\ "write" \in Faults /\ pc[m] = "writing"
  /\ \E w \in {"none", "part", "no-newline"} : Appended(m, w)
  /\ Finish(m)
  /\ UNCHANGED <<lock, clock>>

\* __exit__ unlinks whatever lock file there is, and swallows a failure.
Unlock(m) ==
  /\ pc[m] = "unlocking"
  /\ \/ lock' = None
     \/ "unlink" \in Faults /\ UNCHANGED lock
  /\ Return(m)
  /\ UNCHANGED <<store, tail, clock>>

\* The process dies; in the critical section its lock file stays, and in the
\* middle of the append a part of the line does.
Crash(m) ==
  /\ "crash" \in Faults /\ pc[m] # "idle"
  /\ IF pc[m] = "writing"
       THEN \E w \in {"none", "part", "no-newline", "all"} : Appended(m, w)
       ELSE UNCHANGED <<store, tail>>
  /\ Return(m)
  /\ UNCHANGED <<lock, clock>>

\* The operator removes a lock by hand when no minter is running.
RemoveLock ==
  /\ lock # None /\ \A m \in Minters : pc[m] = "idle"
  /\ lock' = None
  /\ UNCHANGED <<store, tail, clock, pc, call>>

Tick == /\ clock < MaxClock /\ clock' = clock + 1
        /\ UNCHANGED <<store, tail, lock, pc, call>>

Step(m) == \/ TakeLock(m) \/ GiveUp(m) \/ ReadFails(m) \/ RefuseOpen(m)
           \/ (\E id \in Ids : Decide(m, id)) \/ Digest(m)
           \/ Write(m) \/ Unlock(m)

Next == \/ \E m \in Minters :
             \/ \E s \in Scopes, b \in BOOLEAN, ttl \in Ttls : Call(m, s, b, ttl)
             \/ Step(m) \/ WriteFails(m) \/ Crash(m)
        \/ RemoveLock \/ Tick

Spec == Init /\ [][Next]_vars

\* A minter that runs takes its next step, and time passes.
FairSpec == Spec /\ WF_vars(Tick) /\ \A m \in Minters : WF_vars(Step(m))

-----------------------------------------------------------------------------
(* Properties.                                                             *)

Records == [id : Ids, scope : Scopes, expires : Nat, supersedes : Ids \cup {None}, prev : Nat]

TypeOK ==
  /\ store \in Seq(Records) /\ tail \in {"clean", "open", "torn"}
  /\ lock \in Minters \cup {None} /\ clock \in 0 .. MaxClock
  /\ pc \in [Minters -> {"idle", "locking", "reading", "digest", "writing", "unlocking"}]
  /\ call \in [Minters -> [scope : Scopes \cup {None}, supersede : BOOLEAN, ttl : Ttls \cup {0},
                           now : Nat, live : Ids \cup {None},
                           rec : Ids \cup Records \cup {None}]]

\* One open arm at a time: whatever minters race, wait, fail or crash, the
\* arms whose token check_arm_token() accepts in a scope are exactly the one
\* that open_arm() reports, or none.
OneOpenArm ==
  Readable => \A s \in Scopes : Accepted(store, s, clock) = OpenArm(store, s, clock)

\* A race of honest minters never looks like tampering: audit() of a readable
\* store never reports a broken link.
HonestAudit == Readable => AuditOK(store)

\* Every mint() answers, whoever holds the lock and however it was left.
MintTerminates == \A m \in Minters : pc[m] # "idle" ~> pc[m] = "idle"
=============================================================================
