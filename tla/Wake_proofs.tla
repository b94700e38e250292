---------------------------- MODULE Wake_proofs ----------------------------
(***************************************************************************)
(* What the wake-delivery instruments answer, for every value of the       *)
(* constants: any minters, scopes, graders, agents, spawn graph, lines,    *)
(* runs and signals.                                                       *)
(*                                                                         *)
(* The instruments run apart, so each has an inductive invariant over its  *)
(* own variables (ArmInv, JoinInv, IsolationInv, GradeInv, PollInv), and a *)
(* step of WakeSpec is a step of one of them and a stutter of the others.  *)
(***************************************************************************)
EXTENDS MCWake, TLAPS

\* A step belongs to one instrument and leaves the variables of the others alone.
LEMMA StepsApart ==
  ASSUME [WakeNext]_all
  PROVE  /\ [Next]_vars
         /\ [Join!Next]_joinVars /\ [Isolation!Next]_isolationVars
         /\ [Grading!Next]_gradeVars /\ [Detectors!Next]_pollVars
         /\ UNCHANGED signal
BY DEF WakeNext, Mints, Joins, Walks, Grades, Polls, all

-----------------------------------------------------------------------------
(* Minting arms.                                                           *)

Critical == {"reading", "digest", "writing", "unlocking"}

\* Whoever is past the lock is the one that took it.  A lock may be left behind by
\* a minter that has gone, and then nobody gets past it.
HoldsLock(m) == pc[m] \in Critical => lock = m

Called(m) ==
  /\ call[m].now <= clock
  /\ pc[m] \in {"locking", "reading"} => call[m].scope \in Scopes /\ call[m].ttl \in Ttls

\* What a minter has decided still holds of the store when it writes.
Decided(m) ==
  /\ pc[m] \in {"digest", "writing"} =>
       /\ Readable /\ call[m].live = Supersedes(Live(m))
       /\ call[m].scope \in Scopes /\ call[m].ttl \in Ttls
  /\ pc[m] = "digest" => call[m].rec \in Ids
  /\ pc[m] = "writing" =>
       /\ call[m].rec \in Records
       /\ call[m].rec.scope = call[m].scope /\ call[m].rec.supersedes = call[m].live
       /\ call[m].rec.prev = Len(store)

\* Every record but the newest of its scope is closed or has expired.
OlderAreOver ==
  \A j, k \in DOMAIN store :
    j < k /\ store[j].scope = store[k].scope =>
      store[j].id \in Superseded(store) \/ store[j].expires <= clock

ArmInv == /\ TypeOK /\ AuditOK(store) /\ OlderAreOver
          /\ \A m \in Minters : HoldsLock(m) /\ Called(m) /\ Decided(m)

\* The lock excludes.
LEMMA OneInside ==
  ASSUME ArmInv, NEW m \in Minters, NEW o \in Minters,
         pc[m] \in Critical, pc[o] \in Critical
  PROVE  m = o
BY DEF ArmInv, HoldsLock

\* Newest() is what its name says.
LEMMA NewestIs ==
  ASSUME store \in Seq(Records), NEW s, NEW j \in OfScope(store, s),
         \A i \in OfScope(store, s) : i <= j
  PROVE  Newest(store, s) = j
BY DEF Newest, OfScope

Pcs == {"idle", "locking", "reading", "digest", "writing", "unlocking"}
Calls == [scope : Scopes \cup {None}, supersede : BOOLEAN, ttl : Ttls \cup {0},
          now : Nat, live : Ids \cup {None}, rec : Ids \cup Records \cup {None}]

LEMMA NoCallType == NoCall \in Calls
BY DEF NoCall, Calls

\* What a step of one minter's mint() leaves in pc and call.
LEMMA Advanced ==
  ASSUME TypeOK, NEW m \in Minters, NEW p \in Pcs, NEW c \in Calls,
         pc' = [pc EXCEPT ![m] = p], call' = [call EXCEPT ![m] = c]
  PROVE  /\ pc' \in [Minters -> Pcs] /\ call' \in [Minters -> Calls]
         /\ pc'[m] = p /\ call'[m] = c
         /\ \A o \in Minters \ {m} : pc'[o] = pc[o] /\ call'[o] = call[o]
BY DEF TypeOK, Pcs, Calls

\* A minter that returns, or leaves the critical section.
LEMMA Left ==
  ASSUME TypeOK, NEW m \in Minters, Finish(m) \/ Return(m)
  PROVE  /\ pc' \in [Minters -> Pcs] /\ call' \in [Minters -> Calls]
         /\ pc'[m] = (IF Finish(m) THEN "unlocking" ELSE "idle") /\ call'[m] = NoCall
         /\ \A o \in Minters \ {m} : pc'[o] = pc[o] /\ call'[o] = call[o]
<1>1. "idle" \in Pcs /\ "unlocking" \in Pcs
  BY DEF Pcs
<1>2. CASE Finish(m)
  BY <1>1, <1>2, NoCallType, Advanced DEF Finish
<1>3. CASE ~Finish(m)
  BY <1>1, <1>3, NoCallType, Advanced DEF Return
<1> QED BY <1>2, <1>3

\* What the file can be after an append: as it was, torn, or one record longer.
LEMMA AppendOutcomes ==
  ASSUME NEW m \in Minters, NEW w \in {"none", "part", "no-newline", "all"}, Appended(m, w)
  PROVE  \/ store' = store /\ (tail' = tail \/ tail' = "torn")
         \/ /\ tail # "open" /\ store' = Append(store, call[m].rec)
            /\ tail' = tail \/ tail' = "open"
BY DEF Appended

\* The record that is about to be written is one.
LEMMA RecordType ==
  ASSUME ArmInv, NEW m \in Minters, pc[m] = "digest"
  PROVE  Record(m) \in Records
<1>1. call[m].rec \in Ids /\ call[m].scope \in Scopes /\ call[m].ttl \in Ttls
  BY DEF ArmInv, Decided
<1>2. call[m].now \in Nat /\ call[m].live \in Ids \cup {None} /\ Len(store) \in Nat
  BY DEF ArmInv, TypeOK
<1>3. call[m].now + call[m].ttl \in Nat
  BY <1>1, <1>2, TimeAssumption
<1> QED BY <1>1, <1>2, <1>3 DEF Record, Records

\* Every variable of the minter keeps its type.
LEMMA ArmTypes ==
  ASSUME ArmInv, [Next]_vars
  PROVE  TypeOK'
<1>1. TypeOK
  BY DEF ArmInv
<1>2. /\ store \in Seq(Records) /\ tail \in {"clean", "open", "torn"}
      /\ lock \in Minters \cup {None} /\ clock \in 0 .. MaxClock /\ clock \in Nat
      /\ pc \in [Minters -> Pcs] /\ call \in [Minters -> Calls]
  BY <1>1, TimeAssumption DEF TypeOK, Pcs, Calls
<1> SUFFICES
      /\ store' \in Seq(Records) /\ tail' \in {"clean", "open", "torn"}
      /\ lock' \in Minters \cup {None} /\ clock' \in 0 .. MaxClock
      /\ pc' \in [Minters -> Pcs] /\ call' \in [Minters -> Calls]
  BY DEF TypeOK, Pcs, Calls
<1>3. ASSUME NEW m \in Minters, pc[m] = "writing",
             NEW w \in {"none", "part", "no-newline", "all"}, Appended(m, w)
      PROVE  store' \in Seq(Records) /\ tail' \in {"clean", "open", "torn"}
  <2>1. call[m].rec \in Records
    BY <1>3 DEF ArmInv, Decided
  <2> QED BY <1>2, <1>3, <2>1, AppendOutcomes
<1>4. ASSUME NEW m \in Minters, NEW s \in Scopes, NEW b \in BOOLEAN, NEW ttl \in Ttls,
             Call(m, s, b, ttl)
      PROVE  pc' \in [Minters -> Pcs] /\ call' \in [Minters -> Calls]
  <2>1. [NoCall EXCEPT !.scope = s, !.supersede = b, !.ttl = ttl, !.now = clock] \in Calls
    BY <1>2 DEF NoCall, Calls
  <2>2. "locking" \in Pcs
    BY DEF Pcs
  <2> QED BY <1>1, <1>4, <2>1, <2>2, Advanced DEF Call
<1>5. ASSUME NEW m \in Minters, NEW id \in Ids, Decide(m, id)
      PROVE  pc' \in [Minters -> Pcs] /\ call' \in [Minters -> Calls]
  <2>1. CASE id \in Seen
    BY <1>1, <1>5, <2>1, Left DEF Decide
  <2>2. CASE id \notin Seen
    <3>1. Live(m) \subseteq Ids
      <4>1. \A k \in DOMAIN store : store[k].id \in Ids
        <5>1. \A k \in DOMAIN store : store[k] \in Records
          BY <1>2
        <5> QED BY <5>1 DEF Records
      <4> QED BY <4>1 DEF Live, OpenArm, OfScope
    <3>2. Supersedes(Live(m)) \in Ids \cup {None}
      BY <3>1 DEF Supersedes
    <3>3. [call[m] EXCEPT !.live = Supersedes(Live(m)), !.rec = id] \in Calls
      BY <1>2, <3>2 DEF Calls
    <3>4. "digest" \in Pcs
      BY DEF Pcs
    <3>5. call' = [call EXCEPT ![m] = [call[m] EXCEPT !.live = Supersedes(Live(m)), !.rec = id]]
      BY <1>2, <1>5, <2>2 DEF Decide
    <3> QED BY <1>1, <1>5, <2>2, <3>3, <3>4, <3>5, Advanced DEF Decide
  <2> QED BY <2>1, <2>2
<1>6. ASSUME NEW m \in Minters, Digest(m)
      PROVE  pc' \in [Minters -> Pcs] /\ call' \in [Minters -> Calls]
  <2>1. Record(m) \in Records
    BY <1>6, RecordType DEF Digest
  <2>2. [call[m] EXCEPT !.rec = Record(m)] \in Calls
    BY <1>2, <2>1 DEF Calls
  <2>3. "writing" \in Pcs
    BY DEF Pcs
  <2>4. call' = [call EXCEPT ![m] = [call[m] EXCEPT !.rec = Record(m)]]
    BY <1>2, <1>6 DEF Digest
  <2> QED BY <1>1, <1>6, <2>2, <2>3, <2>4, Advanced DEF Digest
<1>7. ASSUME NEW m \in Minters, TakeLock(m)
      PROVE  pc' \in [Minters -> Pcs]
  BY <1>2, <1>7 DEF TakeLock, Pcs
<1>8. ASSUME NEW m \in Minters, Step(m) \/ WriteFails(m) \/ Crash(m)
      PROVE  /\ store' \in Seq(Records) /\ tail' \in {"clean", "open", "torn"}
             /\ lock' \in Minters \cup {None} /\ clock' = clock
             /\ pc' \in [Minters -> Pcs] /\ call' \in [Minters -> Calls]
  <2>1. CASE TakeLock(m)
    BY <1>2, <1>7, <2>1 DEF TakeLock
  <2>2. CASE GiveUp(m)
    BY <1>1, <1>2, <2>2, Left DEF GiveUp
  <2>3. CASE ReadFails(m) \/ RefuseOpen(m)
    BY <1>1, <1>2, <2>3, Left DEF ReadFails, RefuseOpen
  <2>4. CASE \E id \in Ids : Decide(m, id)
    BY <1>2, <1>5, <2>4 DEF Decide
  <2>5. CASE Digest(m)
    BY <1>2, <1>6, <2>5 DEF Digest
  <2>6. CASE Write(m)
    BY <1>1, <1>2, <1>3, <2>6, Left DEF Write
  <2>7. CASE WriteFails(m)
    BY <1>1, <1>2, <1>3, <2>7, Left DEF WriteFails
  <2>8. CASE Unlock(m)
    BY <1>1, <1>2, <2>8, Left DEF Unlock
  <2>9. CASE Crash(m)
    BY <1>1, <1>2, <1>3, <2>9, Left DEF Crash
  <2> QED BY <1>8, <2>1, <2>2, <2>3, <2>4, <2>5, <2>6, <2>7, <2>8, <2>9 DEF Step
<1>9. CASE \E m \in Minters, s \in Scopes, b \in BOOLEAN, ttl \in Ttls : Call(m, s, b, ttl)
  <2>1. PICK m \in Minters, s \in Scopes, b \in BOOLEAN, ttl \in Ttls : Call(m, s, b, ttl)
    BY <1>9
  <2>2. pc' \in [Minters -> Pcs] /\ call' \in [Minters -> Calls]
    BY <1>4, <2>1
  <2> QED BY <1>2, <2>1, <2>2 DEF Call
<1>10. CASE \E m \in Minters : Step(m) \/ WriteFails(m) \/ Crash(m)
  BY <1>2, <1>8, <1>10
<1>11. CASE RemoveLock
  BY <1>2, <1>11 DEF RemoveLock
<1>12. CASE Tick
  BY <1>2, <1>12, TimeAssumption DEF Tick
<1>13. CASE UNCHANGED vars
  BY <1>2, <1>13 DEF vars
<1> QED BY <1>9, <1>10, <1>11, <1>12, <1>13 DEF Next

\* One minter moves at a time.
Moves(m) == \/ \E s \in Scopes, b \in BOOLEAN, ttl \in Ttls : Call(m, s, b, ttl)
            \/ Step(m) \/ WriteFails(m) \/ Crash(m)

LEMMA OneMoves ==
  ASSUME [Next]_vars
  PROVE  (\E m \in Minters : Moves(m)) \/ RemoveLock \/ Tick \/ UNCHANGED vars
BY DEF Next, Moves

LEMMA OthersStay ==
  ASSUME TypeOK, NEW m \in Minters, Moves(m), NEW o \in Minters \ {m}
  PROVE  pc'[o] = pc[o] /\ call'[o] = call[o]
<1>1. pc \in [Minters -> Pcs] /\ call \in [Minters -> Calls]
  BY DEF TypeOK, Pcs, Calls
<1>2. CASE \E s \in Scopes, b \in BOOLEAN, ttl \in Ttls : Call(m, s, b, ttl)
  BY <1>1, <1>2 DEF Call
<1>3. CASE Step(m) \/ WriteFails(m) \/ Crash(m)
  BY <1>1, <1>3 DEF Step, TakeLock, GiveUp, ReadFails, RefuseOpen, Decide, Digest, Write, Unlock,
                    WriteFails, Crash, Finish, Return
<1> QED BY <1>2, <1>3 DEF Moves

\* The file changes only under the hand of a minter that is writing.
LEMMA FileChanges ==
  ASSUME NEW m \in Minters, Moves(m)
  PROVE  \/ UNCHANGED <<store, tail>>
         \/ /\ pc[m] = "writing"
            /\ store' = store \/ store' = Append(store, call[m].rec)
<1>1. CASE Write(m) \/ WriteFails(m) \/ Crash(m)
  <2>1. \/ UNCHANGED <<store, tail>>
        \/ pc[m] = "writing" /\ \E w \in {"none", "part", "no-newline", "all"} : Appended(m, w)
    BY <1>1 DEF Write, WriteFails, Crash
  <2> QED BY <2>1, AppendOutcomes
<1>2. CASE Moves(m) /\ ~(Write(m) \/ WriteFails(m) \/ Crash(m))
  BY <1>2 DEF Moves, Call, Step, TakeLock, GiveUp, ReadFails, RefuseOpen, Decide, Digest, Unlock
<1> QED BY <1>1, <1>2

\* Time does not go back.
LEMMA TimePasses ==
  ASSUME ArmInv, [Next]_vars
  PROVE  clock \in Nat /\ clock' \in Nat /\ clock <= clock'
<1>1. clock \in Nat
  BY TimeAssumption DEF ArmInv, TypeOK
<1>2. clock' = clock \/ clock' = clock + 1
  BY DEF Next, Step, Call, TakeLock, GiveUp, ReadFails, RefuseOpen, Decide, Digest, Write, Unlock,
         WriteFails, Crash, RemoveLock, Tick, vars
<1> QED BY <1>1, <1>2

\* The lock excludes after the step too.
LEMMA HoldsLockStep ==
  ASSUME ArmInv, [Next]_vars, NEW o \in Minters
  PROVE  HoldsLock(o)'
<1>1. TypeOK /\ \A m \in Minters : HoldsLock(m)
  BY DEF ArmInv
<1>2. pc \in [Minters -> Pcs] /\ call \in [Minters -> Calls]
  BY <1>1 DEF TypeOK, Pcs, Calls
<1>3. None \notin Minters
  BY NoneAssumption
<1>4. ASSUME NEW m \in Minters, Moves(m)
      PROVE  HoldsLock(o)'
  <2>1. o # m => pc'[o] = pc[o]
    BY <1>1, <1>4, OthersStay
  <2>2. CASE TakeLock(m)
    BY <1>1, <1>3, <2>1, <2>2 DEF TakeLock, LockFree, HoldsLock
  <2>3. CASE Unlock(m)
    <3>1. pc[m] \in Critical /\ pc'[m] = "idle"
      BY <1>2, <2>3 DEF Unlock, Return, Critical
    <3>2. o # m => pc[o] \notin Critical
      BY <1>1, <3>1 DEF HoldsLock
    <3> QED BY <2>1, <3>1, <3>2 DEF HoldsLock, Critical
  <2>4. CASE Moves(m) /\ ~TakeLock(m) /\ ~Unlock(m)
    <3>1. lock' = lock
      BY <2>4 DEF Moves, Call, Step, GiveUp, ReadFails, RefuseOpen, Decide, Digest, Write,
                  WriteFails, Crash
    <3>2. pc'[m] \in Critical => pc[m] \in Critical
      BY <1>2, <2>4 DEF Moves, Call, Step, GiveUp, ReadFails, RefuseOpen, Decide, Digest, Write,
                        WriteFails, Crash, Finish, Return, Critical
    <3> QED BY <1>1, <2>1, <3>1, <3>2 DEF HoldsLock
  <2> QED BY <1>4, <2>2, <2>3, <2>4
<1>5. CASE RemoveLock
  BY <1>5 DEF RemoveLock, HoldsLock, Critical
<1>6. CASE Tick \/ UNCHANGED vars
  BY <1>1, <1>6 DEF Tick, vars, HoldsLock
<1> QED BY <1>4, <1>5, <1>6, OneMoves

\* A call carries its arguments, and the time it was made at.
LEMMA CalledStep ==
  ASSUME ArmInv, [Next]_vars, NEW o \in Minters
  PROVE  Called(o)'
<1>1. TypeOK /\ Called(o)
  BY DEF ArmInv
<1>2. pc \in [Minters -> Pcs] /\ call \in [Minters -> Calls]
  BY <1>1 DEF TypeOK, Pcs, Calls
<1>3. clock \in Nat /\ clock' \in Nat /\ clock <= clock' /\ call[o].now \in Nat
  BY <1>2, TimePasses DEF Calls
<1>4. CASE pc'[o] = pc[o] /\ call'[o] = call[o]
  BY <1>1, <1>3, <1>4 DEF Called
<1>5. CASE Moves(o)
  <2>1. CASE \E s \in Scopes, b \in BOOLEAN, ttl \in Ttls : Call(o, s, b, ttl)
    BY <1>2, <1>3, <2>1 DEF Call, Called, NoCall
  <2>2. CASE TakeLock(o)
    BY <1>1, <1>2, <2>2 DEF TakeLock, Called
  <2>3. CASE \E id \in Ids : Decide(o, id)
    <3>1. PICK id \in Ids : Decide(o, id)
      BY <2>3
    <3>2. CASE id \in Seen
      BY <1>1, <1>2, <1>3, <3>1, <3>2, Left DEF Decide, Called, NoCall
    <3>3. CASE id \notin Seen
      <4>1. pc'[o] = "digest" /\ call'[o].now = call[o].now
        BY <1>2, <3>1, <3>3 DEF Decide, Calls
      <4> QED BY <1>1, <1>3, <4>1 DEF Called
    <3> QED BY <3>2, <3>3
  <2>4. CASE Digest(o)
    <3>1. pc'[o] = "writing" /\ call'[o].now = call[o].now
      BY <1>2, <2>4 DEF Digest, Calls
    <3> QED BY <1>1, <1>3, <3>1 DEF Called
  <2>5. CASE Finish(o) \/ Return(o)
    BY <1>1, <1>3, <2>5, Left DEF Called, NoCall
  <2> QED BY <1>5, <2>1, <2>2, <2>3, <2>4, <2>5
          DEF Moves, Step, GiveUp, ReadFails, RefuseOpen, Write, Unlock, WriteFails, Crash
<1>6. CASE ~Moves(o) /\ \E m \in Minters : Moves(m)
  BY <1>1, <1>4, <1>6, OthersStay
<1>7. CASE RemoveLock \/ Tick \/ UNCHANGED vars
  BY <1>4, <1>7 DEF RemoveLock, Tick, vars
<1> QED BY <1>5, <1>6, <1>7, OneMoves

\* While a minter is between its decision and its write, the store does not change:
\* the decision it writes down is about the store it writes to.
LEMMA DecidedStep ==
  ASSUME ArmInv, [Next]_vars, NEW o \in Minters
  PROVE  Decided(o)'
<1>1. TypeOK /\ Decided(o) /\ Called(o)
  BY DEF ArmInv
<1>2. pc \in [Minters -> Pcs] /\ call \in [Minters -> Calls]
  BY <1>1 DEF TypeOK, Pcs, Calls
<1>3. CASE pc'[o] = pc[o] /\ call'[o] = call[o] /\ UNCHANGED <<store, tail>>
  BY <1>1, <1>3 DEF Decided, Readable, Live
<1>4. CASE pc'[o] \notin {"digest", "writing"}
  BY <1>4 DEF Decided
<1>5. CASE Moves(o) /\ pc'[o] \in {"digest", "writing"}
  <2>1. CASE \E id \in Ids : Decide(o, id)
    <3>1. PICK id \in Ids : Decide(o, id)
      BY <2>1
    <3>2. id \notin Seen
      BY <1>1, <1>5, <3>1, Left DEF Decide
    <3>3. /\ pc'[o] = "digest" /\ call'[o].rec = id /\ call'[o].live = Supersedes(Live(o))
          /\ call'[o].scope = call[o].scope /\ call'[o].now = call[o].now
          /\ call'[o].ttl = call[o].ttl
      BY <1>2, <3>1, <3>2 DEF Decide, Calls
    <3>4. Readable /\ pc[o] = "reading" /\ UNCHANGED <<store, tail>>
      BY <3>1 DEF Decide
    <3>5. Live(o)' = Live(o)
      BY <3>3, <3>4 DEF Live
    <3> QED BY <1>1, <3>3, <3>4, <3>5 DEF Decided, Called, Readable
  <2>2. CASE Digest(o)
    <3>1. /\ pc'[o] = "writing" /\ call'[o].rec = Record(o) /\ call'[o].live = call[o].live
          /\ call'[o].scope = call[o].scope /\ call'[o].now = call[o].now
          /\ call'[o].ttl = call[o].ttl
      BY <1>2, <2>2 DEF Digest, Calls
    <3>2. pc[o] = "digest" /\ UNCHANGED <<store, tail>>
      BY <2>2 DEF Digest
    <3>3. Live(o)' = Live(o)
      BY <3>1, <3>2 DEF Live
    <3>4. Record(o) \in Records
      BY <3>2, RecordType
    <3> QED BY <1>1, <3>1, <3>2, <3>3, <3>4 DEF Decided, Readable, Record
  <2>3. ~(Finish(o) \/ Return(o))
    BY <1>1, <1>5, Left
  <2>4. ~TakeLock(o)
    BY <1>2, <1>5 DEF TakeLock
  <2>5. ~\E s \in Scopes, b \in BOOLEAN, ttl \in Ttls : Call(o, s, b, ttl)
    BY <1>2, <1>5 DEF Call
  <2> QED BY <1>5, <2>1, <2>2, <2>3, <2>4, <2>5
          DEF Moves, Step, GiveUp, ReadFails, RefuseOpen, Write, Unlock, WriteFails, Crash
<1>6. ASSUME NEW m \in Minters, Moves(m), m # o, pc[o] \in {"digest", "writing"}
      PROVE  UNCHANGED <<store, tail>>
  BY <1>6, FileChanges, OneInside DEF Critical
<1>7. CASE ~Moves(o) /\ \E m \in Minters : Moves(m)
  BY <1>1, <1>3, <1>4, <1>6, <1>7, OthersStay
<1>8. CASE RemoveLock \/ Tick \/ UNCHANGED vars
  BY <1>3, <1>8 DEF RemoveLock, Tick, vars
<1> QED BY <1>4, <1>5, <1>7, <1>8, OneMoves

\* Closing is for good.
LEMMA SupersededGrows ==
  ASSUME store \in Seq(Records), NEW r \in Records
  PROVE  /\ Superseded(store) \subseteq Superseded(Append(store, r))
         /\ r.supersedes # None => r.supersedes \in Superseded(Append(store, r))
<1>1. /\ Len(store) \in Nat /\ DOMAIN store = 1 .. Len(store)
      /\ DOMAIN Append(store, r) = 1 .. Len(store) + 1
      /\ \A k \in 1 .. Len(store) : Append(store, r)[k] = store[k]
      /\ Append(store, r)[Len(store) + 1] = r
  OBVIOUS
<1> QED BY <1>1 DEF Superseded

\* A record is written with the digest of the file it is appended to, and closes the
\* arm of its scope that is open.
LEMMA StoreStep ==
  ASSUME ArmInv, [Next]_vars
  PROVE  AuditOK(store)' /\ OlderAreOver'
<1>1. TypeOK /\ AuditOK(store) /\ OlderAreOver /\ store \in Seq(Records)
  BY DEF ArmInv, TypeOK
<1>2. clock \in Nat /\ clock' \in Nat /\ clock <= clock'
  BY TimePasses
<1>3. \A k \in DOMAIN store : store[k].expires \in Nat
  <2>1. \A k \in DOMAIN store : store[k] \in Records
    BY <1>1
  <2> QED BY <2>1 DEF Records
<1>4. CASE store' = store
  BY <1>1, <1>2, <1>3, <1>4 DEF AuditOK, OlderAreOver
<1>5. ASSUME NEW m \in Minters, pc[m] = "writing", store' = Append(store, call[m].rec)
      PROVE  AuditOK(store)' /\ OlderAreOver'
  <2> DEFINE r == call[m].rec
             n == Len(store)
  <2>1. /\ r \in Records /\ r.scope = call[m].scope /\ r.prev = n
        /\ r.supersedes = Supersedes(Live(m))
    BY <1>5 DEF ArmInv, Decided
  <2>2. /\ n \in Nat /\ DOMAIN store = 1 .. n /\ DOMAIN store' = 1 .. n + 1
        /\ \A k \in 1 .. n : store'[k] = store[k]
        /\ store'[n + 1] = r
    BY <1>1, <1>5, <2>1
  <2>3. /\ Superseded(store) \subseteq Superseded(store')
        /\ r.supersedes # None => r.supersedes \in Superseded(store')
    BY <1>1, <1>5, <2>1, SupersededGrows
  <2>4. call[m].now \in Nat /\ call[m].now <= clock
    BY <1>1 DEF ArmInv, Called, TypeOK
  <2> HIDE DEF r, n
  <2>5. AuditOK(store')
    BY <1>1, <2>1, <2>2 DEF AuditOK
  <2>6. ASSUME NEW j \in 1 .. n, store[j].scope = r.scope
        PROVE  store[j].id \in Superseded(store') \/ store[j].expires <= clock
    <3>1. CASE \E k \in 1 .. n : j < k /\ store[k].scope = store[j].scope
      BY <1>1, <2>2, <2>3, <3>1 DEF OlderAreOver
    <3>2. CASE ~\E k \in 1 .. n : j < k /\ store[k].scope = store[j].scope
      <4>1. j \in OfScope(store, r.scope) /\ \A i \in OfScope(store, r.scope) : i <= j
        BY <2>2, <2>6, <3>2 DEF OfScope
      <4>2. Newest(store, r.scope) = j
        BY <1>1, <4>1, NewestIs
      <4>3. CASE store[j].id \in Superseded(store) \/ ~(store[j].expires > call[m].now)
        BY <1>2, <1>3, <2>2, <2>3, <2>4, <4>3
      <4>4. CASE store[j].id \notin Superseded(store) /\ store[j].expires > call[m].now
        <5>1. Live(m) = {store[j].id}
          BY <2>1, <4>1, <4>2, <4>4 DEF Live, OpenArm
        <5>2. r.supersedes = store[j].id
          BY <2>1, <5>1 DEF Supersedes
        <5>3. store[j].id # None
          <6>1. store[j] \in Records
            BY <1>1, <2>2
          <6> QED BY <6>1, NoneAssumption DEF Records
        <5> QED BY <2>3, <5>2, <5>3
      <4> QED BY <4>3, <4>4
    <3> QED BY <3>1, <3>2
  <2>7. ASSUME NEW j \in DOMAIN store', NEW k \in DOMAIN store', j < k,
               store'[j].scope = store'[k].scope
        PROVE  store'[j].id \in Superseded(store') \/ store'[j].expires <= clock'
    <3>1. j \in 1 .. n /\ store'[j] = store[j] /\ store[j].expires \in Nat
      BY <1>3, <2>2, <2>7
    <3>2. store[j].id \in Superseded(store') \/ store[j].expires <= clock
      <4>1. CASE k = n + 1
        BY <2>2, <2>6, <2>7, <3>1, <4>1
      <4>2. CASE k \in 1 .. n
        BY <1>1, <2>2, <2>3, <2>7, <3>1, <4>2 DEF OlderAreOver
      <4> QED BY <2>2, <4>1, <4>2
    <3> QED BY <1>2, <3>1, <3>2
  <2> QED BY <2>5, <2>7 DEF OlderAreOver
<1>6. CASE \E m \in Minters : Moves(m)
  BY <1>4, <1>5, <1>6, FileChanges
<1>7. CASE RemoveLock \/ Tick \/ UNCHANGED vars
  BY <1>4, <1>7 DEF RemoveLock, Tick, vars
<1> QED BY <1>6, <1>7, OneMoves

THEOREM ArmInvariant == WakeSpec => []ArmInv
<1>1. WakeInit => ArmInv
  <2> SUFFICES ASSUME WakeInit PROVE ArmInv
    OBVIOUS
  <2>1. Init
    BY DEF WakeInit
  <2>2. TypeOK
    BY <2>1, NoCallType, TimeAssumption DEF Init, TypeOK, Calls
  <2>3. AuditOK(store) /\ OlderAreOver
    BY <2>1 DEF Init, AuditOK, OlderAreOver
  <2> QED BY <2>1, <2>2, <2>3 DEF Init, ArmInv, HoldsLock, Called, Decided, Critical, NoCall
<1>2. ArmInv /\ [WakeNext]_all => ArmInv'
  <2> SUFFICES ASSUME ArmInv, [WakeNext]_all PROVE ArmInv'
    OBVIOUS
  <2>1. [Next]_vars
    BY StepsApart
  <2> QED BY <2>1, ArmTypes, StoreStep, HoldsLockStep, CalledStep, DecidedStep DEF ArmInv
<1> QED BY <1>1, <1>2, PTL DEF WakeSpec

\* The readers of the store agree on what is open.
LEMMA AcceptedIsOpen ==
  ASSUME ArmInv, NEW s \in Scopes
  PROVE  Accepted(store, s, clock) = OpenArm(store, s, clock)
<1>1. store \in Seq(Records) /\ OlderAreOver /\ clock \in Nat
  BY TimeAssumption DEF ArmInv, TypeOK
<1>2. ASSUME NEW j \in OfScope(store, s), store[j].id \notin Superseded(store),
             store[j].expires > clock
      PROVE  j = Newest(store, s)
  <2>1. j \in DOMAIN store /\ store[j].scope = s /\ DOMAIN store = 1 .. Len(store) /\ Len(store) \in Nat
    BY <1>1 DEF OfScope
  <2>2. store[j].expires \in Nat
    <3>1. store[j] \in Records
      BY <1>1, <2>1
    <3> QED BY <3>1 DEF Records
  <2>3. \A i \in OfScope(store, s) : i <= j
    BY <1>1, <1>2, <2>1, <2>2 DEF OfScope, OlderAreOver
  <2> QED BY <1>1, <2>3, NewestIs
<1> QED BY <1>2 DEF Accepted, OpenArm

-----------------------------------------------------------------------------
(* Binding events to the arm.                                              *)

Up == {g \in Graders : joinPc[g] # "down"}

\* While graders follow one another and none is cut short in a line, the file and
\* the one grader that is up know every event that was bound.
BoundIsKnown ==
  undisturbed =>
    /\ ~torn /\ \A g, h \in Up : g = h
    /\ \A e \in EventIds :
         /\ bindings[e] <= 1
         /\ bindings[e] = 1 => e \in spent /\ \A g \in Up : e \in mem[g]

Spending == \A g \in Graders : joinPc[g] = "spending" => event[g] \in Join!Event

JoinInv == Join!TypeOK /\ Spending /\ BoundIsKnown

\* Every variable of the join keeps its type.
LEMMA JoinTypes ==
  ASSUME JoinInv, [Join!Next]_joinVars
  PROVE  Join!TypeOK'
<1> USE DEF Join!TypeOK
<1>1. Join!TypeOK
  BY DEF JoinInv
<1>2. ASSUME NEW g \in Graders, joinPc[g] = "spending"
      PROVE  event[g].id \in EventIds
  BY <1>2 DEF JoinInv, Spending, Join!Event
<1>3. ASSUME NEW g \in Graders, Join!Load(g)
      PROVE  Join!TypeOK'
  BY <1>1, <1>3, BoundAssumption DEF Join!Load, Join!Loaded, Join!world, Join!log
<1>4. ASSUME NEW g \in Graders, NEW e \in Join!Event, Join!Grade(g, e)
      PROVE  Join!TypeOK'
  BY <1>1, <1>4 DEF Join!Grade, Join!world, Join!log
<1>5. ASSUME NEW g \in Graders, Join!Replay(g)
      PROVE  Join!TypeOK'
  BY <1>1, <1>5 DEF Join!Replay, Join!EndJoin, Join!world, Join!log
<1>6. ASSUME NEW g \in Graders, Join!Bind(g)
      PROVE  Join!TypeOK'
  <2>1. event[g].id \in EventIds
    BY <1>2, <1>6 DEF Join!Bind
  <2>2. spent' \subseteq EventIds /\ mem' \in [Graders -> SUBSET EventIds]
        /\ bindings' \in [EventIds -> 0 .. 2]
    BY <1>1, <1>6, <2>1 DEF Join!Bind, Join!Marked
  <2> QED BY <1>1, <1>6, <2>2 DEF Join!Bind, Join!EndJoin, Join!world
<1>7. ASSUME NEW g \in Graders, Join!Crash(g)
      PROVE  Join!TypeOK'
  <2>1. spent' \subseteq EventIds /\ torn' \in BOOLEAN /\ undisturbed' \in BOOLEAN
    BY <1>1, <1>2, <1>7 DEF Join!Crash, Join!Marked, Join!log
  <2> QED BY <1>1, <1>7, <2>1 DEF Join!Crash, Join!world
<1>8. ASSUME NEW g \in Graders, Join!Exit(g)
      PROVE  Join!TypeOK'
  BY <1>1, <1>8 DEF Join!Exit, Join!world, Join!log
<1>9. ASSUME NEW s \in {"expired", "superseded", "unreadable"}, Join!Close(s)
      PROVE  Join!TypeOK'
  BY <1>1, <1>9 DEF Join!Close, Join!log
<1>10. ASSUME NEW q \in Pids, NEW t \in Starts \cup {None}, Join!Reuse(q, t)
       PROVE  Join!TypeOK'
  BY <1>1, <1>10 DEF Join!Reuse, Join!log
<1>11. CASE UNCHANGED joinVars
  BY <1>1, <1>11 DEF joinVars
<1> QED BY <1>3, <1>4, <1>5, <1>6, <1>7, <1>8, <1>9, <1>10, <1>11 DEF Join!Next

\* A grader that is spending holds an event.
LEMMA SpendingStep ==
  ASSUME JoinInv, [Join!Next]_joinVars
  PROVE  Spending'
<1>1. /\ joinPc \in [Graders -> {"down", "ready", "spending"}]
      /\ event \in [Graders -> Join!Event \cup {None}] /\ Spending
  BY DEF JoinInv, Join!TypeOK
<1> USE DEF Spending
<1>2. ASSUME NEW g \in Graders, NEW e \in Join!Event, Join!Grade(g, e)
      PROVE  Spending'
  BY <1>1, <1>2 DEF Join!Grade
<1>3. ASSUME NEW g \in Graders,
             Join!Load(g) \/ Join!Replay(g) \/ Join!Bind(g) \/ Join!Crash(g) \/ Join!Exit(g)
      PROVE  Spending'
  BY <1>1, <1>3 DEF Join!Load, Join!Replay, Join!Bind, Join!Crash, Join!Exit, Join!EndJoin
<1>4. ASSUME NEW s, NEW q, NEW t, Join!Close(s) \/ Join!Reuse(q, t)
      PROVE  Spending'
  BY <1>1, <1>4 DEF Join!Close, Join!Reuse
<1>5. CASE UNCHANGED joinVars
  BY <1>1, <1>5 DEF joinVars
<1> QED BY <1>2, <1>3, <1>4, <1>5 DEF Join!Next

\* One grader at a time knows what the graders before it bound.
LEMMA BoundIsKnownStep ==
  ASSUME JoinInv, [Join!Next]_joinVars
  PROVE  BoundIsKnown'
<1> SUFFICES ASSUME undisturbed' PROVE BoundIsKnown'
  BY DEF BoundIsKnown
<1>1. /\ joinPc \in [Graders -> {"down", "ready", "spending"}] /\ spent \subseteq EventIds
      /\ mem \in [Graders -> SUBSET EventIds] /\ bindings \in [EventIds -> 0 .. 2]
      /\ torn \in BOOLEAN /\ undisturbed \in BOOLEAN
  BY DEF JoinInv, Join!TypeOK
<1>2. undisturbed
  BY <1>1 DEF Join!Next, Join!Load, Join!Grade, Join!Replay, Join!Bind, Join!Crash, Join!Exit,
              Join!Close, Join!Reuse, joinVars
<1>3. /\ ~torn /\ \A g, h \in Up : g = h
      /\ \A e \in EventIds :
           /\ bindings[e] <= 1
           /\ bindings[e] = 1 => e \in spent /\ \A g \in Up : e \in mem[g]
  BY <1>2 DEF JoinInv, BoundIsKnown
<1> USE DEF Up, BoundIsKnown
<1>4. ASSUME NEW g \in Graders, Join!Load(g)
      PROVE  BoundIsKnown'
  <2>1. \A h \in Graders : joinPc[h] = "down"
    BY <1>4 DEF Join!Load
  <2>2. Up' = {g} /\ mem'[g] = spent
    BY <1>1, <1>4, <2>1 DEF Join!Load, Join!Loaded
  <2>3. UNCHANGED <<spent, torn, bindings>>
    BY <1>4 DEF Join!Load, Join!log
  <2> HIDE DEF Up
  <2> QED BY <1>3, <2>2, <2>3
<1>5. ASSUME NEW g \in Graders, NEW e \in Join!Event, Join!Grade(g, e)
      PROVE  BoundIsKnown'
  <2>1. Up' = Up /\ UNCHANGED <<spent, torn, bindings, mem>>
    BY <1>1, <1>5 DEF Join!Grade, Join!log
  <2> HIDE DEF Up
  <2> QED BY <1>3, <2>1
<1>6. ASSUME NEW g \in Graders, Join!Replay(g)
      PROVE  BoundIsKnown'
  <2>1. Up' = Up /\ UNCHANGED <<spent, torn, bindings, mem>>
    BY <1>1, <1>6 DEF Join!Replay, Join!EndJoin, Join!log
  <2> HIDE DEF Up
  <2> QED BY <1>3, <2>1
<1>7. ASSUME NEW g \in Graders, Join!Bind(g)
      PROVE  BoundIsKnown'
  <2>1. PICK e \in EventIds : e = event[g].id
    BY <1>7 DEF Join!Bind, JoinInv, Spending, Join!Event
  <2>2. /\ Up' = Up /\ g \in Up /\ ~torn' /\ spent' = spent \cup {e}
        /\ mem' = [mem EXCEPT ![g] = @ \cup {e}] /\ e \notin mem[g]
        /\ bindings' = [bindings EXCEPT ![e] = IF @ = 0 THEN 1 ELSE 2]
    BY <1>1, <1>3, <1>7, <2>1 DEF Join!Bind, Join!EndJoin, Join!Marked, Join!IsSpent
  <2> HIDE DEF Up
  <2>3. Up = {g}
    BY <1>3, <2>2
  <2>4. bindings[e] = 0
    BY <1>1, <1>3, <2>2
  <2>5. bindings'[e] = 1 /\ mem'[g] = mem[g] \cup {e}
    BY <1>1, <2>2, <2>3, <2>4 DEF Up
  <2>6. \A d \in EventIds \ {e} : bindings'[d] = bindings[d]
    BY <1>1, <2>2
  <2> QED BY <1>3, <2>2, <2>3, <2>5, <2>6
<1>8. ASSUME NEW g \in Graders, Join!Crash(g)
      PROVE  BoundIsKnown'
  <2>1. spent \subseteq spent' /\ ~torn' /\ bindings' = bindings
    BY <1>2, <1>3, <1>8 DEF Join!Crash, Join!Marked, Join!log
  <2>2. Up' = Up \ {g} /\ \A h \in Up' : mem'[h] = mem[h]
    BY <1>1, <1>8 DEF Join!Crash
  <2> HIDE DEF Up
  <2> QED BY <1>3, <2>1, <2>2
<1>9. ASSUME NEW g \in Graders, Join!Exit(g)
      PROVE  BoundIsKnown'
  <2>1. UNCHANGED <<spent, torn, bindings>>
    BY <1>9 DEF Join!Exit, Join!log
  <2>2. Up' = Up \ {g} /\ \A h \in Up' : mem'[h] = mem[h]
    BY <1>1, <1>9 DEF Join!Exit
  <2> HIDE DEF Up
  <2> QED BY <1>3, <2>1, <2>2
<1>10. ASSUME NEW s, NEW q, NEW t, Join!Close(s) \/ Join!Reuse(q, t)
       PROVE  BoundIsKnown'
  BY <1>2, <1>3, <1>10 DEF Join!Close, Join!Reuse, Join!log
<1>11. CASE UNCHANGED joinVars
  BY <1>2, <1>3, <1>11 DEF joinVars
<1> QED BY <1>4, <1>5, <1>6, <1>7, <1>8, <1>9, <1>10, <1>11 DEF Join!Next

\* An event gets past join()'s checks with a start time it did not report itself.
LEMMA GradedIsVerified ==
  ASSUME Join!TypeOK, [Join!Next]_joinVars
  PROVE  Join!NeverSelfVerified
<1>1. /\ joinPc \in [Graders -> {"down", "ready", "spending"}]
      /\ event \in [Graders -> Join!Event \cup {None}]
  BY DEF Join!TypeOK
<1> SUFFICES ASSUME NEW g \in Graders, joinPc[g] = "ready", joinPc'[g] = "spending"
             PROVE  /\ event'[g].start = IF arm.start # None THEN arm.start
                                         ELSE process[event'[g].pid]
                    /\ arm.pid \in {None, event'[g].pid}
  BY DEF Join!NeverSelfVerified
<1>2. PICK e \in Join!Event : Join!Grade(g, e)
  <2>1. ASSUME NEW h \in Graders,
               Join!Load(h) \/ Join!Replay(h) \/ Join!Bind(h) \/ Join!Crash(h) \/ Join!Exit(h)
        PROVE  FALSE
    BY <1>1, <2>1 DEF Join!Load, Join!Replay, Join!Bind, Join!Crash, Join!Exit, Join!EndJoin
  <2>2. ASSUME NEW s, NEW q, NEW t, Join!Close(s) \/ Join!Reuse(q, t) \/ UNCHANGED joinVars
        PROVE  FALSE
    BY <2>2 DEF Join!Close, Join!Reuse, joinVars
  <2>3. ASSUME NEW h \in Graders, NEW e \in Join!Event, Join!Grade(h, e)
        PROVE  h = g
    BY <1>1, <2>3 DEF Join!Grade
  <2> QED BY <2>1, <2>2, <2>3 DEF Join!Next
<1>3. event'[g] = e
  BY <1>1, <1>2 DEF Join!Grade
<1>4. Join!Answer(e) = "graded"
  BY <1>2 DEF Join!Grade
<1>5. arm.pid \in {None, e.pid} /\ Join!Independent(e) = e.start
  BY <1>4 DEF Join!Answer
<1> QED BY <1>3, <1>5 DEF Join!Independent

THEOREM JoinInvariant == WakeSpec => []JoinInv
<1>1. WakeInit => JoinInv
  <2> SUFFICES ASSUME Join!Init PROVE JoinInv
    BY DEF WakeInit
  <2>1. Join!TypeOK
    <3>1. MaxLoads \in Nat
      BY BoundAssumption
    <3>2. 0 \in 0 .. MaxLoads
      BY <3>1
    <3>3. /\ joinPc \in [Graders -> {"down", "ready", "spending"}]
          /\ mem \in [Graders -> SUBSET EventIds] /\ event \in [Graders -> Join!Event \cup {None}]
      BY DEF Join!Init
    <3>4. bindings \in [EventIds -> 0 .. 2]
      BY DEF Join!Init
    <3> QED BY <3>2, <3>3, <3>4 DEF Join!Init, Join!TypeOK
  <2>2. Spending /\ BoundIsKnown
    BY DEF Join!Init, Spending, BoundIsKnown, Up
  <2> QED BY <2>1, <2>2 DEF JoinInv
<1>2. JoinInv /\ [WakeNext]_all => JoinInv'
  BY StepsApart, JoinTypes, SpendingStep, BoundIsKnownStep DEF JoinInv
<1> QED BY <1>1, <1>2, PTL DEF WakeSpec

\* wake_join.join(): the event's own report of a start time never verifies it, and
\* graders that follow one another bind an event once, whatever processes die, take
\* over pids or end between two lines of the spent log.
THEOREM BindingsAreSound == WakeSpec => BindingsHold
<1>1. JoinInv /\ JoinInv' /\ [WakeNext]_all => [Join!NeverSelfVerified /\ Join!BoundOnceAlone']_all
  <2> SUFFICES ASSUME JoinInv, JoinInv', [WakeNext]_all
               PROVE  Join!NeverSelfVerified /\ Join!BoundOnceAlone'
    OBVIOUS
  <2>1. Join!NeverSelfVerified
    BY StepsApart, GradedIsVerified DEF JoinInv
  <2>2. Join!BoundOnceAlone'
    BY DEF JoinInv, BoundIsKnown, Join!BoundOnceAlone
  <2> QED BY <2>1, <2>2
<1> QED BY <1>1, JoinInvariant, PTL DEF WakeSpec, BindingsHold

-----------------------------------------------------------------------------
(* The grader of deliveries.                                               *)

\* A delivery that was there when the grader opened the store is ahead of it, or
\* among what it has found.
PromiseIsKept ==
  grading = "reading" /\ promised =>
    \E k \in DOMAIN lines : lines[k].says = "delivery" /\ (k > read \/ k \in deliveries)

GradeInv ==
  /\ Grading!TypeOK /\ PromiseIsKept
  /\ grading # "answered" => outcome = None
  /\ grading = "asked" => read = 0
  /\ Grading!NotDeliveredIsFact

LEMMA GradeStep ==
  ASSUME GradeInv, [Grading!Next]_gradeVars
  PROVE  GradeInv'
<1>1. /\ exists \in BOOLEAN /\ armValid \in BOOLEAN /\ promised \in BOOLEAN
      /\ lines \in Seq([says : Grading!Says, text : Grading!Texts]) /\ read \in 0 .. Len(lines)
      /\ deliveries \subseteq 1 .. read
      /\ grading \in {"asked", "reading", "answered"} /\ outcome \in Grading!Outcomes \cup {None}
  BY DEF GradeInv, Grading!TypeOK
<1>2. PromiseIsKept /\ (grading # "answered" => outcome = None) /\ Grading!NotDeliveredIsFact
  BY DEF GradeInv
<1>3. /\ Len(lines) \in Nat /\ read \in Nat /\ read <= Len(lines) /\ DOMAIN lines = 1 .. Len(lines)
      /\ \A k \in 1 .. Len(lines) : lines[k] \in [says : Grading!Says, text : Grading!Texts]
  <2>1. Len(lines) \in Nat /\ DOMAIN lines = 1 .. Len(lines)
        /\ \A k \in 1 .. Len(lines) : lines[k] \in [says : Grading!Says, text : Grading!Texts]
    <3> DEFINE L == [says : Grading!Says, text : Grading!Texts]
    <3>1. lines \in Seq(L)
      BY <1>1
    <3> HIDE DEF L
    <3>2. Len(lines) \in Nat /\ DOMAIN lines = 1 .. Len(lines) /\ \A k \in 1 .. Len(lines) : lines[k] \in L
      BY <3>1
    <3> QED BY <3>2 DEF L
  <2> QED BY <1>1, <2>1
<1> USE DEF GradeInv, Grading!TypeOK, PromiseIsKept, Grading!NotDeliveredIsFact
<1>4. CASE Grading!Create
  BY <1>1, <1>2, <1>4 DEF Grading!Create, Grading!grader
<1>5. CASE \E s \in Grading!Says, t \in {"part", "whole"} : Grading!BeginLine(s, t)
  <2>1. PICK s \in Grading!Says, t \in {"part", "whole"} : Grading!BeginLine(s, t)
    BY <1>5
  <2>2. CASE lines' = Append(lines, [says |-> s, text |-> t])
    <3>1. [says |-> s, text |-> t] \in [says : Grading!Says, text : Grading!Texts]
      BY DEF Grading!Texts
    <3>2. lines' \in Seq([says : Grading!Says, text : Grading!Texts]) /\ read \in 0 .. Len(lines')
      BY <1>1, <1>3, <2>2, <3>1
    <3>3. \A k \in DOMAIN lines : k \in DOMAIN lines' /\ lines'[k] = lines[k]
      BY <1>1, <1>3, <2>2, <3>1
    <3> QED BY <1>1, <1>2, <2>1, <3>2, <3>3 DEF Grading!BeginLine, Grading!grader
  <2>3. CASE /\ lines # << >> /\ ~Grading!Taken
             /\ lines' = [lines EXCEPT ![Len(lines)] =
                            [says |-> IF "delivery" \in {s, Grading!Last.says} THEN "delivery" ELSE s,
                             text |-> "glued"]]
    <3>1. Len(lines) \in DOMAIN lines
      BY <1>1, <1>3, <2>3
    <3>2. lines' \in Seq([says : Grading!Says, text : Grading!Texts]) /\ Len(lines') = Len(lines)
      BY <1>1, <2>3, <3>1 DEF Grading!Says, Grading!Texts
    <3>3. \A k \in DOMAIN lines :
            /\ k \in DOMAIN lines'
            /\ lines[k].says = "delivery" => lines'[k].says = "delivery"
      BY <1>1, <1>3, <2>3, <3>1 DEF Grading!Last
    <3> QED BY <1>1, <1>2, <2>1, <3>2, <3>3 DEF Grading!BeginLine, Grading!grader
  <2> QED BY <2>1, <2>2, <2>3 DEF Grading!BeginLine
<1>6. CASE Grading!Complete
  <2>1. Len(lines) \in DOMAIN lines
    BY <1>1, <1>3, <1>6 DEF Grading!Complete
  <2>2. PICK t \in Grading!Texts : lines' = [lines EXCEPT ![Len(lines)] = [lines[Len(lines)] EXCEPT !.text = t]]
    BY <1>6, <2>1 DEF Grading!Complete, Grading!Texts
  <2>3. [lines[Len(lines)] EXCEPT !.text = t] \in [says : Grading!Says, text : Grading!Texts]
    BY <1>3, <2>1
  <2>4. lines' \in Seq([says : Grading!Says, text : Grading!Texts]) /\ Len(lines') = Len(lines)
    BY <1>1, <2>1, <2>2, <2>3
  <2>5. \A k \in DOMAIN lines : k \in DOMAIN lines' /\ lines'[k].says = lines[k].says
    BY <1>1, <1>3, <2>1, <2>2
  <2> QED BY <1>1, <1>2, <1>6, <2>4, <2>5 DEF Grading!Complete, Grading!grader
<1>7. CASE Grading!Refuse
  BY <1>1, <1>2, <1>7 DEF Grading!Refuse, Grading!Give, Grading!Outcomes
<1>8. CASE Grading!Open
  <2>1. promised' => \E k \in DOMAIN lines : lines[k].says = "delivery"
    BY <1>8 DEF Grading!Open
  <2>2. read = 0 /\ UNCHANGED <<read, lines, deliveries>>
    BY <1>8 DEF Grading!Open
  <2>3. PromiseIsKept'
    BY <1>3, <2>1, <2>2
  <2>4. promised' \in BOOLEAN
    BY <1>8 DEF Grading!Open
  <2>5. outcome' # "NOT-DELIVERED"
    BY <1>2, <1>8, AnswerAssumption DEF Grading!Open, Grading!Outcomes
  <2> QED BY <1>1, <1>2, <1>8, <2>3, <2>4, <2>5 DEF Grading!Open
<1>9. CASE Grading!ReadLine
  <2>1. read' = read + 1 /\ read' \in 0 .. Len(lines) /\ read' \in Nat
    BY <1>3, <1>9 DEF Grading!ReadLine
  <2>2. UNCHANGED <<exists, lines, armValid, promised>> /\ grading = "reading"
    BY <1>9 DEF Grading!ReadLine
  <2>3. CASE Grading!Parses(lines[read + 1])
    <3>1. deliveries' = deliveries \cup (IF Grading!Matches(lines[read + 1]) THEN {read + 1} ELSE {})
          /\ UNCHANGED <<grading, outcome>>
      BY <1>9, <2>3 DEF Grading!ReadLine
    <3>2. lines[read + 1].says = "delivery" => read + 1 \in deliveries'
      BY <2>3, <3>1 DEF Grading!Parses, Grading!Matches
    <3>3. deliveries \subseteq deliveries' /\ deliveries' \subseteq 1 .. read'
      BY <1>1, <1>3, <2>1, <3>1
    <3>4. PromiseIsKept'
      BY <1>2, <1>3, <2>1, <2>2, <3>1, <3>2, <3>3
    <3> QED BY <1>1, <1>2, <2>1, <2>2, <3>1, <3>3, <3>4
  <2>4. CASE ~Grading!Parses(lines[read + 1])
    <3>1. grading' = "answered" /\ outcome' = "UNPARSEABLE" /\ deliveries' = deliveries
      BY <1>9, <2>4 DEF Grading!ReadLine, Grading!Give
    <3>2. deliveries' \subseteq 1 .. read'
      BY <1>1, <1>3, <2>1, <3>1
    <3> QED BY <1>1, <2>1, <2>2, <3>1, <3>2 DEF Grading!Outcomes
  <2> QED BY <2>3, <2>4
<1>10. CASE Grading!Judge
  BY <1>1, <1>2, <1>3, <1>10 DEF Grading!Judge, Grading!Give, Grading!Outcomes
<1>11. CASE UNCHANGED gradeVars
  BY <1>1, <1>2, <1>11 DEF gradeVars
<1> QED BY <1>4, <1>5, <1>6, <1>7, <1>8, <1>9, <1>10, <1>11 DEF Grading!Next

THEOREM GradeInvariant == WakeSpec => []GradeInv
<1>1. WakeInit => GradeInv
  <2> SUFFICES ASSUME Grading!Init PROVE GradeInv
    BY DEF WakeInit
  <2>1. outcome # "NOT-DELIVERED"
    BY AnswerAssumption DEF Grading!Init, Grading!Outcomes
  <2>2. Grading!TypeOK
    <3>1. lines \in Seq([says : Grading!Says, text : Grading!Texts]) /\ Len(lines) = 0
      BY DEF Grading!Init
    <3>2. read \in 0 .. Len(lines) /\ deliveries \subseteq 1 .. read
      BY <3>1 DEF Grading!Init
    <3> QED BY <3>1, <3>2 DEF Grading!Init, Grading!TypeOK
  <2> QED BY <2>1, <2>2 DEF Grading!Init, GradeInv, PromiseIsKept, Grading!NotDeliveredIsFact
<1>2. GradeInv /\ [WakeNext]_all => GradeInv'
  BY StepsApart, GradeStep
<1> QED BY <1>1, <1>2, PTL DEF WakeSpec

-----------------------------------------------------------------------------
(* The detector of self-polls.                                             *)

\* The runs of a poller are in order of start, and within the time that has passed.
InOrder == \A k \in DOMAIN runs : runs[k].start <= now /\ (runs[k].end # None => runs[k].end <= now)

\* Time has passed that this run and the next share.
Shared(k) == IF runs[k].end = None THEN runs[k + 1].start < now
                                   ELSE runs[k + 1].start < runs[k].end
SharedOnce == \E k \in 1 .. Len(runs) - 1 : Shared(k)

PollInv ==
  /\ Detectors!TypeOK /\ InOrder
  /\ overlapped => SharedOnce
  /\ Detectors!Detected => met

LEMMA PollStep ==
  ASSUME PollInv, [Detectors!Next]_pollVars
  PROVE  PollInv'
<1> DEFINE Run == [start : 0 .. MaxClock, end : (0 .. MaxClock) \cup {None}]
<1>1. /\ now \in 0 .. MaxClock /\ met \in BOOLEAN /\ overlapped \in BOOLEAN
      /\ runs \in Seq(Run)
  BY DEF PollInv, Detectors!TypeOK
<1>2. /\ InOrder /\ (Detectors!Detected => met)
      /\ overlapped => SharedOnce
  BY DEF PollInv
<1>3. now \in Nat /\ MaxClock \in Nat
  BY <1>1, TimeAssumption
<1> HIDE DEF Run
<1>4. /\ Len(runs) \in Nat /\ DOMAIN runs = 1 .. Len(runs)
      /\ \A k \in 1 .. Len(runs) : runs[k] \in Run
  BY <1>1
<1>5. \A k \in 1 .. Len(runs) : /\ runs[k].start \in Nat
                                /\ runs[k].end \in Nat \cup {None}
  BY <1>4, TimeAssumption DEF Run
<1>6. CASE Detectors!Begin
  <2> DEFINE r == [start |-> now, end |-> None]
             n == Len(runs)
  <2>1. r \in Run
    BY <1>1 DEF Run
  <2>2. /\ runs' = Append(runs, r) /\ met' = (met \/ Detectors!Up # {})
        /\ UNCHANGED <<now, overlapped>>
    BY <1>6 DEF Detectors!Begin
  <2>3. r.start = now /\ r.end = None
    OBVIOUS
  <2> HIDE DEF r
  <2>4. /\ runs' \in Seq(Run) /\ Len(runs') = n + 1 /\ DOMAIN runs' = 1 .. n + 1
        /\ \A k \in 1 .. n : runs'[k] = runs[k]
        /\ runs'[n + 1] = r
    BY <1>1, <1>4, <2>1, <2>2
  <2>5. InOrder'
    BY <1>2, <1>3, <1>4, <2>2, <2>3, <2>4 DEF InOrder
  <2>6. SharedOnce => SharedOnce'
    <3>1. ASSUME NEW k \in 1 .. n - 1, Shared(k)
          PROVE  k \in 1 .. Len(runs') - 1 /\ Shared(k)'
      <4>1. k \in 1 .. n /\ k + 1 \in 1 .. n
        BY <1>4
      <4> QED BY <1>4, <2>2, <2>4, <3>1, <4>1 DEF Shared
    <3> QED BY <3>1 DEF SharedOnce
  <2>7. Detectors!Detected' => met'
    <3> SUFFICES ASSUME NEW k \in 1 .. n, Detectors!Overlaps(runs'[k], runs'[k + 1])
                 PROVE  met'
      BY <1>4, <2>4 DEF Detectors!Detected
    <3>1. CASE k = n
      <4>1. ~(now < runs[n].end) \/ runs[n].end = None
        BY <1>2, <1>3, <1>4, <1>5, <3>1 DEF InOrder
      <4>2. runs[n].end = None
        BY <1>4, <2>3, <2>4, <3>1, <4>1 DEF Detectors!Overlaps
      <4>3. n \in Detectors!Up
        BY <1>4, <3>1, <4>2 DEF Detectors!Up
      <4> QED BY <2>2, <4>3
    <3>2. CASE k \in 1 .. n - 1
      <4>1. k + 1 \in 1 .. n
        BY <1>4, <3>2
      <4>2. Detectors!Detected
        BY <2>4, <3>2, <4>1 DEF Detectors!Detected
      <4> QED BY <1>2, <2>2, <4>2
    <3>3. k = n \/ k \in 1 .. n - 1
      <4>1. n \in Nat
        BY <1>4
      <4> HIDE DEF n
      <4> QED BY <4>1
    <3> QED BY <3>1, <3>2, <3>3
  <2>8. Detectors!TypeOK'
    BY <1>1, <2>2, <2>4 DEF Detectors!TypeOK, Run
  <2> QED BY <1>2, <2>2, <2>5, <2>6, <2>7, <2>8 DEF PollInv
<1>7. ASSUME NEW q \in DOMAIN runs, Detectors!End(q)
      PROVE  PollInv'
  <2>1. /\ runs[q].end = None /\ runs' = [runs EXCEPT ![q] = [runs[q] EXCEPT !.end = now]]
        /\ UNCHANGED <<now, met, overlapped>>
    BY <1>7 DEF Detectors!End
  <2>2. [runs[q] EXCEPT !.end = now] \in Run
    BY <1>1, <1>4 DEF Run
  <2>3. [runs[q] EXCEPT !.end = now].start = runs[q].start /\ [runs[q] EXCEPT !.end = now].end = now
    BY <1>4 DEF Run
  <2>4. /\ runs' \in Seq(Run) /\ Len(runs') = Len(runs) /\ DOMAIN runs' = DOMAIN runs
        /\ \A k \in DOMAIN runs : runs'[k].start = runs[k].start
        /\ \A k \in DOMAIN runs : k # q => runs'[k].end = runs[k].end
        /\ runs'[q].end = now
    BY <1>1, <1>4, <2>1, <2>2, <2>3
  <2>5. InOrder'
    BY <1>2, <1>3, <1>4, <2>1, <2>4 DEF InOrder
  <2>6. SharedOnce => SharedOnce'
    <3>1. ASSUME NEW k \in 1 .. Len(runs) - 1, Shared(k)
          PROVE  Shared(k)'
      <4>1. k \in DOMAIN runs /\ k + 1 \in DOMAIN runs
        BY <1>4
      <4>2. runs'[k + 1].start = runs[k + 1].start /\ now' = now
        BY <2>1, <2>4, <4>1
      <4>3. CASE k = q
        <5>1. runs[k + 1].start < now
          BY <2>1, <3>1, <4>3 DEF Shared
        <5> QED BY <2>4, <4>2, <4>3, <5>1 DEF Shared
      <4>4. CASE k # q
        BY <2>4, <3>1, <4>1, <4>2, <4>4 DEF Shared
      <4> QED BY <4>3, <4>4
    <3> QED BY <2>4, <3>1 DEF SharedOnce
  <2>7. Detectors!Detected' => met'
    <3> SUFFICES ASSUME NEW k \in 1 .. Len(runs) - 1, Detectors!Overlaps(runs'[k], runs'[k + 1])
                 PROVE  met
      BY <2>1, <2>4 DEF Detectors!Detected
    <3>1. k \in DOMAIN runs /\ k + 1 \in DOMAIN runs
      BY <1>4
    <3>2. Detectors!Overlaps(runs[k], runs[k + 1])
      BY <2>1, <2>4, <3>1 DEF Detectors!Overlaps
    <3> QED BY <1>2, <3>2 DEF Detectors!Detected
  <2>8. Detectors!TypeOK'
    BY <1>1, <2>1, <2>4 DEF Detectors!TypeOK, Run
  <2> QED BY <1>2, <2>1, <2>5, <2>6, <2>7, <2>8 DEF PollInv
<1>8. CASE Detectors!Pass
  <2>1. now' = now + 1 /\ now' \in 0 .. MaxClock
    BY <1>1, <1>3, <1>8 DEF Detectors!Pass
  <2>2. /\ UNCHANGED <<runs, met>>
        /\ overlapped' = (overlapped \/ \E j, k \in Detectors!Up : j # k)
    BY <1>8 DEF Detectors!Pass
  <2>3. InOrder'
    BY <1>2, <1>3, <1>4, <1>5, <2>1, <2>2 DEF InOrder
  <2>4. (\E j, k \in Detectors!Up : j # k) => SharedOnce'
    <3> SUFFICES ASSUME \E j, k \in Detectors!Up : j # k PROVE SharedOnce'
      OBVIOUS
    <3>1. PICK j \in Detectors!Up, k \in Detectors!Up : j < k
      BY <1>4 DEF Detectors!Up
    <3>2. j \in 1 .. Len(runs) - 1 /\ j + 1 \in 1 .. Len(runs) /\ runs[j].end = None
      BY <1>4, <3>1 DEF Detectors!Up
    <3>3. runs[j + 1].start < now'
      BY <1>2, <1>3, <1>4, <1>5, <2>1, <3>2 DEF InOrder
    <3>4. Shared(j)'
      BY <2>2, <3>2, <3>3 DEF Shared
    <3> QED BY <2>2, <3>2, <3>4 DEF SharedOnce
  <2>5. SharedOnce => SharedOnce'
    <3>1. ASSUME NEW k \in 1 .. Len(runs) - 1, Shared(k)
          PROVE  Shared(k)'
      <4>1. k + 1 \in 1 .. Len(runs)
        BY <1>4
      <4> QED BY <1>3, <1>5, <2>1, <2>2, <3>1, <4>1 DEF Shared
    <3> QED BY <2>2, <3>1 DEF SharedOnce
  <2>6. Detectors!Detected' => met'
    BY <1>2, <2>2 DEF Detectors!Detected
  <2>7. overlapped' \in BOOLEAN
    BY <1>1, <2>2
  <2>8. Detectors!TypeOK'
    BY <1>1, <2>1, <2>2, <2>7 DEF Detectors!TypeOK, Run
  <2> QED BY <1>2, <2>2, <2>3, <2>4, <2>5, <2>6, <2>8 DEF PollInv
<1>9. CASE UNCHANGED pollVars
  BY <1>1, <1>2, <1>9 DEF pollVars, PollInv, InOrder, Shared, SharedOnce, Detectors!Detected, Detectors!TypeOK, Run
<1> QED BY <1>6, <1>7, <1>8, <1>9 DEF Detectors!Next

\* A shared stretch of time shows as neighbours that overlap.
LEMMA SharedIsDetected ==
  ASSUME PollInv
  PROVE  Detectors!DetectsOverlap
<1>1. overlapped => Detectors!Detected
  BY DEF PollInv, Shared, SharedOnce, Detectors!Detected, Detectors!Overlaps
<1>2. Len(runs) \in Nat
  BY DEF PollInv, Detectors!TypeOK
<1>3. Detectors!Detected => Len(runs) >= 2
  BY <1>2 DEF Detectors!Detected
<1>4. ASSUME NEW source \in BOOLEAN, NEW unstarted \in SUBSET DOMAIN runs
      PROVE  LET code == Detectors!Answer(source, unstarted) IN
             /\ code = "SELFPOLL-OK" => ~Detectors!Detected
             /\ code = "SELFPOLL-OVERLAP" => Detectors!Detected
             /\ code = "SELFPOLL-UNDETERMINED" => ~source \/ unstarted # {}
  BY <1>2, <1>3 DEF Detectors!Answer
<1> QED BY <1>1, <1>4 DEF PollInv, Detectors!DetectsOverlap

THEOREM PollInvariant == WakeSpec => []PollInv
<1>1. WakeInit => PollInv
  <2> SUFFICES ASSUME Detectors!Init PROVE PollInv
    BY DEF WakeInit
  <2>1. now \in 0 .. MaxClock
    BY TimeAssumption DEF Detectors!Init
  <2>2. Len(runs) = 0 /\ ~overlapped
    BY DEF Detectors!Init
  <2>3. ~Detectors!Detected
    BY <2>2 DEF Detectors!Detected
  <2>4. Detectors!TypeOK
    <3>1. runs \in Seq([start : 0 .. MaxClock, end : (0 .. MaxClock) \cup {None}])
      BY DEF Detectors!Init
    <3> QED BY <2>1, <3>1 DEF Detectors!Init, Detectors!TypeOK
  <2>5. InOrder
    BY <2>2 DEF Detectors!Init, InOrder
  <2> QED BY <2>2, <2>3, <2>4, <2>5 DEF PollInv
<1>2. PollInv /\ [WakeNext]_all => PollInv'
  BY StepsApart, PollStep
<1> QED BY <1>1, <1>2, PTL DEF WakeSpec

-----------------------------------------------------------------------------
(* The isolation check.                                                    *)

\* The climb computes a least fixed point: what has been seen lies in every closed
\* set around the candidate, and but for the agent being looked at it is closed
\* itself, so that at its end it is the set of the candidate's ancestors.
SeenIsAbove == \A S \in SUBSET Agents : candidate \in S /\ Isolation!Closed(S) => seen \subseteq S

SeenIsClosed == \A a \in seen \ {current} : parent[a] \in seen

Asked == walk = "asked" => chain = {}

Climbing ==
  walk = "climbing" =>
    /\ candidate \in Agents /\ candidate # seat
    /\ current \in seen /\ candidate \in seen
    /\ seen = chain \cup {candidate}
    /\ SeenIsAbove /\ SeenIsClosed

Answered ==
  /\ walk # "answered" => verdict = "none"
  /\ Isolation!NoDescendantRuns /\ Isolation!BarredIsDescendant

IsolationInv == Isolation!TypeOK /\ Asked /\ Climbing /\ Answered

\* The spawn graph does not change while check() climbs: what is above whom, and
\* which sets are closed, is the same before and after a step.
LEMMA GraphIsFixed ==
  ASSUME [Isolation!Next]_isolationVars
  PROVE  UNCHANGED Isolation!question
BY DEF Isolation!Next, Isolation!Step, Isolation!RefuseAtOnce, Isolation!StartClimb, Isolation!Climb, Isolation!CannotLook, Isolation!Decide, isolationVars, Isolation!question

\* Every variable keeps its type.
LEMMA IsolationTypes ==
  ASSUME Isolation!TypeOK, Climbing, [Isolation!Next]_isolationVars
  PROVE  Isolation!TypeOK'
<1> USE DEF Isolation!TypeOK
<1>1. CASE Isolation!RefuseAtOnce
  BY <1>1 DEF Isolation!RefuseAtOnce, Isolation!AnswerWith, Isolation!question, Isolation!Standings, Isolation!Barred
<1>2. CASE Isolation!StartClimb
  BY <1>2 DEF Isolation!StartClimb, Isolation!question
<1>3. CASE Isolation!Climb
  <2>1. current \in Agents
    BY <1>3 DEF Isolation!Climb, Climbing
  <2>2. parent[current] \in Agents
    BY <1>3, <2>1, OracleAssumption DEF Isolation!Climb, Isolation!AtTop
  <2> QED BY <1>3, <2>2 DEF Isolation!Climb, Isolation!question
<1>4. CASE Isolation!CannotLook
  BY <1>4 DEF Isolation!CannotLook, Isolation!AnswerWith, Isolation!question
<1>5. CASE Isolation!Decide
  BY <1>5 DEF Isolation!Decide, Isolation!Decision, Isolation!AnswerWith, Isolation!question, Isolation!Barred
<1>6. CASE UNCHANGED isolationVars
  BY <1>6 DEF isolationVars
<1> QED BY <1>1, <1>2, <1>3, <1>4, <1>5, <1>6 DEF Isolation!Next, Isolation!Step

\* The climb keeps to the ancestors of the candidate and leaves no gap.
LEMMA ClimbingStep ==
  ASSUME Isolation!TypeOK, Asked, Climbing, [Isolation!Next]_isolationVars
  PROVE  Climbing'
<1> SUFFICES ASSUME walk' = "climbing" PROVE Climbing'
  BY DEF Climbing
<1>1. UNCHANGED Isolation!question
  BY GraphIsFixed
<1>2. \A S : Isolation!Closed(S)' <=> Isolation!Closed(S)
  BY <1>1 DEF Isolation!Closed, Isolation!question
<1>3. CASE Isolation!StartClimb
  <2>1. candidate \in Agents /\ candidate # seat
    BY <1>3 DEF Isolation!StartClimb, Isolation!TypeOK
  <2>2. seen' = {candidate} /\ current' = candidate /\ chain' = chain
    BY <1>3 DEF Isolation!StartClimb
  <2>3. chain' = {}
    BY <1>3, <2>2 DEF Isolation!StartClimb, Asked
  <2> QED BY <1>1, <2>1, <2>2, <2>3 DEF Climbing, SeenIsAbove, SeenIsClosed, Isolation!question
<1>4. CASE Isolation!Climb
  <2>1. /\ candidate \in Agents /\ candidate # seat
        /\ current \in seen /\ candidate \in seen
        /\ seen = chain \cup {candidate}
        /\ SeenIsAbove /\ SeenIsClosed
    BY <1>4 DEF Isolation!Climb, Climbing
  <2>2. parent[current] \in Agents \ seen
    <3>1. current \in Agents
      BY <2>1 DEF Isolation!TypeOK
    <3> QED BY <1>4, <3>1, OracleAssumption DEF Isolation!Climb, Isolation!AtTop, Isolation!TypeOK
  <2>3. /\ seen' = seen \cup {parent[current]} /\ current' = parent[current]
        /\ chain' = chain \cup {parent[current]}
    BY <1>4 DEF Isolation!Climb
  <2>4. SeenIsAbove'
    <3> SUFFICES ASSUME NEW S \in SUBSET Agents, candidate \in S, Isolation!Closed(S)
                 PROVE  seen' \subseteq S
      BY <1>1, <1>2 DEF SeenIsAbove, Isolation!question
    <3>1. current \in S
      BY <2>1 DEF SeenIsAbove
    <3> QED BY <2>1, <2>2, <2>3, <3>1 DEF SeenIsAbove, Isolation!Closed
  <2>5. SeenIsClosed'
    BY <1>1, <2>1, <2>3 DEF SeenIsClosed, Isolation!question
  <2> QED BY <1>1, <2>1, <2>3, <2>4, <2>5 DEF Climbing, Isolation!question
<1>5. CASE Isolation!RefuseAtOnce \/ Isolation!CannotLook \/ Isolation!Decide
  BY <1>5 DEF Isolation!RefuseAtOnce, Isolation!CannotLook, Isolation!Decide, Isolation!AnswerWith
<1>6. CASE UNCHANGED isolationVars
  BY <1>6, <1>2 DEF isolationVars, Climbing, SeenIsAbove, SeenIsClosed
<1> QED BY <1>3, <1>4, <1>5, <1>6 DEF Isolation!Next, Isolation!Step

\* A climb that ended at the top or in a cycle has seen the candidate's ancestors,
\* so the decision tells descendants of the seat from everybody else.
LEMMA DecisionIsRight ==
  ASSUME Isolation!TypeOK, Climbing, walk = "climbing", Isolation!AtTop(parent[current])
  PROVE  /\ seat \in chain <=> Isolation!Above(seat, candidate)
         /\ \A a \in Agents : Isolation!Above(a, candidate) => parent[a] # Unavailable
<1>1. /\ candidate \in Agents /\ candidate # seat /\ candidate \in seen
      /\ seen = chain \cup {candidate} /\ seen \subseteq Agents
      /\ SeenIsAbove /\ SeenIsClosed
  BY DEF Climbing, Isolation!TypeOK
<1>2. \A a \in seen : parent[a] \in seen \/ parent[a] = None
  BY <1>1 DEF SeenIsClosed, Isolation!AtTop
<1>3. Isolation!Closed(seen)
  BY <1>2, OracleAssumption DEF Isolation!Closed
<1>4. \A a \in Agents : Isolation!Above(a, candidate) => a \in seen
  BY <1>1, <1>3 DEF Isolation!Above
<1>5. \A a \in seen : Isolation!Above(a, candidate)
  BY <1>1 DEF Isolation!Above, SeenIsAbove
<1>6. seat \in Agents
  BY DEF Isolation!TypeOK
<1>7. \A a \in seen : parent[a] # Unavailable
  BY <1>1, <1>2, OracleAssumption
<1> QED BY <1>1, <1>4, <1>5, <1>6, <1>7

\* A verdict is right when it is given, and is not changed afterwards.
LEMMA AnsweredStep ==
  ASSUME IsolationInv, [Isolation!Next]_isolationVars
  PROVE  Answered'
<1>1. UNCHANGED Isolation!question
  BY GraphIsFixed
<1>2. \A a, d : Isolation!Above(a, d)' <=> Isolation!Above(a, d)
  BY <1>1 DEF Isolation!Above, Isolation!Closed, Isolation!question
<1> USE DEF IsolationInv, Answered
<1>3. CASE Isolation!RefuseAtOnce
  <2>1. candidate = seat => Isolation!Above(seat, candidate)
    BY DEF Isolation!Above
  <2>2. verdict' \in {"NO-PROCESS-IDENTITY", "SUBJECT-SEAT"} /\ walk' = "answered"
    BY <1>3 DEF Isolation!RefuseAtOnce, Isolation!AnswerWith
  <2>3. candidate' # None => verdict' = "SUBJECT-SEAT" /\ candidate = seat
    BY <1>1, <1>3 DEF Isolation!RefuseAtOnce, Isolation!AnswerWith, Isolation!question
  <2> QED BY <1>1, <1>2, <2>1, <2>2, <2>3 DEF Isolation!NoDescendantRuns, Isolation!BarredIsDescendant, Isolation!Barred, Isolation!question
<1>4. CASE Isolation!CannotLook
  <2>1. verdict' = "GRAPH-UNAVAILABLE" /\ walk' = "answered"
    BY <1>4 DEF Isolation!CannotLook, Isolation!AnswerWith
  <2>2. current \in seen /\ current \in Agents /\ candidate \in Agents /\ SeenIsAbove
    BY <1>4 DEF Isolation!CannotLook, Climbing, Isolation!TypeOK
  <2>3. Isolation!Above(current, candidate) /\ parent[current] = Unavailable
    BY <1>4, <2>2 DEF Isolation!CannotLook, Isolation!Above, SeenIsAbove
  <2> QED BY <1>1, <1>2, <2>1, <2>2, <2>3 DEF Isolation!NoDescendantRuns, Isolation!BarredIsDescendant, Isolation!Barred, Isolation!question
<1>5. CASE Isolation!Decide
  <2>1. /\ seat \in chain <=> Isolation!Above(seat, candidate)
        /\ \A a \in Agents : Isolation!Above(a, candidate) => parent[a] # Unavailable
    BY <1>5, DecisionIsRight DEF Isolation!Decide
  <2>2. verdict' = (IF seat \in chain THEN "DESCENDANT" ELSE standing) /\ walk' = "answered"
    BY <1>5 DEF Isolation!Decide, Isolation!AnswerWith, Isolation!Decision
  <2>3. standing \in Isolation!Standings
    BY DEF Isolation!TypeOK
  <2> QED BY <1>1, <1>2, <2>1, <2>2, <2>3
          DEF Isolation!NoDescendantRuns, Isolation!BarredIsDescendant, Isolation!Barred, Isolation!Standings, Isolation!question
<1>6. CASE Isolation!StartClimb \/ Isolation!Climb
  <2>1. walk' # "answered" /\ verdict' = "none"
    BY <1>6 DEF Isolation!StartClimb, Isolation!Climb
  <2> QED BY <2>1 DEF Isolation!NoDescendantRuns, Isolation!BarredIsDescendant
<1>7. CASE UNCHANGED isolationVars
  BY <1>1, <1>2, <1>7 DEF isolationVars, Isolation!NoDescendantRuns, Isolation!BarredIsDescendant, Isolation!question
<1> QED BY <1>3, <1>4, <1>5, <1>6, <1>7 DEF Isolation!Next, Isolation!Step

THEOREM IsolationInvariant == WakeSpec => []IsolationInv
<1>1. WakeInit => IsolationInv
  <2> SUFFICES ASSUME Isolation!Init PROVE IsolationInv
    BY DEF WakeInit
  <2> QED BY DEF Isolation!Init, IsolationInv, Isolation!TypeOK, Asked, Climbing, Answered,
               Isolation!NoDescendantRuns, Isolation!BarredIsDescendant
<1>2. IsolationInv /\ [WakeNext]_all => IsolationInv'
  <2> SUFFICES ASSUME IsolationInv, [WakeNext]_all PROVE IsolationInv'
    OBVIOUS
  <2>1. [Isolation!Next]_isolationVars
    BY StepsApart
  <2>2. Asked'
    BY <2>1 DEF IsolationInv, Asked, Isolation!Next, Isolation!Step, Isolation!RefuseAtOnce,
         Isolation!StartClimb, Isolation!Climb, Isolation!CannotLook, Isolation!Decide,
         Isolation!AnswerWith, isolationVars
  <2> QED BY <2>1, <2>2, IsolationTypes, ClimbingStep, AnsweredStep DEF IsolationInv
<1> QED BY <1>1, <1>2, PTL DEF WakeSpec

\* wake_isolation.check(): a candidate below the subject seat is never allowed,
\* however deep it is, whatever cycles the graph has, and wherever the oracle
\* cannot look; and it is barred whenever the oracle could look.
THEOREM DescendantsAreBarred == WakeSpec => []Isolation!VerdictIsRight
<1>1. IsolationInv => Isolation!VerdictIsRight
  BY DEF IsolationInv, Answered, Isolation!VerdictIsRight
<1> QED BY <1>1, IsolationInvariant, PTL

-----------------------------------------------------------------------------
(* The diagnosis of a wake that does not come.                             *)


Signals == Detectors!Signals

\* When each detector is silent, and what it can say.
LEMMA DetectIIs ==
  ASSUME NEW s \in Signals
  PROVE  /\ Detectors!DetectI(s) \in {{}, {"UPSTREAM-CANONICAL-BLIND"}, {"UNDETERMINED-i"}}
         /\ Detectors!DetectI(s) = {} <=>
              /\ s.machine = "on" /\ s.items # Unreadable /\ s.pending # Unreadable
              /\ s.pending = {} => s.items = {}
         /\ s.machine = "on" /\ Unreadable \in {s.items, s.pending} =>
              Detectors!DetectI(s) = {"UNDETERMINED-i"}
         /\ s.machine # "on" => Detectors!DetectI(s) = {"UPSTREAM-CANONICAL-BLIND"}
<1>1. s.machine \in {"on", "asleep", "off"}
  BY DEF Signals, Detectors!Signals
<1>2. CASE s.machine # "on"
  BY <1>1, <1>2 DEF Detectors!DetectI
<1>3. CASE s.machine = "on" /\ Unreadable \in {s.items, s.pending}
  BY <1>3 DEF Detectors!DetectI
<1>4. CASE s.machine = "on" /\ Unreadable \notin {s.items, s.pending}
  <2>1. Detectors!DetectI(s) = IF s.items # {} /\ s.pending = {} THEN {"UPSTREAM-CANONICAL-BLIND"} ELSE {}
    BY <1>4 DEF Detectors!DetectI
  <2> QED BY <1>4, <2>1
<1> QED BY <1>2, <1>3, <1>4

LEMMA DetectJIs ==
  ASSUME NEW s \in Signals
  PROVE  /\ Detectors!DetectJ(s) \in {{}, {"OS-TASK-COMMON-MODE-DOWN"}, {"UNDETERMINED-j"}}
         /\ Detectors!DetectJ(s) = {} <=> s.task \in Detectors!OkStates
         /\ s.task = Unreadable => Detectors!DetectJ(s) = {"UNDETERMINED-j"}
<1>1. CASE s.task \in Detectors!DownStates
  <2>1. s.task \notin Detectors!OkStates
    BY <1>1 DEF Detectors!DownStates, Detectors!OkStates
  <2> QED BY <1>1, <2>1, AnswerAssumption DEF Detectors!DetectJ
<1>2. CASE s.task \in Detectors!OkStates
  <2>1. s.task \notin Detectors!DownStates
    BY <1>2 DEF Detectors!DownStates, Detectors!OkStates
  <2> QED BY <1>2, <2>1, AnswerAssumption DEF Detectors!DetectJ
<1>3. CASE s.task \notin Detectors!OkStates \cup Detectors!DownStates
  BY <1>3 DEF Detectors!DetectJ
<1> QED BY <1>1, <1>2, <1>3

LEMMA DetectKIs ==
  ASSUME NEW s \in Signals
  PROVE  /\ Detectors!DetectK(s) \in {{}, {"ARMED-WRONG-SUBJECT"}, {"UNDETERMINED-k"}}
         /\ Detectors!DetectK(s) = {} <=>
              s.resolved # Unreadable /\ s.expected # None /\ s.expected \subseteq s.resolved
         /\ s.resolved = Unreadable => Detectors!DetectK(s) = {"UNDETERMINED-k"}
BY DEF Detectors!DetectK

\* A report is healthy when no detector has anything to say and no delivery is late.
LEMMA HealthyIs ==
  ASSUME NEW s \in Signals
  PROVE  /\ "HEALTHY" \in Detectors!DetectAll(s) <=> Detectors!Found(s) = {} /\ ~s.overdue
         /\ Detectors!Found(s) \subseteq Detectors!DetectAll(s)
         /\ "DELIVERY-TIMEOUT-UNDIAGNOSED" \in Detectors!DetectAll(s) <=>
              s.overdue /\ Detectors!Found(s) \cap Detectors!Conditions = {}
         /\ Detectors!DetectAll(s) \subseteq
              Detectors!Found(s) \cup {"HEALTHY", "DELIVERY-TIMEOUT-UNDIAGNOSED"}
<1>1. /\ "HEALTHY" \notin Detectors!Found(s)
      /\ "DELIVERY-TIMEOUT-UNDIAGNOSED" \notin Detectors!Found(s)
  BY DetectIIs, DetectJIs, DetectKIs DEF Detectors!Found
<1>2. CASE s.overdue /\ Detectors!Found(s) \cap Detectors!Conditions = {}
  <2>1. Detectors!Late(s) = {"DELIVERY-TIMEOUT-UNDIAGNOSED"}
    BY <1>2 DEF Detectors!Late
  <2>2. Detectors!DetectAll(s) = Detectors!Found(s) \cup {"DELIVERY-TIMEOUT-UNDIAGNOSED"}
    BY <2>1 DEF Detectors!DetectAll
  <2> QED BY <1>1, <1>2, <2>2
<1>3. CASE ~(s.overdue /\ Detectors!Found(s) \cap Detectors!Conditions = {})
  <2>1. Detectors!Late(s) = {}
    BY <1>3 DEF Detectors!Late
  <2>2. CASE Detectors!Found(s) = {}
    <3>1. Detectors!DetectAll(s) = {"HEALTHY"} /\ ~s.overdue
      BY <1>3, <2>1, <2>2 DEF Detectors!DetectAll
    <3> QED BY <1>3, <2>2, <3>1
  <2>3. CASE Detectors!Found(s) # {}
    <3>1. Detectors!DetectAll(s) = Detectors!Found(s)
      BY <2>1, <2>3 DEF Detectors!DetectAll
    <3> QED BY <1>1, <1>3, <2>3, <3>1
  <2> QED BY <2>2, <2>3
<1> QED BY <1>2, <1>3

\* "HEALTHY" says that everything was looked at and is well.
LEMMA HealthSeen ==
  ASSUME NEW s \in Signals
  PROVE  "HEALTHY" \in Detectors!DetectAll(s) <=>
           /\ \A source \in Detectors!Sources : s[source] # Unreadable
           /\ s.machine = "on" /\ (s.pending = {} => s.items = {})
           /\ s.task \in Detectors!OkStates
           /\ s.expected # None /\ s.expected \subseteq s.resolved
           /\ ~s.overdue
<1>1. (\A source \in Detectors!Sources : s[source] # Unreadable) <=>
        /\ s.items # Unreadable /\ s.pending # Unreadable
        /\ s.task # Unreadable /\ s.resolved # Unreadable
  BY DEF Detectors!Sources
<1>2. s.task \in Detectors!OkStates => s.task # Unreadable
  BY AnswerAssumption
<1>3. Detectors!Found(s) = {} <=>
        Detectors!DetectI(s) = {} /\ Detectors!DetectJ(s) = {} /\ Detectors!DetectK(s) = {}
  BY DEF Detectors!Found
<1> QED BY <1>1, <1>2, <1>3, DetectIIs, DetectJIs, DetectKIs, HealthyIs

\* Losing sight of a source touches its own detector.
LEMMA BlindedIs ==
  ASSUME NEW s \in Signals, NEW source \in Detectors!Sources
  PROVE  /\ Detectors!Blinded(s, source) \in Signals
         /\ Detectors!Blinded(s, source)[source] = Unreadable
         /\ Detectors!Blinded(s, source).overdue = s.overdue
         /\ Detectors!Found(s) \ Detectors!Own(source) =
              Detectors!Found(Detectors!Blinded(s, source)) \ Detectors!Own(source)
         /\ Detectors!Found(Detectors!Blinded(s, source)) \cap Detectors!Conditions
              \subseteq Detectors!Found(s)
<1> DEFINE b == Detectors!Blinded(s, source)
<1>1. b \in Signals /\ b[source] = Unreadable
  <2>1. b = [s EXCEPT ![source] = Unreadable]
    BY DEF Detectors!Blinded
  <2> HIDE DEF b
  <2> DEFINE Some == (SUBSET Items) \cup {Unreadable}
             Task == Detectors!DownStates \cup Detectors!OkStates \cup {"Queued", None, Unreadable}
             Expected == (SUBSET Subjects) \cup {None}
             Resolved == (SUBSET Subjects) \cup {Unreadable}
             Rec == [items : Some, pending : Some, task : Task, expected : Expected,
                     resolved : Resolved, machine : {"on", "asleep", "off"}, overdue : BOOLEAN]
  <2>2. /\ Signals = Rec
        /\ Unreadable \in Some /\ Unreadable \in Task /\ Unreadable \in Resolved
    <3>1. Signals = Rec
      BY Zenon DEF Signals, Detectors!Signals
    <3>2. Unreadable \in Some /\ Unreadable \in Task /\ Unreadable \in Resolved
      OBVIOUS
    <3> QED BY <3>1, <3>2
  <2> HIDE DEF Some, Task, Expected, Resolved
  <2>3. CASE source \in {"items", "pending", "task", "resolved"}
    BY <2>1, <2>2, <2>3
  <2> QED BY <2>3 DEF Detectors!Sources
<1>2. \A f \in {"items", "pending", "task", "expected", "resolved", "machine", "overdue"} \ {source} :
        b[f] = s[f]
  BY DEF Detectors!Blinded, Signals, Detectors!Signals
<1> HIDE DEF b
<1>3. CASE source \in {"items", "pending"}
  <2>1. /\ b.task = s.task /\ b.resolved = s.resolved /\ b.expected = s.expected
        /\ b.machine = s.machine /\ b.overdue = s.overdue
    BY <1>2, <1>3
  <2>2. Detectors!DetectJ(b) = Detectors!DetectJ(s) /\ Detectors!DetectK(b) = Detectors!DetectK(s)
    BY <2>1 DEF Detectors!DetectJ, Detectors!DetectK
  <2>3. Detectors!Own(source) = {"UPSTREAM-CANONICAL-BLIND", "UNDETERMINED-i"}
    BY <1>3 DEF Detectors!Own
  <2>4. /\ Detectors!DetectI(b) \subseteq Detectors!Own(source)
        /\ Detectors!DetectI(s) \subseteq Detectors!Own(source)
    BY <1>1, <2>3, DetectIIs
  <2>5. Detectors!DetectI(b) = {"UNDETERMINED-i"} \/ Detectors!DetectI(b) = Detectors!DetectI(s)
    BY <1>1, <1>3, <2>1, DetectIIs
  <2> QED BY <1>1, <2>1, <2>2, <2>4, <2>5 DEF Detectors!Found, Detectors!Conditions, b
<1>4. CASE source = "task"
  <2>1. /\ b.items = s.items /\ b.pending = s.pending /\ b.resolved = s.resolved
        /\ b.expected = s.expected /\ b.machine = s.machine /\ b.overdue = s.overdue
    BY <1>2, <1>4
  <2>2. Detectors!DetectI(b) = Detectors!DetectI(s) /\ Detectors!DetectK(b) = Detectors!DetectK(s)
    BY <2>1 DEF Detectors!DetectI, Detectors!DetectK
  <2>3. Detectors!Own(source) = {"OS-TASK-COMMON-MODE-DOWN", "UNDETERMINED-j"}
    BY <1>4 DEF Detectors!Own
  <2>4. Detectors!DetectJ(b) = {"UNDETERMINED-j"} /\ Detectors!DetectJ(s) \subseteq Detectors!Own(source)
    BY <1>1, <1>4, <2>3, DetectJIs
  <2> QED BY <1>1, <2>1, <2>2, <2>3, <2>4 DEF Detectors!Found, Detectors!Conditions, b
<1>5. CASE source = "resolved"
  <2>1. /\ b.items = s.items /\ b.pending = s.pending /\ b.task = s.task
        /\ b.expected = s.expected /\ b.machine = s.machine /\ b.overdue = s.overdue
    BY <1>2, <1>5
  <2>2. Detectors!DetectI(b) = Detectors!DetectI(s) /\ Detectors!DetectJ(b) = Detectors!DetectJ(s)
    BY <2>1 DEF Detectors!DetectI, Detectors!DetectJ
  <2>3. Detectors!Own(source) = {"ARMED-WRONG-SUBJECT", "UNDETERMINED-k"}
    BY <1>5 DEF Detectors!Own
  <2>4. Detectors!DetectK(b) = {"UNDETERMINED-k"} /\ Detectors!DetectK(s) \subseteq Detectors!Own(source)
    BY <1>1, <1>5, <2>3, DetectKIs
  <2> QED BY <1>1, <2>1, <2>2, <2>3, <2>4 DEF Detectors!Found, Detectors!Conditions, b
<1> QED BY <1>3, <1>4, <1>5 DEF Detectors!Sources

LEMMA DiagnosesApart ==
  ASSUME signal \in Signals
  PROVE  Detectors!ToldApart
<1>1. Detectors!HealthIsSeen
  BY HealthSeen DEF Detectors!HealthIsSeen
<1>2. Detectors!BlindnessIsLocal
  <2> SUFFICES ASSUME NEW source \in Detectors!Sources
               PROVE  LET told == Detectors!DetectAll(signal)
                          blind == Detectors!DetectAll(Detectors!Blinded(signal, source))
                          late == {"DELIVERY-TIMEOUT-UNDIAGNOSED"}
                      IN  /\ "HEALTHY" \notin blind
                          /\ told \ (Detectors!Own(source) \cup {"HEALTHY"}) \subseteq blind
                          /\ blind \ told \subseteq Detectors!Own(source) \cup late
                          /\ signal.overdue => blind \cap (Detectors!Conditions \cup late) # {}
    BY DEF Detectors!BlindnessIsLocal
  <2> DEFINE b == Detectors!Blinded(signal, source)
  <2>1. b \in Signals /\ b[source] = Unreadable /\ b.overdue = signal.overdue
    BY BlindedIs
  <2>2. /\ Detectors!Found(signal) \ Detectors!Own(source) = Detectors!Found(b) \ Detectors!Own(source)
        /\ Detectors!Found(b) \cap Detectors!Conditions \subseteq Detectors!Found(signal)
    BY BlindedIs
  <2> HIDE DEF b
  <2>3. "HEALTHY" \notin Detectors!DetectAll(b)
    BY <2>1, HealthSeen
  <2>4. Detectors!DetectAll(signal) \ (Detectors!Own(source) \cup {"HEALTHY"})
          \subseteq Detectors!DetectAll(b)
    BY <2>1, <2>2, HealthyIs
  <2>5. Detectors!DetectAll(b) \ Detectors!DetectAll(signal)
          \subseteq Detectors!Own(source) \cup {"DELIVERY-TIMEOUT-UNDIAGNOSED"}
    BY <2>1, <2>2, <2>3, HealthyIs
  <2>6. signal.overdue => Detectors!DetectAll(b) \cap
          (Detectors!Conditions \cup {"DELIVERY-TIMEOUT-UNDIAGNOSED"}) # {}
    BY <2>1, HealthyIs
  <2> QED BY <2>3, <2>4, <2>5, <2>6 DEF b
<1> QED BY <1>1, <1>2 DEF Detectors!ToldApart

THEOREM SignalInvariant == WakeSpec => [](signal \in Signals)
<1>1. WakeInit => signal \in Signals
  <2>1. Detectors!AllWell \in Signals
    BY DEF Detectors!AllWell, Signals, Detectors!Signals, Detectors!OkStates
  <2> QED BY <2>1 DEF WakeInit, Detectors!SignalInit, Signals
<1>2. signal \in Signals /\ [WakeNext]_all => (signal \in Signals)'
  BY StepsApart
<1> QED BY <1>1, <1>2, PTL DEF WakeSpec

-----------------------------------------------------------------------------
(* The instruments together.                                               *)

\* wake_arm.py: whatever minters race, stall, fail and crash, the arms whose token is
\* accepted in a scope are the one open arm, and audit() finds no broken link that
\* nobody broke; and every variable of the instruments has its type.
THEOREM OneArmIsOpen == WakeSpec => []StoreIsSound
<1>1. ArmInv /\ JoinInv /\ IsolationInv /\ GradeInv /\ PollInv => StoreIsSound
  <2> SUFFICES ASSUME ArmInv, JoinInv, IsolationInv, GradeInv, PollInv
               PROVE  StoreIsSound
    OBVIOUS
  <2>1. TypesOK
    BY DEF ArmInv, JoinInv, IsolationInv, GradeInv, PollInv, TypesOK
  <2>2. OneOpenArm
    BY AcceptedIsOpen DEF OneOpenArm
  <2>3. HonestAudit
    BY DEF ArmInv, HonestAudit
  <2> QED BY <2>1, <2>2, <2>3 DEF StoreIsSound
<1> QED BY <1>1, ArmInvariant, JoinInvariant, IsolationInvariant, GradeInvariant, PollInvariant, PTL

\* wake_grade.py, wake_isolation.py, wake_selfpoll.py, wake_conditions.py: what each
\* instrument answers is the case in the store, the spawn graph, the runs and the
\* signals it looks at, whatever moves while it looks.
THEOREM AnswersAreFacts == WakeSpec => []GradesAreFacts
<1>1. IsolationInv /\ GradeInv /\ PollInv /\ signal \in Signals => GradesAreFacts
  <2> SUFFICES ASSUME IsolationInv, GradeInv, PollInv, signal \in Signals
               PROVE  GradesAreFacts
    OBVIOUS
  <2>1. Isolation!VerdictIsRight
    BY DEF IsolationInv, Answered, Isolation!VerdictIsRight
  <2>2. Grading!NotDeliveredIsFact
    BY DEF GradeInv
  <2> QED BY <2>1, <2>2, SharedIsDetected, DiagnosesApart DEF GradesAreFacts
<1> QED BY <1>1, IsolationInvariant, GradeInvariant, PollInvariant, SignalInvariant, PTL

=============================================================================
