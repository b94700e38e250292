--------------------------- MODULE GitSync_proofs ---------------------------
(***************************************************************************)
(* For any peers, grants, number of commits and attempts: GitSync keeps    *)
(* its types, never spends a grant twice, loses no append, reports a race  *)
(* as it was, and implements GrantLedger.                                  *)
(***************************************************************************)
EXTENDS GitSync, FiniteSetTheorems, WellFoundedInduction, SequenceTheorems, TLAPS

\* Every nonempty set of naturals has a least element.
LEMMA LeastNat ==
  ASSUME NEW S \in SUBSET Nat, S # {}
  PROVE  \E m \in S : \A k \in S : m <= k
<1> DEFINE T == {1 .. n : n \in S}
<1>1. IsWellFoundedOn(StrictSubsetOrdering(Nat), FiniteSubsetsOf(Nat))
  BY FS_StrictSubsetOrderingWellFounded
<1>2. T \subseteq FiniteSubsetsOf(Nat)
  <2> SUFFICES ASSUME NEW n \in S PROVE 1 .. n \in FiniteSubsetsOf(Nat)
    OBVIOUS
  <2>1. IsFiniteSet(1 .. n)
    BY FS_Interval
  <2> QED BY <2>1 DEF FiniteSubsetsOf
<1>3. T # {}
  OBVIOUS
<1>4. PICK x \in T : \A y \in T : <<y, x>> \notin StrictSubsetOrdering(Nat)
  <2> HIDE DEF T
  <2> QED BY <1>1, <1>2, <1>3, WFMin
<1>5. PICK m \in S : x = 1 .. m
  OBVIOUS
<1>6. ASSUME NEW k \in S, k < m PROVE FALSE
  <2>1. 1 .. k \in T
    OBVIOUS
  <2>2. 1 .. k \subseteq 1 .. m /\ m \in 1 .. m /\ m \notin 1 .. k
    BY <1>6
  <2>3. <<1 .. k, 1 .. m>> \in StrictSubsetOrdering(Nat)
    BY <2>2 DEF StrictSubsetOrdering
  <2> QED BY <1>4, <1>5, <2>1, <2>3
<1> QED BY <1>6

\* The fork point exists, and is the last commit of h that t contains.
LEMMA ForkProperties ==
  ASSUME NEW h \in History, NEW t \in History
  PROVE  /\ Fork(h, t) \in 0 .. Len(h)
         /\ Fork(h, t) <= Len(t)
         /\ Contains(t, h, Fork(h, t))
         /\ \A i \in 1 .. Len(h) : Contains(t, h, i) => i <= Fork(h, t)
<1> USE DEF History
<1>1. Len(h) \in Nat /\ Len(t) \in Nat
  OBVIOUS
<1> DEFINE Ends(n) == n = Len(h) \/ n = Len(t) \/ h[n + 1] # t[n + 1]
           S == {n \in 0 .. Len(h) : Ends(n)}
<1>2. PICK m \in S : \A k \in S : m <= k
  <2>1. S \in SUBSET Nat
    BY <1>1
  <2>2. Len(h) \in S
    BY <1>1
  <2> HIDE DEF S
  <2> QED BY <2>1, <2>2, LeastNat
<1>3. ASSUME NEW k \in 0 .. m - 1, Ends(k) PROVE FALSE
  <2>1. k \in S
    BY <1>1, <1>2, <1>3
  <2>2. m <= k
    BY <1>2, <2>1
  <2> QED BY <1>1, <1>2, <2>2
<1>4. \A j \in 1 .. m : h[j] = t[j]
  <2> TAKE j \in 1 .. m
  <2>1. j - 1 \in 0 .. m - 1
    BY <1>1, <1>2
  <2>2. ~ Ends(j - 1)
    <3> HIDE DEF Ends
    <3> QED BY <1>3, <2>1
  <2>3. (j - 1) + 1 = j
    OBVIOUS
  <2> QED BY <2>2, <2>3
<1>5. m <= Len(t)
  <2> SUFFICES ASSUME m > Len(t) PROVE FALSE
    BY <1>1, <1>2
  <2>1. Len(t) \in 0 .. m - 1
    BY <1>1, <1>2
  <2> QED BY <1>3, <2>1
<1>6. Contains(t, h, m) /\ Ends(m)
  BY <1>2, <1>4, <1>5 DEF Contains
<1>7. Fork(h, t) \in 0 .. Len(h) /\ Contains(t, h, Fork(h, t)) /\ Ends(Fork(h, t))
  BY <1>2, <1>6 DEF Fork
<1>8. ASSUME NEW i \in 1 .. Len(h), Contains(t, h, i), i > Fork(h, t) PROVE FALSE
  <2>1. Fork(h, t) + 1 \in 1 .. i
    BY <1>1, <1>7, <1>8
  <2> QED BY <1>1, <1>7, <1>8, <2>1 DEF Contains
<1> QED BY <1>1, <1>7, <1>8 DEF Contains

\* A part of a clean history that keeps its order and its beginning is clean.
LEMMA CleanPrefix ==
  ASSUME NEW h \in History, NEW t \in History, Extends(h, t), Clean(h)
  PROVE  Clean(t)
BY DEF History, Extends, Contains, Clean

\* Git appends a commit to a clean history: it is no reservation, or its
\* grant is open.
LEMMA CleanAppend ==
  ASSUME NEW h \in History, NEW c \in Commit, Clean(h),
         c.kind = "reserve" => Open(c.grant, h)
  PROVE  Clean(Append(h, c))
<1> DEFINE e == Append(h, c)
<1>1. Len(h) \in Nat /\ DOMAIN e = 1 .. Len(h) + 1 /\ DOMAIN h = 1 .. Len(h)
  BY DEF History
<1>2. e[Len(h) + 1] = c /\ \A i \in 1 .. Len(h) : e[i] = h[i]
  BY DEF History
<1> SUFFICES ASSUME NEW i \in DOMAIN e, e[i].kind = "reserve",
                    NEW j \in 1 .. i - 1, e[j].kind \in {"reserve", "revoke"}
             PROVE  e[j].grant # e[i].grant
  BY DEF Clean
<1>3. CASE i <= Len(h)
  BY <1>1, <1>2, <1>3 DEF Clean
<1>4. CASE i = Len(h) + 1
  BY <1>1, <1>2, <1>4 DEF Open, Commits
<1> QED BY <1>1, <1>3, <1>4

\* Commits that are no reservations may follow a clean history.
LEMMA CleanRebase ==
  ASSUME NEW t \in History, NEW own \in History, Clean(t),
         \A i \in DOMAIN own : own[i].kind # "reserve"
  PROVE  Clean(t \o own)
<1> DEFINE e == t \o own
<1>1. /\ Len(t) \in Nat /\ Len(own) \in Nat
      /\ DOMAIN e = 1 .. Len(t) + Len(own) /\ DOMAIN t = 1 .. Len(t)
      /\ DOMAIN own = 1 .. Len(own)
  BY DEF History
<1>2. \A i \in 1 .. Len(t) + Len(own) :
        e[i] = IF i <= Len(t) THEN t[i] ELSE own[i - Len(t)]
  BY DEF History
<1> SUFFICES ASSUME NEW i \in DOMAIN e, e[i].kind = "reserve",
                    NEW j \in 1 .. i - 1, e[j].kind \in {"reserve", "revoke"}
             PROVE  e[j].grant # e[i].grant
  BY DEF Clean
<1>3. i <= Len(t)
  <2> SUFFICES ASSUME i > Len(t) PROVE FALSE
    BY <1>1
  <2>1. i - Len(t) \in DOMAIN own /\ e[i] = own[i - Len(t)]
    BY <1>1, <1>2
  <2> QED BY <2>1
<1> QED BY <1>1, <1>2, <1>3 DEF Clean

\* Leaving a commit out of a history leaves a history.
LEMMA WithoutType ==
  ASSUME NEW h \in History, NEW k \in 1 .. Len(h)
  PROVE  Without(h, k) \in History
<1>1. Len(h) - 1 \in Nat /\ \A i \in 1 .. Len(h) : h[i] \in Commit
  BY DEF History
<1>2. \A i \in 1 .. Len(h) - 1 : Without(h, k)[i] \in Commit
  BY <1>1 DEF Without
<1> QED BY <1>1, <1>2 DEF Without, History

\* Dropping one commit of a clean history leaves it clean.
LEMMA CleanWithout ==
  ASSUME NEW h \in History, Clean(h), NEW k \in 1 .. Len(h)
  PROVE  Clean(Without(h, k))
<1> DEFINE e == Without(h, k)
<1>1. Len(h) \in Nat /\ DOMAIN h = 1 .. Len(h)
  BY DEF History
<1>2. /\ DOMAIN e = 1 .. Len(h) - 1
      /\ \A i \in 1 .. Len(h) - 1 : e[i] = IF i < k THEN h[i] ELSE h[i + 1]
  BY DEF Without
<1> HIDE DEF e
<1>3. ASSUME NEW i \in DOMAIN e, e[i].kind = "reserve",
             NEW j \in 1 .. i - 1, e[j].kind \in {"reserve", "revoke"}
      PROVE  e[j].grant # e[i].grant
  <2>1. PICK x \in 1 .. Len(h), y \in 1 .. Len(h) : y < x /\ e[i] = h[x] /\ e[j] = h[y]
    <3>1. CASE i < k
      BY <1>1, <1>2, <3>1
    <3>2. CASE i >= k
      <4>1. /\ i + 1 \in 1 .. Len(h) /\ j \in 1 .. Len(h)
            /\ j + 1 \in 1 .. Len(h) /\ j + 1 < i + 1
        BY <1>1, <1>2
      <4>2. e[i] = h[i + 1] /\ e[j] \in {h[j], h[j + 1]}
        BY <1>1, <1>2, <3>2
      <4> QED BY <4>1, <4>2
    <3> QED BY <1>1, <1>2, <3>1, <3>2
  <2> QED BY <1>1, <1>3, <2>1 DEF Clean
<1> QED BY <1>3 DEF Clean, e

\* Extends is reflexive and transitive.
LEMMA ExtendsPreorder ==
  ASSUME NEW a \in History, NEW b \in History, NEW c \in History
  PROVE  Extends(a, a) /\ (Extends(a, b) /\ Extends(b, c) => Extends(a, c))
<1>1. Len(a) \in Nat /\ Len(b) \in Nat /\ Len(c) \in Nat
  BY DEF History
<1> QED BY <1>1 DEF Extends, Contains

\* What the clone has beyond its fork point, commit by commit.
LEMMA SuffixProperties ==
  ASSUME NEW h \in History, NEW f \in 0 .. Len(h)
  PROVE  /\ SubSeq(h, f + 1, Len(h)) \in History
         /\ DOMAIN SubSeq(h, f + 1, Len(h)) = 1 .. Len(h) - f
         /\ \A i \in 1 .. Len(h) - f : SubSeq(h, f + 1, Len(h))[i] = h[f + i]
<1>1. Len(h) \in Nat /\ \A i \in 1 .. Len(h) : h[i] \in Commit
  BY DEF History
<1> DEFINE g == f + 1
<1>2. g \in Int /\ Len(h) \in Int /\ \A i \in g .. Len(h) : h[i] \in Commit
  BY <1>1
<1>3. /\ SubSeq(h, g, Len(h)) \in Seq(Commit)
      /\ Len(SubSeq(h, g, Len(h))) = IF g <= Len(h) THEN Len(h) - g + 1 ELSE 0
      /\ \A i \in 1 .. Len(h) - g + 1 : SubSeq(h, g, Len(h))[i] = h[g + i - 1]
  <2> HIDE DEF g
  <2> QED BY <1>2, SubSeqProperties
<1>4. Len(SubSeq(h, g, Len(h))) = Len(h) - f
  <2> HIDE DEF g
  <2>1. g = f + 1
    BY DEF g
  <2> QED BY <1>1, <1>3, <2>1
<1>5. DOMAIN SubSeq(h, g, Len(h)) = 1 .. Len(h) - f
  <2> HIDE DEF g
  <2> QED BY <1>3, <1>4, LenProperties
<1>6. \A i \in 1 .. Len(h) - f : SubSeq(h, g, Len(h))[i] = h[f + i]
  <2> HIDE DEF g
  <2>1. g = f + 1
    BY DEF g
  <2> SUFFICES ASSUME NEW i \in 1 .. Len(h) - f
               PROVE  SubSeq(h, g, Len(h))[i] = h[f + i]
    OBVIOUS
  <2>2. i \in 1 .. Len(h) - g + 1 /\ g + i - 1 = f + i
    BY <1>1, <2>1
  <2> QED BY <1>3, <2>2
<1> QED BY <1>3, <1>5, <1>6 DEF History

\* What a rebase replays, and what it makes, are histories.
LEMMA RebasedType ==
  ASSUME NEW p \in Peers, head[p] \in History, tracking[p] \in History
  PROVE  Own(p) \in History /\ Rebased(p) \in History
<1>1. Own(p) \in History
  BY ForkProperties, SuffixProperties DEF Own
<1>2. Rebased(p) \in History
  BY <1>1, ConcatProperties DEF Rebased, History
<1> QED BY <1>1, <1>2

-----------------------------------------------------------------------------
(* Types.                                                                  *)

\* The inductive form of TypeOK: commits are counted, so they are finite, and
\* a running call has a class and a turn of the loop.
TypeInv ==
  /\ TypeOK
  /\ IsFiniteSet(made)
  /\ \A p \in Peers : pc[p] # "idle" => mode[p] \in Modes /\ attempt[p] # 0

\* The types hold at the start.
LEMMA TypeInit == Init => TypeInv
<1> SUFFICES ASSUME Init PROVE TypeInv
  OBVIOUS
<1>1. << >> \in History /\ Len(<< >>) = 0
  BY DEF History
<1>2. IsFiniteSet({})
  BY FS_EmptySet
<1>3. 0 \in 0 .. MaxAttempts
  BY BoundsAssumption
<1> QED BY <1>1, <1>2, <1>3
        DEF Init, TypeInv, TypeOK, NotBegun, Extends, Contains

\* A recorded commit keeps the types.
LEMMA RecordType ==
  ASSUME TypeInv, NEW p \in Peers, NEW path \in Peers, NEW g \in Grants \cup {NoGrant},
         NEW kind \in {"append", "reserve", "revoke"}, Record(p, kind, path, g)
  PROVE  TypeInv'
<1> DEFINE c == [id |-> Cardinality(made), by |-> p, path |-> path,
                 kind |-> kind, grant |-> g]
<1>1. c \in Commit
  BY FS_CardinalityType DEF TypeInv, Commit
<1>2. made' \subseteq Commit /\ IsFiniteSet(made')
  BY <1>1, FS_AddElement DEF Record, TypeInv, TypeOK
<1>3. head' \in [Peers -> History]
  BY <1>1 DEF Record, TypeInv, TypeOK, History
<1> QED BY <1>2, <1>3 DEF Record, publishVars, TypeInv, TypeOK

\* The end of a call keeps the types of its locals.
LEMMA EndCallType ==
  ASSUME TypeInv, NEW p \in Peers, EndCall(p)
  PROVE  /\ pc' \in [Peers -> {"idle", "push", "fetch", "classify"}]
         /\ mode' \in [Peers -> Modes \cup {"none"}]
         /\ attempt' \in [Peers -> 0 .. MaxAttempts]
         /\ begun' \in [Peers -> [head : History, len : Nat]]
         /\ made' \subseteq Commit /\ IsFiniteSet(made')
         /\ \A q \in Peers : pc'[q] # "idle" => mode'[q] \in Modes /\ attempt'[q] # 0
<1>1. 0 \in 0 .. MaxAttempts /\ NotBegun \in [head : History, len : Nat]
  BY BoundsAssumption DEF NotBegun, History
<1> QED BY <1>1 DEF EndCall, TypeInv, TypeOK

\* Every step keeps the types.
LEMMA TypeStep == TypeInv /\ [Next]_vars => TypeInv'
<1> SUFFICES ASSUME TypeInv, [Next]_vars PROVE TypeInv'
  OBVIOUS
<1>1. CASE UNCHANGED vars
  BY <1>1 DEF vars, TypeInv, TypeOK
<1>2. ASSUME NEW p \in Peers, Caller(p) PROVE TypeInv'
  <2>1. ASSUME NEW path \in Peers, CommitAppend(p, path) PROVE TypeInv'
    BY <2>1, RecordType DEF CommitAppend
  <2>2. ASSUME NEW g \in Grants, CommitRevoke(p, g) PROVE TypeInv'
    BY <2>2, RecordType DEF CommitRevoke
  <2>3. ASSUME NEW g \in Grants, Reserve(p, g) PROVE TypeInv'
    BY <2>3, RecordType DEF Reserve
  <2>4. CASE Integrate(p)
    BY <2>4 DEF Integrate, publishVars, TypeInv, TypeOK
  <2>5. CASE Separate(p)
    <3>1. PICK i \in Fork(head[p], tracking[p]) + 1 .. Len(head[p]) :
            head' = [head EXCEPT ![p] = Without(@, i)]
      BY <2>5 DEF Separate
    <3>2. i \in 1 .. Len(head[p])
      <4>1. /\ head[p] \in History /\ tracking[p] \in History
            /\ Len(head[p]) \in Nat
        BY DEF TypeInv, TypeOK, History
      <4>2. Fork(head[p], tracking[p]) \in 0 .. Len(head[p])
        BY <4>1, ForkProperties
      <4> QED BY <3>1, <4>1, <4>2
    <3>3. Without(head[p], i) \in History
      BY <3>2, WithoutType DEF TypeInv, TypeOK
    <3> QED BY <2>5, <3>1, <3>3 DEF Separate, publishVars, TypeInv, TypeOK
  <2>6. CASE Poll(p)
    BY <2>6, ExtendsPreorder DEF Poll, publishVars, TypeInv, TypeOK
  <2>7. ASSUME NEW m \in Modes, PublishBegin(p, m) PROVE TypeInv'
    <3>1. 1 \in 0 .. MaxAttempts
      BY BoundsAssumption
    <3>2. [head |-> head[p], len |-> Len(remote)] \in [head : History, len : Nat]
      BY DEF TypeInv, TypeOK, History
    <3> QED BY <2>7, <3>1, <3>2 DEF PublishBegin, TypeInv, TypeOK
  <2> QED BY <1>2, <2>1, <2>2, <2>3, <2>4, <2>5, <2>6, <2>7 DEF Caller
<1>3. ASSUME NEW p \in Peers, Publish(p) PROVE TypeInv'
  <2>1. ASSUME FastForward(p), remote' = head[p]
        PROVE  remote' \in History /\ \A q \in Peers : Extends(remote', tracking[q])
    BY <2>1, ExtendsPreorder DEF FastForward, TypeInv, TypeOK
  <2>2. CASE PushAccepted(p)
    BY <2>1, <2>2, ExtendsPreorder, EndCallType
       DEF PushAccepted, Return, Actions, TypeInv, TypeOK
  <2>3. CASE PushAckLost(p)
    BY <2>1, <2>3 DEF PushAckLost, TypeInv, TypeOK
  <2>4. CASE PushRejected(p)
    BY <2>4 DEF PushRejected, TypeInv, TypeOK
  <2>5. CASE FetchOK(p)
    BY <2>5, ExtendsPreorder DEF FetchOK, TypeInv, TypeOK
  <2>6. CASE FetchFailed(p)
    BY <2>6, EndCallType DEF FetchFailed, Return, Actions, TypeInv, TypeOK
  <2>7. CASE CountFailed(p)
    BY <2>7, EndCallType DEF CountFailed, Return, Actions, TypeInv, TypeOK
  <2>8. CASE NoContention(p)
    BY <2>8, EndCallType DEF NoContention, Return, Actions, TypeInv, TypeOK
  <2>9. CASE RefuseMixed(p)
    BY <2>9, EndCallType DEF RefuseMixed, Return, Actions, TypeInv, TypeOK
  <2>10. CASE DropReservation(p)
    BY <2>10, EndCallType DEF DropReservation, Dropped, Return, Actions, TypeInv, TypeOK
  <2>11. CASE RebaseConflict(p)
    BY <2>11, EndCallType DEF RebaseConflict, Return, Actions, TypeInv, TypeOK
  <2>12. CASE Rebase(p)
    <3>1. head' \in [Peers -> History]
      BY <2>12, RebasedType DEF Rebase, TypeInv, TypeOK
    <3>2. CASE attempt[p] < MaxAttempts /\ attempt' = [attempt EXCEPT ![p] = @ + 1]
      <4>1. attempt[p] + 1 \in 0 .. MaxAttempts /\ attempt[p] + 1 # 0
        BY <3>2, BoundsAssumption DEF TypeInv, TypeOK
      <4> QED BY <2>12, <3>1, <3>2, <4>1, BoundsAssumption
              DEF Rebase, Return, EndCall, TypeInv, TypeOK
    <3>3. CASE Return(p, "lane-down")
      BY <2>12, <3>1, <3>3, EndCallType DEF Rebase, Return, Actions, TypeInv, TypeOK
    <3> QED BY <2>12, <3>2, <3>3 DEF Rebase
  <2> QED BY <1>3, <2>2, <2>3, <2>4, <2>5, <2>6, <2>7, <2>8, <2>9, <2>10, <2>11, <2>12
          DEF Publish
<1>4. ASSUME NEW p \in Peers, Crash(p) PROVE TypeInv'
  BY <1>4, EndCallType DEF Crash, TypeInv, TypeOK
<1> QED BY <1>1, <1>2, <1>3, <1>4 DEF Next

\* Types hold of every instance, and every clone's tracking branch is a
\* beginning of the remote: no step rewrites published history.
THEOREM TypeCorrect == Spec => []TypeOK
<1>1. TypeInv => TypeOK
  BY DEF TypeInv
<1> QED BY <1>1, TypeInit, TypeStep, PTL DEF Spec

-----------------------------------------------------------------------------
(* No grant is spent twice.                                                *)

\* Every reservation of p's branch is in the history p last fetched.
ReservesShared(p) ==
  \A i \in 1 .. Len(head[p]) :
    head[p][i].kind = "reserve" => Contains(tracking[p], head[p], i)

\* NoDoubleSpend is not inductive: a push copies a local branch, so those must
\* be clean too; and a branch stays clean under a rebase only because what an
\* append-class publish replays holds no reservation.
SpendInv ==
  /\ TypeInv
  /\ NoDoubleSpend
  /\ \A p \in Peers : Clean(head[p])
  /\ \A p \in Peers : pc[p] # "idle" /\ ~ReservationClass(p) => ReservesShared(p)

\* A reservation is pending, or shared.
LEMMA PendingOrShared ==
  ASSUME TypeOK, NEW p \in Peers
  PROVE  ReservesShared(p) <=> ~PendingReserve(p)
<1> DEFINE h == head[p]  t == tracking[p]  f == Fork(h, t)  own == SubSeq(h, f + 1, Len(h))
<1>1. h \in History /\ t \in History /\ Len(h) \in Nat
  BY DEF TypeOK, History
<1>2. /\ f \in 0 .. Len(h) /\ Contains(t, h, f)
      /\ \A i \in 1 .. Len(h) : Contains(t, h, i) => i <= f
  BY <1>1, ForkProperties
<1>3. /\ DOMAIN own = 1 .. Len(h) - f
      /\ \A i \in 1 .. Len(h) - f : own[i] = h[f + i]
  BY <1>1, <1>2, SuffixProperties
<1>4. \A i \in 1 .. f : Contains(t, h, i)
  BY <1>1, <1>2 DEF Contains, History
<1>5. PendingReserve(p) <=> \E i \in DOMAIN own : own[i].kind = "reserve"
  BY DEF PendingReserve, Commits, Own
<1> HIDE DEF own, f, h, t
<1>6. (\E i \in DOMAIN own : own[i].kind = "reserve")
        <=> \E i \in 1 .. Len(h) : i > f /\ h[i].kind = "reserve"
  <2>1. ASSUME NEW i \in DOMAIN own, own[i].kind = "reserve"
        PROVE  \E k \in 1 .. Len(h) : k > f /\ h[k].kind = "reserve"
    <3>1. f + i \in 1 .. Len(h) /\ f + i > f
      BY <1>1, <1>2, <1>3
    <3> QED BY <1>3, <2>1, <3>1
  <2>2. ASSUME NEW k \in 1 .. Len(h), k > f, h[k].kind = "reserve"
        PROVE  \E i \in DOMAIN own : own[i].kind = "reserve"
    <3>1. k - f \in 1 .. Len(h) - f /\ f + (k - f) = k
      BY <1>1, <1>2, <2>2
    <3> QED BY <1>3, <2>2, <3>1
  <2> QED BY <2>1, <2>2
<1>7. ReservesShared(p) <=> ~ \E i \in 1 .. Len(h) : i > f /\ h[i].kind = "reserve"
  BY <1>1, <1>2, <1>4 DEF ReservesShared, h, t
<1> QED BY <1>5, <1>6, <1>7

\* A rebase of appends: the result is clean and shares its reservations.
LEMMA CleanRebased ==
  ASSUME TypeOK, NEW p \in Peers, Clean(tracking[p]), ReservesShared(p)
  PROVE  /\ Clean(Rebased(p))
         /\ \A i \in 1 .. Len(Rebased(p)) :
              Rebased(p)[i].kind = "reserve" => Contains(tracking[p], Rebased(p), i)
<1> DEFINE t == tracking[p]  own == Own(p)  e == t \o own
<1>1. t \in History /\ own \in History
  BY RebasedType DEF TypeOK
<1>2. \A i \in DOMAIN own : own[i].kind # "reserve"
  BY PendingOrShared DEF PendingReserve, Commits
<1>3. Clean(e)
  BY <1>1, <1>2, CleanRebase
<1> HIDE DEF own, t
<1>4. /\ Len(t) \in Nat /\ Len(own) \in Nat /\ Len(e) = Len(t) + Len(own)
      /\ DOMAIN own = 1 .. Len(own)
      /\ \A i \in 1 .. Len(e) : e[i] = IF i <= Len(t) THEN t[i] ELSE own[i - Len(t)]
  BY <1>1 DEF History
<1> HIDE DEF e
<1>5. ASSUME NEW i \in 1 .. Len(e), e[i].kind = "reserve" PROVE Contains(t, e, i)
  <2>1. i <= Len(t)
    <3> SUFFICES ASSUME i > Len(t) PROVE FALSE
      BY <1>4
    <3>1. i - Len(t) \in DOMAIN own
      BY <1>4
    <3> QED BY <1>2, <1>4, <1>5, <3>1
  <2> QED BY <1>4, <2>1 DEF Contains
<1> QED BY <1>3, <1>5 DEF Rebased, e, t, own

\* The start is clean.
LEMMA SpendInit == Init => SpendInv
<1> SUFFICES ASSUME Init PROVE SpendInv
  OBVIOUS
<1>1. Clean(<< >>)
  BY DEF Clean
<1> QED BY <1>1, TypeInit DEF Init, SpendInv, NoDoubleSpend

\* A recorded commit keeps the branch clean.
LEMMA RecordClean ==
  ASSUME SpendInv, NEW p \in Peers, NEW path \in Peers, NEW g \in Grants \cup {NoGrant},
         NEW kind \in {"append", "reserve", "revoke"}, Record(p, kind, path, g),
         kind = "reserve" => Open(g, head[p])
  PROVE  SpendInv'
<1> DEFINE c == [id |-> Cardinality(made), by |-> p, path |-> path,
                 kind |-> kind, grant |-> g]
<1>1. TypeInv'
  BY RecordType DEF SpendInv
<1>2. c \in Commit
  BY FS_CardinalityType DEF SpendInv, TypeInv, Commit
<1>3. Clean(Append(head[p], c))
  BY <1>2, CleanAppend DEF SpendInv, TypeInv, TypeOK
<1>4. /\ remote' = remote /\ pc' = pc /\ pc[p] = "idle"
      /\ head' = [head EXCEPT ![p] = Append(@, c)] /\ UNCHANGED <<mode, tracking>>
  BY DEF Record, publishVars
<1>5. \A q \in Peers : Clean(head'[q])
  BY <1>3, <1>4 DEF SpendInv, TypeInv, TypeOK
<1>6. \A q \in Peers : pc'[q] # "idle" /\ ~ReservationClass(q)' => ReservesShared(q)'
  BY <1>4 DEF SpendInv, TypeInv, TypeOK, ReservationClass, ReservesShared
<1> QED BY <1>1, <1>4, <1>5, <1>6 DEF SpendInv, NoDoubleSpend

\* Every step keeps the branches clean.
LEMMA SpendStep == SpendInv /\ [Next]_vars => SpendInv'
<1> SUFFICES ASSUME SpendInv, [Next]_vars PROVE SpendInv'
  OBVIOUS
<1> DEFINE Heads == \A q \in Peers : Clean(head[q])
           Shared == \A q \in Peers :
                       pc[q] # "idle" /\ ~ReservationClass(q) => ReservesShared(q)
<1>1. TypeInv /\ TypeInv' /\ TypeOK /\ TypeOK' /\ NoDoubleSpend /\ Heads /\ Shared
  BY TypeStep DEF SpendInv, TypeInv
<1>2. /\ remote \in History
      /\ head \in [Peers -> History] /\ tracking \in [Peers -> History]
      /\ pc \in [Peers -> {"idle", "push", "fetch", "classify"}]
      /\ mode \in [Peers -> Modes \cup {"none"}]
  BY <1>1 DEF TypeOK
<1>3. \A q \in Peers : Clean(tracking[q])
  BY <1>1, <1>2, CleanPrefix DEF TypeOK, NoDoubleSpend
<1>4. SUFFICES ASSUME NEW p \in Peers, Caller(p) \/ Publish(p) \/ Crash(p)
               PROVE  SpendInv'
  <2>1. CASE UNCHANGED vars
    BY <1>1, <2>1 DEF vars, SpendInv, NoDoubleSpend, ReservationClass, ReservesShared
  <2> QED BY <2>1 DEF Next
\* A step that ends p's call touches no branch but, at most, p's own.
<1>5. ASSUME EndCall(p), remote' \in {remote, head[p]},
             \A q \in Peers \ {p} : head'[q] = head[q] /\ tracking'[q] = tracking[q],
             Clean(head'[p])
      PROVE  SpendInv'
  <2>1. NoDoubleSpend'
    BY <1>1, <1>5 DEF NoDoubleSpend
  <2>2. Heads'
    BY <1>1, <1>5
  <2>3. Shared'
    BY <1>1, <1>2, <1>5 DEF EndCall, ReservationClass, ReservesShared
  <2> QED BY <1>1, <2>1, <2>2, <2>3 DEF SpendInv
\* A step of p's call that moves no branch and forgets nothing it fetched.
<1>6. ASSUME pc[p] # "idle", pc' = [pc EXCEPT ![p] = pc'[p]],
             UNCHANGED <<head, mode>>, remote' \in {remote, head[p]},
             \A q \in Peers : tracking'[q] \in {tracking[q], remote}
      PROVE  SpendInv'
  <2>1. NoDoubleSpend' /\ Heads'
    BY <1>1, <1>6 DEF NoDoubleSpend
  <2>2. ASSUME NEW q \in Peers, ReservesShared(q) PROVE ReservesShared(q)'
    <3>1. Extends(remote, tracking[q])
      BY <1>1 DEF TypeOK
    <3>2. Len(tracking[q]) \in Nat /\ Len(remote) \in Nat /\ Len(head[q]) \in Nat
      BY <1>2 DEF History
    <3> QED BY SMTT(30), <1>6, <2>2, <3>1, <3>2 DEF ReservesShared, Contains, Extends
  <2>3. Shared'
    BY <1>1, <1>2, <1>6, <2>2 DEF ReservationClass
  <2> QED BY <1>1, <2>1, <2>3 DEF SpendInv
<1>7. CASE Caller(p)
  <2>1. ASSUME NEW path \in Peers, CommitAppend(p, path) PROVE SpendInv'
    BY <2>1, RecordClean DEF CommitAppend
  <2>2. ASSUME NEW g \in Grants, CommitRevoke(p, g) PROVE SpendInv'
    BY <2>2, RecordClean DEF CommitRevoke
  <2>3. ASSUME NEW g \in Grants, Reserve(p, g) PROVE SpendInv'
    BY <2>3, RecordClean DEF Reserve
  <2>4. ASSUME pc[p] = "idle", UNCHANGED <<remote, pc, mode>>, Clean(head'[p]),
               \A q \in Peers \ {p} : head'[q] = head[q] /\ tracking'[q] = tracking[q]
        PROVE  SpendInv'
    <3>1. NoDoubleSpend' /\ Heads'
      BY <1>1, <2>4 DEF NoDoubleSpend
    <3>2. Shared'
      BY <1>1, <2>4 DEF ReservationClass, ReservesShared
    <3> QED BY <1>1, <3>1, <3>2 DEF SpendInv
  <2>5. CASE Integrate(p)
    BY <1>2, <1>3, <2>4, <2>5 DEF Integrate, publishVars
  <2>6. CASE Separate(p)
    <3>1. PICK i \in Fork(head[p], tracking[p]) + 1 .. Len(head[p]) :
            head' = [head EXCEPT ![p] = Without(@, i)]
      BY <2>6 DEF Separate
    <3>2. i \in 1 .. Len(head[p])
      <4>1. Fork(head[p], tracking[p]) \in 0 .. Len(head[p]) /\ Len(head[p]) \in Nat
        BY <1>2, ForkProperties DEF History
      <4> QED BY <3>1, <4>1
    <3>3. Clean(Without(head[p], i))
      BY <1>1, <1>2, <3>2, CleanWithout
    <3> QED BY <1>2, <2>4, <2>6, <3>1, <3>3 DEF Separate, publishVars
  <2>7. CASE Poll(p)
    BY <1>1, <1>2, <2>4, <2>7 DEF Poll, publishVars
  <2>8. ASSUME NEW m \in Modes, PublishBegin(p, m) PROVE SpendInv'
    <3>1. NoDoubleSpend' /\ Heads'
      BY <1>1, <2>8 DEF PublishBegin, NoDoubleSpend
    <3>2. ReservationClass(p)' \/ ReservesShared(p)'
      <4>1. m = "reservation" \/ ReservesShared(p)
        BY <1>1, <2>8, PendingOrShared DEF PublishBegin
      <4> QED BY <1>2, <2>8, <4>1 DEF PublishBegin, ReservationClass, ReservesShared
    <3>3. \A q \in Peers \ {p} : /\ pc'[q] = pc[q]
                                 /\ ReservationClass(q)' <=> ReservationClass(q)
                                 /\ ReservesShared(q)' <=> ReservesShared(q)
      BY <1>2, <2>8 DEF PublishBegin, ReservationClass, ReservesShared
    <3>4. Shared'
      BY <1>1, <3>2, <3>3
    <3> QED BY <1>1, <3>1, <3>4 DEF SpendInv
  <2> QED BY <1>7, <2>1, <2>2, <2>3, <2>5, <2>6, <2>7, <2>8 DEF Caller
<1>8. CASE Publish(p)
  <2>1. CASE PushAccepted(p)
    BY <1>1, <1>2, <1>5, <2>1 DEF PushAccepted, Return
  <2>2. CASE PushAckLost(p)
    BY <1>2, <1>6, <2>2 DEF PushAckLost
  <2>3. CASE PushRejected(p)
    BY <1>2, <1>6, <2>3 DEF PushRejected
  <2>4. CASE FetchOK(p)
    BY <1>2, <1>6, <2>4 DEF FetchOK
  <2>5. CASE FetchFailed(p) \/ CountFailed(p) \/ NoContention(p) \/ RefuseMixed(p)
             \/ RebaseConflict(p)
    BY <1>1, <1>5, <2>5
       DEF FetchFailed, CountFailed, NoContention, RefuseMixed, RebaseConflict, Return
  <2>6. CASE DropReservation(p)
    <3>1. EndCall(p) /\ UNCHANGED <<remote, tracking>>
      BY <2>6 DEF DropReservation, Return
    <3>2. head' = [head EXCEPT ![p] = tracking[p]] \/ head' = head
      BY <2>6 DEF DropReservation, Dropped
    <3>3. Clean(head'[p]) /\ \A q \in Peers \ {p} : head'[q] = head[q]
      BY <1>1, <1>2, <1>3, <3>2
    <3> QED BY <1>5, <3>1, <3>3
  <2>7. CASE Rebase(p)
    <3>1. ReservesShared(p)
      BY <1>1, <2>7 DEF Rebase
    <3>2. /\ Clean(Rebased(p))
          /\ \A i \in 1 .. Len(Rebased(p)) :
               Rebased(p)[i].kind = "reserve" => Contains(tracking[p], Rebased(p), i)
      BY <1>1, <1>3, <3>1, CleanRebased
    <3>3. /\ head' = [head EXCEPT ![p] = Rebased(p)] /\ head'[p] = Rebased(p)
          /\ UNCHANGED <<remote, tracking>>
      BY <1>2, <2>7 DEF Rebase
    <3>4. CASE pc' = [pc EXCEPT ![p] = "push"] /\ UNCHANGED mode
      <4>1. NoDoubleSpend' /\ Heads'
        BY <1>1, <1>2, <3>2, <3>3 DEF NoDoubleSpend
      <4>2. ReservesShared(p)'
        BY <3>2, <3>3 DEF ReservesShared
      <4>3. \A q \in Peers \ {p} : /\ pc'[q] = pc[q]
                                   /\ ReservationClass(q)' <=> ReservationClass(q)
                                   /\ ReservesShared(q)' <=> ReservesShared(q)
        BY <1>2, <3>3, <3>4 DEF ReservationClass, ReservesShared
      <4>4. Shared'
        BY <1>1, <4>2, <4>3
      <4> QED BY <1>1, <4>1, <4>4 DEF SpendInv
    <3>5. CASE Return(p, "lane-down")
      BY <1>2, <1>5, <3>2, <3>3, <3>5 DEF Return
    <3> QED BY <2>7, <3>4, <3>5 DEF Rebase
  <2> QED BY <1>8, <2>1, <2>2, <2>3, <2>4, <2>5, <2>6, <2>7 DEF Publish
<1>9. CASE Crash(p)
  BY <1>1, <1>5, <1>9 DEF Crash
<1> QED BY <1>4, <1>7, <1>8, <1>9

\* On the shared branch a grant is consumed at most once, and never after it
\* was revoked, whatever races, rejections, lost acknowledgements and crashes
\* the publications went through.
THEOREM NoGrantSpentTwice == Spec => []NoDoubleSpend
<1>1. SpendInv => NoDoubleSpend
  BY DEF SpendInv
<1> QED BY <1>1, SpendInit, SpendStep, PTL DEF Spec

-----------------------------------------------------------------------------
(* What one step of a peer may touch.                                      *)

\* What p's clone and its tracking branch share, and what either has beyond it.
LEMMA CloneShape ==
  ASSUME TypeOK, NEW p \in Peers, NEW f, f = Fork(head[p], tracking[p])
  PROVE  /\ Len(head[p]) \in Nat /\ Len(tracking[p]) \in Nat
         /\ f \in 0 .. Len(head[p]) /\ f <= Len(tracking[p])
         /\ \A i \in 1 .. Len(head[p]) : Contains(tracking[p], head[p], i) <=> i <= f
         /\ Ahead(p) = Len(head[p]) - f /\ RemoteAhead(p) = Len(tracking[p]) - f
         /\ Commits(Own(p)) = {head[p][i] : i \in f + 1 .. Len(head[p])}
         /\ Commits(Upstream(p)) = {tracking[p][i] : i \in f + 1 .. Len(tracking[p])}
         /\ Len(Rebased(p)) = Len(tracking[p]) + Len(head[p]) - f
         /\ \A i \in 1 .. Len(Rebased(p)) :
              Rebased(p)[i] = IF i <= Len(tracking[p]) THEN tracking[p][i]
                              ELSE head[p][f + i - Len(tracking[p])]
<1> DEFINE h == head[p]  t == tracking[p]
           own == SubSeq(h, f + 1, Len(h))  up == SubSeq(t, f + 1, Len(t))
<1>1. h \in History /\ t \in History /\ Len(h) \in Nat /\ Len(t) \in Nat
  BY DEF TypeOK, History
<1>2. /\ f \in 0 .. Len(h) /\ f <= Len(t) /\ Contains(t, h, f)
      /\ \A i \in 1 .. Len(h) : Contains(t, h, i) => i <= f
  BY <1>1, ForkProperties
<1>3. \A i \in 1 .. f : Contains(t, h, i)
  BY <1>1, <1>2 DEF Contains, History
<1>4. /\ own \in History /\ DOMAIN own = 1 .. Len(h) - f
      /\ \A i \in 1 .. Len(h) - f : own[i] = h[f + i]
  BY <1>1, <1>2, SuffixProperties
<1>5. /\ up \in History /\ DOMAIN up = 1 .. Len(t) - f
      /\ \A i \in 1 .. Len(t) - f : up[i] = t[f + i]
  <2>1. f \in 0 .. Len(t)
    BY <1>1, <1>2
  <2> QED BY <1>1, <2>1, SuffixProperties
<1>6. Own(p) = own /\ Upstream(p) = up /\ Rebased(p) = t \o own
  BY DEF Own, Upstream, Rebased
<1> HIDE DEF own, up
<1>7. Len(own) = Len(h) - f
  <2>1. Len(own) \in Nat /\ DOMAIN own = 1 .. Len(own)
    BY <1>4 DEF History
  <2> QED BY <1>1, <1>2, <1>4, <2>1
<1>8. Commits(own) = {h[i] : i \in f + 1 .. Len(h)}
  <2>1. \A i \in DOMAIN own : f + i \in f + 1 .. Len(h)
    BY <1>1, <1>2, <1>4
  <2>2. \A k \in f + 1 .. Len(h) : k - f \in DOMAIN own /\ own[k - f] = h[k]
    <3> TAKE k \in f + 1 .. Len(h)
    <3>1. k - f \in 1 .. Len(h) - f /\ f + (k - f) = k
      BY <1>1, <1>2
    <3> QED BY <1>4, <3>1
  <2> QED BY <1>4, <2>1, <2>2 DEF Commits
<1>9. Commits(up) = {t[i] : i \in f + 1 .. Len(t)}
  <2>1. \A i \in DOMAIN up : f + i \in f + 1 .. Len(t)
    BY <1>1, <1>2, <1>5
  <2>2. \A k \in f + 1 .. Len(t) : k - f \in DOMAIN up /\ up[k - f] = t[k]
    <3> TAKE k \in f + 1 .. Len(t)
    <3>1. k - f \in 1 .. Len(t) - f /\ f + (k - f) = k
      BY <1>1, <1>2
    <3> QED BY <1>5, <3>1
  <2> QED BY <1>5, <2>1, <2>2 DEF Commits
<1>10. /\ Len(t \o own) = Len(t) + Len(h) - f
       /\ \A i \in 1 .. Len(t \o own) :
            (t \o own)[i] = IF i <= Len(t) THEN t[i] ELSE h[f + i - Len(t)]
  <2>1. /\ Len(t \o own) = Len(t) + Len(own)
        /\ \A i \in 1 .. Len(t) + Len(own) :
             (t \o own)[i] = IF i <= Len(t) THEN t[i] ELSE own[i - Len(t)]
    BY <1>1, <1>4, ConcatProperties DEF History
  <2>2. ASSUME NEW i \in 1 .. Len(t) + Len(own), i > Len(t)
        PROVE  own[i - Len(t)] = h[f + i - Len(t)]
    <3>1. i - Len(t) \in 1 .. Len(h) - f /\ f + (i - Len(t)) = f + i - Len(t)
      BY <1>1, <1>2, <1>7, <2>2
    <3> QED BY <1>4, <3>1
  <2> QED BY <1>1, <1>2, <1>7, <2>1, <2>2
<1>11. \A i \in 1 .. Len(h) : Contains(t, h, i) <=> i <= f
  <2>1. \A i \in 1 .. Len(h) : i <= f => i \in 1 .. f
    BY <1>1, <1>2
  <2> QED BY <1>2, <1>3, <2>1
<1>12. Ahead(p) = Len(h) - f /\ RemoteAhead(p) = Len(t) - f
  BY DEF Ahead, RemoteAhead
<1> QED BY <1>1, <1>2, <1>6, <1>8, <1>9, <1>10, <1>11, <1>12

\* A history with one commit left out, commit by commit.
LEMMA WithoutShape ==
  ASSUME NEW h \in History, NEW k \in 1 .. Len(h)
  PROVE  /\ Len(h) \in Nat /\ Len(Without(h, k)) = Len(h) - 1
         /\ DOMAIN Without(h, k) = 1 .. Len(h) - 1
         /\ \A i \in 1 .. Len(h) - 1 : Without(h, k)[i] = IF i < k THEN h[i] ELSE h[i + 1]
<1>1. Len(h) \in Nat /\ Without(h, k) \in Seq(Commit)
  BY WithoutType DEF History
<1>2. /\ DOMAIN Without(h, k) = 1 .. Len(h) - 1
      /\ \A i \in 1 .. Len(h) - 1 : Without(h, k)[i] = IF i < k THEN h[i] ELSE h[i + 1]
  BY DEF Without
<1> HIDE DEF Without
<1>3. Len(Without(h, k)) \in Nat /\ DOMAIN Without(h, k) = 1 .. Len(Without(h, k))
  BY <1>1, LenProperties
<1> QED BY <1>1, <1>2, <1>3

\* A step of p changes no other peer's clone, and no other call.
LEMMA OthersStay ==
  ASSUME TypeOK, NEW p \in Peers, Caller(p) \/ Publish(p) \/ Crash(p),
         NEW q \in Peers, q # p
  PROVE  /\ head'[q] = head[q] /\ tracking'[q] = tracking[q] /\ pc'[q] = pc[q]
         /\ mode'[q] = mode[q] /\ attempt'[q] = attempt[q]
         /\ result'[q] = result[q] /\ begun'[q] = begun[q]
<1> USE DEF TypeOK
<1>1. CASE Caller(p)
  BY <1>1 DEF Caller, CommitAppend, CommitRevoke, Reserve, Record, Integrate, Separate,
              Poll, PublishBegin, publishVars
<1>2. CASE Publish(p)
  BY <1>2 DEF Publish, PushAccepted, PushAckLost, PushRejected, FetchOK, FetchFailed,
              CountFailed, NoContention, RefuseMixed, DropReservation, RebaseConflict,
              Rebase, Return, EndCall
<1>3. CASE Crash(p)
  BY <1>3 DEF Crash, EndCall
<1> QED BY <1>1, <1>2, <1>3

\* Published history only grows, and what a clone knows of it only grows too.
LEMMA BranchesGrow ==
  ASSUME TypeOK, TypeOK', NEW p \in Peers, Caller(p) \/ Publish(p) \/ Crash(p)
  PROVE  Extends(remote', remote) /\ Extends(tracking'[p], tracking[p])
<1>1. /\ remote \in History /\ head[p] \in History /\ tracking[p] \in History
      /\ Extends(remote, tracking[p])
  BY DEF TypeOK
<1>2. Extends(remote, remote) /\ Extends(tracking[p], tracking[p])
  BY <1>1, ExtendsPreorder
<1>3. CASE UNCHANGED <<remote, tracking>>
  BY <1>2, <1>3
<1>4. CASE UNCHANGED remote /\ tracking' = [tracking EXCEPT ![p] = remote]
  BY <1>1, <1>2, <1>4 DEF TypeOK
<1>5. CASE FastForward(p) /\ remote' = head[p]
           /\ (UNCHANGED tracking \/ tracking' = [tracking EXCEPT ![p] = head[p]])
  <2>1. Extends(head[p], remote) /\ Extends(head[p], tracking[p])
    BY <1>1, <1>5, ExtendsPreorder DEF FastForward
  <2> QED BY <1>2, <1>5, <2>1 DEF TypeOK
<1>6. CASE Caller(p)
  BY <1>3, <1>4, <1>6 DEF Caller, CommitAppend, CommitRevoke, Reserve, Record, Integrate,
                          Separate, Poll, PublishBegin
<1>7. CASE Publish(p)
  BY <1>3, <1>4, <1>5, <1>7
     DEF Publish, PushAccepted, PushAckLost, PushRejected, FetchOK, FetchFailed,
         CountFailed, NoContention, RefuseMixed, DropReservation, RebaseConflict, Rebase
<1>8. CASE Crash(p)
  BY <1>3, <1>8 DEF Crash
<1> QED BY <1>6, <1>7, <1>8

-----------------------------------------------------------------------------
(* Nothing but a reservation is ever lost.                                 *)

\* A rebase keeps every commit of the branch.
LEMMA RebasedKeeps ==
  ASSUME TypeOK, NEW p \in Peers
  PROVE  Commits(head[p]) \subseteq Commits(Rebased(p))
<1>1. PICK f : f = Fork(head[p], tracking[p])
  OBVIOUS
<1> DEFINE h == head[p]  t == tracking[p]  r == Rebased(p)
<1>2. /\ Len(h) \in Nat /\ Len(t) \in Nat /\ f \in 0 .. Len(h) /\ f <= Len(t)
      /\ \A i \in 1 .. Len(h) : Contains(t, h, i) <=> i <= f
      /\ Len(r) = Len(t) + Len(h) - f
      /\ \A i \in 1 .. Len(r) : r[i] = IF i <= Len(t) THEN t[i] ELSE h[f + i - Len(t)]
  BY <1>1, CloneShape
<1>3. DOMAIN h = 1 .. Len(h) /\ DOMAIN r = 1 .. Len(r)
  BY RebasedType DEF TypeOK, History
<1> HIDE DEF h, t, r
<1> SUFFICES ASSUME NEW j \in 1 .. Len(h) PROVE h[j] \in Commits(r)
  BY <1>3 DEF Commits, h, r
<1>4. CASE j <= f
  <2>1. Contains(t, h, j) /\ j \in 1 .. Len(r) /\ j <= Len(t)
    BY <1>2, <1>4
  <2>2. r[j] = h[j]
    BY <1>2, <2>1 DEF Contains
  <2> QED BY <1>3, <2>1, <2>2 DEF Commits
<1>5. CASE j > f
  <2>1. /\ Len(t) + j - f \in 1 .. Len(r) /\ ~(Len(t) + j - f <= Len(t))
        /\ f + (Len(t) + j - f) - Len(t) = j
    BY <1>2, <1>5
  <2>2. r[Len(t) + j - f] = h[j]
    BY <1>2, <2>1
  <2> QED BY <1>3, <2>1, <2>2 DEF Commits
<1> QED BY <1>2, <1>4, <1>5

\* The one reservation of p's branch that p has not fetched is its last commit.
LastPending(p) ==
  \A i \in 1 .. Len(head[p]) :
    head[p][i].kind = "reserve" /\ ~Contains(tracking[p], head[p], i) => i = Len(head[p])

\* A reservation-class call runs with a reservation at the tip.
TipReserved(p) ==
  pc[p] # "idle" /\ ReservationClass(p) =>
    Len(head[p]) > 0 /\ head[p][Len(head[p])].kind = "reserve"

\* AppendSurvives is not inductive: the reset of a lost reservation race drops
\* the tip, so the tip must be the reservation.  It is, as long as the caller
\* resolves a reservation before it commits again (~Stacking).
SurviveInv ==
  /\ ~Stacking
  /\ SpendInv
  /\ AppendSurvives
  /\ \A p \in Peers : LastPending(p) /\ TipReserved(p)

\* A branch that only gives way to one that keeps all but its reservations
\* costs nobody anything.
LEMMA KeepsAppends ==
  ASSUME TypeOK, AppendSurvives, UNCHANGED made, NEW p \in Peers,
         \A q \in Peers \ {p} : head'[q] = head[q],
         \A c \in Commits(head[p]) : c.kind # "reserve" => c \in Commits(head'[p])
  PROVE  AppendSurvives'
<1>1. \A c \in made : c.by \in Peers
  BY DEF TypeOK, Commit
<1> QED BY <1>1 DEF AppendSurvives

\* What a branch contains of a history, a longer one contains.
LEMMA ContainsGrows ==
  ASSUME NEW a \in History, NEW b \in History, NEW h \in History, Extends(b, a),
         NEW i \in Nat, Contains(a, h, i)
  PROVE  Contains(b, h, i)
<1>1. Len(a) \in Nat /\ Len(b) \in Nat
  BY DEF History
<1> QED BY <1>1 DEF Extends, Contains

\* Nothing is lost at the start.
LEMMA SurviveInit == ~Stacking /\ Init => SurviveInv
<1> SUFFICES ASSUME ~Stacking, Init PROVE SurviveInv
  OBVIOUS
<1>1. SpendInv
  BY SpendInit
<1>2. AppendSurvives
  BY DEF Init, AppendSurvives
<1>3. \A p \in Peers : LastPending(p) /\ TipReserved(p)
  BY DEF Init, LastPending, TipReserved
<1> QED BY <1>1, <1>2, <1>3 DEF SurviveInv

\* A caller who resolves a reservation before the next commit has at most one
\* pending, at the tip.
LEMMA RecordSurvives ==
  ASSUME SurviveInv, TypeOK', NEW p \in Peers, NEW path \in Peers,
         NEW g \in Grants \cup {NoGrant},
         NEW kind \in {"append", "reserve", "revoke"}, Record(p, kind, path, g),
         ReservesShared(p)
  PROVE  AppendSurvives' /\ LastPending(p)' /\ TipReserved(p)'
<1> DEFINE c == [id |-> Cardinality(made), by |-> p, path |-> path,
                 kind |-> kind, grant |-> g]
           h == head[p]
<1>1. TypeOK /\ AppendSurvives /\ h \in History /\ Len(h) \in Nat
  <2>1. TypeOK /\ AppendSurvives
    BY DEF SurviveInv, SpendInv, TypeInv
  <2>2. h \in History
    BY <2>1 DEF TypeOK
  <2> QED BY <2>1, <2>2 DEF History
<1>2. /\ pc[p] = "idle" /\ UNCHANGED <<pc, tracking>>
      /\ head' = [head EXCEPT ![p] = Append(h, c)] /\ head'[p] = Append(h, c)
      /\ made' = made \cup {c}
  BY <1>1 DEF Record, publishVars, TypeOK
<1>3. c \in Commit /\ c.by = p
  BY <1>2 DEF TypeOK
<1> HIDE DEF c, h
<1>4. /\ Len(Append(h, c)) = Len(h) + 1 /\ Append(h, c)[Len(h) + 1] = c
      /\ DOMAIN Append(h, c) = 1 .. Len(h) + 1 /\ DOMAIN h = 1 .. Len(h)
      /\ \A i \in 1 .. Len(h) : Append(h, c)[i] = h[i]
  BY <1>1, <1>3 DEF History
<1>5. Commits(Append(h, c)) = Commits(h) \cup {c}
  BY <1>1, <1>4 DEF Commits
<1>6. AppendSurvives'
  <2>1. \A d \in made : d.by \in Peers
    BY <1>1 DEF TypeOK, Commit
  <2> SUFFICES ASSUME NEW d \in made', d.kind # "reserve"
               PROVE  d \in Commits(head'[d.by])
    BY DEF AppendSurvives, Commits
  <2>2. CASE d = c
    BY <1>2, <1>3, <1>5, <2>2
  <2>3. CASE d \in made
    <3>1. d \in Commits(head[d.by])
      BY <1>1, <2>3 DEF AppendSurvives
    <3> QED BY <1>1, <1>2, <1>5, <2>1, <2>3, <3>1 DEF TypeOK, h
  <2> QED BY <1>2, <2>2, <2>3
<1>7. LastPending(p)'
  <2> SUFFICES ASSUME NEW i \in 1 .. Len(h) + 1, Append(h, c)[i].kind = "reserve",
                      i # Len(h) + 1
               PROVE  Contains(tracking[p], Append(h, c), i)
    BY <1>2, <1>4 DEF LastPending, Contains
  <2>1. i \in 1 .. Len(h) /\ h[i].kind = "reserve"
    BY <1>1, <1>4
  <2> QED BY <1>1, <1>4, <2>1 DEF ReservesShared, Contains, h
<1>8. TipReserved(p)'
  BY <1>2 DEF TipReserved
<1> QED BY <1>6, <1>7, <1>8

\* No step of a peer that does not stack loses anything.
LEMMA SurviveStep == SurviveInv /\ [Next]_vars => SurviveInv'
<1> SUFFICES ASSUME SurviveInv, [Next]_vars PROVE SurviveInv'
  OBVIOUS
<1>1. /\ ~Stacking /\ SpendInv /\ SpendInv' /\ TypeOK /\ TypeOK' /\ AppendSurvives
      /\ \A q \in Peers : LastPending(q) /\ TipReserved(q)
  BY SpendStep DEF SurviveInv, SpendInv, TypeInv
<1>2. SUFFICES ASSUME NEW p \in Peers, Caller(p) \/ Publish(p) \/ Crash(p)
               PROVE  SurviveInv'
  <2>1. CASE UNCHANGED vars
    BY <1>1, <2>1 DEF vars, SurviveInv, AppendSurvives, LastPending, TipReserved,
                      ReservationClass
  <2> QED BY <2>1 DEF Next
<1>3. \A q \in Peers \ {p} : LastPending(q)' /\ TipReserved(q)' /\ head'[q] = head[q]
  BY <1>1, <1>2, OthersStay DEF LastPending, TipReserved, ReservationClass
<1>4. ASSUME AppendSurvives', LastPending(p)', TipReserved(p)' PROVE SurviveInv'
  BY <1>1, <1>3, <1>4 DEF SurviveInv
<1> DEFINE h == head[p]  t == tracking[p]
<1>0. PICK f : f = Fork(h, t)
  OBVIOUS
<1>5. /\ h \in History /\ t \in History /\ Len(h) \in Nat /\ Len(t) \in Nat
      /\ f \in 0 .. Len(h) /\ f <= Len(t)
      /\ \A i \in 1 .. Len(h) : Contains(t, h, i) <=> i <= f
      /\ Ahead(p) = Len(h) - f
  BY <1>1, <1>0, CloneShape DEF TypeOK
<1>6. tracking'[p] \in History /\ Extends(tracking'[p], t)
  BY <1>1, <1>2, BranchesGrow DEF TypeOK
\* The branch stays, and what is known of the remote only grows.
<1>7. ASSUME UNCHANGED made, head'[p] = h,
             \/ pc'[p] = "idle"
             \/ pc[p] # "idle" /\ mode'[p] = mode[p]
      PROVE  SurviveInv'
  <2>1. AppendSurvives'
    BY <1>1, <1>3, <1>7, KeepsAppends
  <2>2. \A i \in 1 .. Len(h) : Contains(t, h, i) => Contains(tracking'[p], h, i)
    BY <1>5, <1>6, ContainsGrows
  <2>3. LastPending(p)'
    BY <1>1, <1>7, <2>2 DEF LastPending
  <2>4. TipReserved(p)'
    BY <1>1, <1>7 DEF TipReserved, ReservationClass
  <2> QED BY <1>4, <2>1, <2>3, <2>4
\* The branch becomes another that shares all its reservations, outside a call
\* or in an append-class one.
<1>8. ASSUME UNCHANGED made, ReservesShared(p)',
             \A c \in Commits(h) : c.kind # "reserve" => c \in Commits(head'[p]),
             pc'[p] = "idle" \/ ~ReservationClass(p)'
      PROVE  SurviveInv'
  <2>1. AppendSurvives'
    BY <1>1, <1>3, <1>8, KeepsAppends
  <2>2. LastPending(p)' /\ TipReserved(p)'
    BY <1>8 DEF ReservesShared, LastPending, TipReserved
  <2> QED BY <1>4, <2>1, <2>2
\* The fetched branch shares everything with itself.
<1>9. ASSUME head'[p] = t, tracking'[p] = t PROVE ReservesShared(p)'
  BY <1>5, <1>9 DEF ReservesShared, Contains
<1>10. CASE Caller(p)
  <2>1. ASSUME ~PendingReserve(p) PROVE ReservesShared(p)
    BY <1>1, <2>1, PendingOrShared
  <2>2. ASSUME NEW path \in Peers, CommitAppend(p, path) PROVE SurviveInv'
    BY <1>1, <1>4, <2>1, <2>2, RecordSurvives DEF SurviveInv, CommitAppend
  <2>3. ASSUME NEW g \in Grants, CommitRevoke(p, g) PROVE SurviveInv'
    BY <1>1, <1>4, <2>1, <2>3, RecordSurvives DEF SurviveInv, CommitRevoke
  <2>4. ASSUME NEW g \in Grants, Reserve(p, g) PROVE SurviveInv'
    BY <1>1, <1>4, <2>1, <2>4, RecordSurvives DEF SurviveInv, Reserve
  <2>5. CASE Integrate(p)
    <3>1. /\ head'[p] = t /\ tracking'[p] = t /\ pc'[p] = "idle" /\ UNCHANGED made
          /\ Ahead(p) = 0
      BY <1>1, <2>5 DEF Integrate, publishVars, TypeOK
    <3>2. Commits(h) \subseteq Commits(t)
      BY <1>5, <3>1 DEF Commits, Contains, History
    <3> QED BY <1>8, <1>9, <3>1, <3>2
  <2>6. CASE Separate(p)
    <3>1. PICK i \in f + 1 .. Len(h) :
            h[i].kind = "reserve" /\ head' = [head EXCEPT ![p] = Without(@, i)]
      BY <1>0, <2>6 DEF Separate
    <3>2. i \in 1 .. Len(h) /\ i = Len(h)
      <4>1. i \in 1 .. Len(h) /\ ~Contains(t, h, i)
        BY <1>5, <3>1
      <4> QED BY <1>1, <3>1, <4>1 DEF LastPending
    <3>3. /\ pc'[p] = "idle" /\ tracking'[p] = t /\ UNCHANGED made
          /\ head'[p] = Without(h, i)
      BY <1>1, <2>6, <3>1 DEF Separate, publishVars, TypeOK
    <3>4. /\ Len(head'[p]) = Len(h) - 1 /\ DOMAIN head'[p] = 1 .. Len(h) - 1
          /\ \A j \in 1 .. Len(h) - 1 : head'[p][j] = h[j]
      <4>1. /\ Len(Without(h, i)) = Len(h) - 1 /\ DOMAIN Without(h, i) = 1 .. Len(h) - 1
            /\ \A j \in 1 .. Len(h) - 1 :
                 Without(h, i)[j] = IF j < i THEN h[j] ELSE h[j + 1]
        BY <1>5, <3>2, WithoutShape
      <4>2. \A j \in 1 .. Len(h) - 1 : j < i
        BY <1>5, <3>2
      <4> QED BY <3>3, <4>1, <4>2
    <3>5. ReservesShared(p)'
      <4> SUFFICES ASSUME NEW j \in 1 .. Len(h) - 1, h[j].kind = "reserve"
                   PROVE  Contains(t, head'[p], j)
        BY <3>3, <3>4 DEF ReservesShared
      <4>1. j \in 1 .. Len(h) /\ j # Len(h)
        BY <1>5
      <4>2. Contains(t, h, j)
        BY <1>1, <4>1 DEF LastPending
      <4>3. \A k \in 1 .. j : k \in 1 .. Len(h) - 1
        BY <1>5
      <4> QED BY <3>4, <4>2, <4>3 DEF Contains
    <3>6. \A c \in Commits(h) : c.kind # "reserve" => c \in Commits(head'[p])
      <4> SUFFICES ASSUME NEW j \in 1 .. Len(h), h[j].kind # "reserve"
                   PROVE  h[j] \in Commits(head'[p])
        BY <1>5 DEF Commits, History
      <4>1. j # Len(h)
        BY <3>1, <3>2
      <4>2. j \in 1 .. Len(h) - 1
        BY <1>5, <4>1
      <4> QED BY <3>4, <4>2 DEF Commits
    <3> QED BY <1>8, <3>3, <3>5, <3>6
  <2>7. CASE Poll(p)
    BY <1>1, <1>7, <2>7 DEF Poll, publishVars, TypeOK
  <2>8. ASSUME NEW m \in Modes, PublishBegin(p, m) PROVE SurviveInv'
    <3>1. /\ UNCHANGED <<made, head, tracking>> /\ mode'[p] = m
          /\ (m = "reservation") <=> PendingReserve(p)
      BY <1>1, <2>8 DEF PublishBegin, TypeOK
    <3>2. AppendSurvives' /\ LastPending(p)'
      BY <1>1, <3>1 DEF AppendSurvives, LastPending
    <3>3. ASSUME m = "reservation"
          PROVE  Len(h) > 0 /\ h[Len(h)].kind = "reserve"
      <4>1. ~ReservesShared(p)
        BY <1>1, <3>1, <3>3, PendingOrShared
      <4>2. PICK i \in 1 .. Len(h) : h[i].kind = "reserve" /\ ~Contains(t, h, i)
        BY <4>1 DEF ReservesShared
      <4> QED BY <1>1, <1>5, <4>2 DEF LastPending
    <3>4. TipReserved(p)'
      BY <3>1, <3>3 DEF TipReserved, ReservationClass
    <3> QED BY <1>4, <3>2, <3>4
  <2> QED BY <1>10, <2>2, <2>3, <2>4, <2>5, <2>6, <2>7, <2>8 DEF Caller
<1>11. CASE Publish(p)
  <2>1. CASE \/ PushAccepted(p) \/ PushAckLost(p) \/ PushRejected(p) \/ FetchOK(p)
             \/ FetchFailed(p) \/ CountFailed(p) \/ NoContention(p) \/ RefuseMixed(p)
             \/ RebaseConflict(p)
    BY <1>1, <1>7, <2>1
       DEF PushAccepted, PushAckLost, PushRejected, FetchOK, FetchFailed, CountFailed,
           NoContention, RefuseMixed, RebaseConflict, Return, EndCall, TypeOK
  <2>2. CASE DropReservation(p)
    <3>0. CASE head'[p] = h
      BY <1>1, <1>7, <2>2, <3>0 DEF DropReservation, Return, EndCall, TypeOK
    <3>1. /\ head'[p] \in {h, t} /\ tracking'[p] = t /\ pc'[p] = "idle" /\ UNCHANGED made
          /\ Ahead(p) = 1 /\ pc[p] # "idle" /\ ReservationClass(p)
      BY <1>1, <2>2 DEF DropReservation, Dropped, DropAllowed, Return, EndCall, TypeOK
    <3>2. Len(h) = f + 1 /\ h[Len(h)].kind = "reserve"
      BY <1>1, <1>5, <3>1 DEF TipReserved
    <3>3. \A j \in 1 .. Len(h) : h[j].kind # "reserve" => j \in DOMAIN t /\ t[j] = h[j]
      BY <1>5, <3>2 DEF Contains, History
    <3>4. \A c \in Commits(h) : c.kind # "reserve" => c \in Commits(t)
      BY SMTT(30), <1>5, <3>3 DEF Commits, History
    <3> QED BY <1>8, <1>9, <3>0, <3>1, <3>4
  <2>3. CASE Rebase(p)
    <3>1. /\ head'[p] = Rebased(p) /\ UNCHANGED <<made, tracking>>
          /\ pc'[p] = "idle" \/ mode'[p] = mode[p]
          /\ pc[p] # "idle" /\ ~ReservationClass(p)
      BY <1>1, <2>3 DEF Rebase, Return, EndCall, TypeOK
    <3>2. ReservesShared(p)'
      <4>1. Clean(t) /\ ReservesShared(p)
        BY <1>1, <1>5, <3>1, CleanPrefix DEF SpendInv, NoDoubleSpend, TypeOK
      <4> QED BY <1>1, <3>1, <4>1, CleanRebased DEF ReservesShared
    <3>3. Commits(h) \subseteq Commits(Rebased(p))
      BY <1>1, RebasedKeeps
    <3> QED BY <1>8, <3>1, <3>2, <3>3 DEF ReservationClass
  <2> QED BY <1>11, <2>1, <2>2, <2>3 DEF Publish
<1>12. CASE Crash(p)
  BY <1>1, <1>7, <1>12 DEF Crash, EndCall, TypeOK
<1> QED BY <1>2, <1>10, <1>11, <1>12

\* Unless the caller stacks commits on an unresolved reservation, no rejection,
\* rebase, reset, crash or separation costs a writer a commit that is not a
\* reservation, for any peers, number of commits and attempts.
THEOREM NothingLost == ~Stacking /\ Spec => []AppendSurvives
<1>1. SurviveInv => AppendSurvives
  BY DEF SurviveInv
<1> QED BY <1>1, SurviveInit, SurviveStep, PTL DEF Spec

-----------------------------------------------------------------------------
(* Whose commits are where.                                                *)

\* What p has of other peers' commits, it fetched.
ForeignFetched(p) ==
  \A i \in 1 .. Len(head[p]) : head[p][i].by # p => Contains(tracking[p], head[p], i)

\* What p put on the remote, its branch still holds at the same place.
LandedHeld(p) ==
  \A i \in 1 .. Len(remote) : remote[i].by = p => Contains(head[p], remote, i)

\* A call that has fetched, and a caller told to separate its commits, know
\* every commit of p's that has landed.
LandedSeen(p) ==
  pc[p] = "classify" \/ (pc[p] = "idle" /\ result[p] = "mixed-publish") =>
    \A i \in 1 .. Len(remote) : remote[i].by = p => i <= Len(tracking[p])

\* Where the commits of p's clone come from.
Sourced(p) ==
  /\ Commits(head[p]) \subseteq made
  /\ ForeignFetched(p) /\ LandedHeld(p) /\ LandedSeen(p)
  /\ pc[p] # "idle" => result[p] = "none"

OriginInv ==
  /\ SpendInv
  /\ Commits(remote) \subseteq made
  /\ \A c \in made : c.kind # "append" => c.grant \in Grants
  /\ \A p \in Peers : Sourced(p)

\* A longer history holds every commit of a shorter one.
LEMMA CommitsOfExtension ==
  ASSUME NEW h \in History, NEW t \in History, Extends(h, t)
  PROVE  Commits(t) \subseteq Commits(h)
BY DEF Commits, Extends, Contains, History

\* A rebased branch follows what was fetched and brings in nothing else.
LEMMA ExtendsRebased ==
  ASSUME TypeOK, NEW p \in Peers
  PROVE  /\ Extends(Rebased(p), tracking[p])
         /\ Commits(Rebased(p)) \subseteq Commits(tracking[p]) \cup Commits(head[p])
<1>1. PICK f : f = Fork(head[p], tracking[p])
  OBVIOUS
<1> DEFINE h == head[p]  t == tracking[p]  r == Rebased(p)
<1>2. /\ Len(h) \in Nat /\ Len(t) \in Nat /\ f \in 0 .. Len(h) /\ f <= Len(t)
      /\ Len(r) = Len(t) + Len(h) - f
      /\ \A i \in 1 .. Len(r) : r[i] = IF i <= Len(t) THEN t[i] ELSE h[f + i - Len(t)]
  BY <1>1, CloneShape
<1>3. DOMAIN h = 1 .. Len(h) /\ DOMAIN r = 1 .. Len(r) /\ DOMAIN t = 1 .. Len(t)
  BY RebasedType DEF TypeOK, History
<1> HIDE DEF h, t, r
<1>4. Extends(r, t)
  BY <1>2 DEF Extends, Contains
<1>5. ASSUME NEW i \in 1 .. Len(r) PROVE r[i] \in Commits(t) \cup Commits(h)
  <2>1. CASE i <= Len(t)
    BY <1>2, <1>3, <2>1 DEF Commits
  <2>2. CASE i > Len(t)
    <3>1. f + i - Len(t) \in 1 .. Len(h) /\ ~(i <= Len(t))
      BY <1>2, <2>2
    <3> QED BY <1>2, <1>3, <3>1 DEF Commits
  <2> QED BY <1>2, <2>1, <2>2
<1>6. Commits(r) \subseteq Commits(t) \cup Commits(h)
  BY <1>3, <1>5 DEF Commits
<1> QED BY <1>4, <1>6 DEF h, t, r

\* A rebase replays p's own commits only.
LEMMA ForeignRebased ==
  ASSUME TypeOK, NEW p \in Peers, ForeignFetched(p)
  PROVE  \A i \in 1 .. Len(Rebased(p)) :
           Rebased(p)[i].by # p => Contains(tracking[p], Rebased(p), i)
<1>1. PICK f : f = Fork(head[p], tracking[p])
  OBVIOUS
<1> DEFINE h == head[p]  t == tracking[p]  r == Rebased(p)
<1>2. /\ Len(h) \in Nat /\ Len(t) \in Nat /\ f \in 0 .. Len(h) /\ f <= Len(t)
      /\ \A i \in 1 .. Len(h) : Contains(t, h, i) <=> i <= f
      /\ Len(r) = Len(t) + Len(h) - f
      /\ \A i \in 1 .. Len(r) : r[i] = IF i <= Len(t) THEN t[i] ELSE h[f + i - Len(t)]
  BY <1>1, CloneShape
<1>3. \A i \in 1 .. Len(h) : h[i].by # p => i <= f
  BY <1>2 DEF ForeignFetched
<1> HIDE DEF h, t, r
<1> SUFFICES ASSUME NEW i \in 1 .. Len(r), r[i].by # p PROVE Contains(t, r, i)
  BY DEF h, t, r
<1>4. CASE i <= Len(t)
  BY <1>2, <1>4 DEF Contains
<1>5. CASE i > Len(t)
  <2>1. f + i - Len(t) \in 1 .. Len(h) /\ f + i - Len(t) > f /\ ~(i <= Len(t))
    BY <1>2, <1>5
  <2>2. r[i] = h[f + i - Len(t)]
    BY <1>2, <2>1
  <2> QED BY <1>2, <1>3, <2>1, <2>2
<1> QED BY <1>2, <1>4, <1>5

\* Leaving out a commit of p's beyond the fork leaves what was fetched in place.
LEMMA ForeignWithout ==
  ASSUME TypeOK, NEW p \in Peers, ForeignFetched(p),
         NEW k \in Fork(head[p], tracking[p]) + 1 .. Len(head[p])
  PROVE  /\ \A i \in 1 .. Len(Without(head[p], k)) :
              Without(head[p], k)[i].by # p
                => Contains(tracking[p], Without(head[p], k), i)
         /\ Commits(Without(head[p], k)) \subseteq Commits(head[p])
         /\ \A i \in 1 .. Len(head[p]) : Contains(tracking[p], head[p], i) =>
              i < k /\ i <= Len(Without(head[p], k))
         /\ \A i \in 1 .. k - 1 : Without(head[p], k)[i] = head[p][i]
<1>1. PICK f : f = Fork(head[p], tracking[p])
  OBVIOUS
<1> DEFINE h == head[p]  t == tracking[p]  w == Without(h, k)
<1>2. /\ Len(h) \in Nat /\ Len(t) \in Nat /\ f \in 0 .. Len(h) /\ f <= Len(t)
      /\ \A i \in 1 .. Len(h) : Contains(t, h, i) <=> i <= f
  BY <1>1, CloneShape
<1>3. h \in History /\ k \in 1 .. Len(h) /\ f < k
  BY <1>1, <1>2 DEF TypeOK
<1>4. /\ Len(w) = Len(h) - 1 /\ DOMAIN w = 1 .. Len(h) - 1 /\ DOMAIN h = 1 .. Len(h)
      /\ \A i \in 1 .. Len(h) - 1 : w[i] = IF i < k THEN h[i] ELSE h[i + 1]
  <2>1. DOMAIN h = 1 .. Len(h)
    BY <1>3 DEF History
  <2> QED BY <1>3, <2>1, WithoutShape
<1>5. \A i \in 1 .. Len(h) : h[i].by # p => i <= f
  BY <1>2 DEF ForeignFetched
<1>6. \A i \in 1 .. f : i \in 1 .. Len(h) - 1 /\ w[i] = h[i]
  <2> TAKE i \in 1 .. f
  <2>1. i \in 1 .. Len(h) - 1 /\ i < k
    BY <1>2, <1>3
  <2> QED BY <1>4, <2>1
<1> HIDE DEF h, t, w
<1>7. ASSUME NEW i \in 1 .. Len(w), w[i].by # p PROVE Contains(t, w, i)
  <2>1. i <= f
    <3> SUFFICES ASSUME i > f PROVE FALSE
      BY <1>2
    <3>1. CASE i < k
      <4>1. i \in 1 .. Len(h) - 1 /\ i \in 1 .. Len(h)
        BY <1>2, <1>4
      <4> QED BY <1>2, <1>4, <1>5, <1>7, <3>1, <4>1
    <3>2. CASE i >= k
      <4>1. /\ i \in 1 .. Len(h) - 1 /\ i + 1 \in 1 .. Len(h) /\ ~(i < k)
            /\ ~(i + 1 <= f)
        BY <1>2, <1>3, <1>4, <3>2
      <4> QED BY <1>2, <1>4, <1>5, <1>7, <4>1
    <3> QED BY <1>2, <1>3, <1>4, <3>1, <3>2
  <2>2. Contains(t, h, i)
    BY <1>2, <1>4, <2>1
  <2>3. \A j \in 1 .. i : j \in 1 .. f
    BY <1>2, <2>1
  <2> QED BY <1>6, <2>2, <2>3 DEF Contains
<1>8. Commits(w) \subseteq Commits(h)
  <2> SUFFICES ASSUME NEW i \in 1 .. Len(h) - 1 PROVE w[i] \in Commits(h)
    BY <1>4 DEF Commits
  <2>1. i \in 1 .. Len(h) /\ i + 1 \in 1 .. Len(h)
    BY <1>2
  <2> QED BY <1>4, <2>1 DEF Commits
<1>9. ASSUME NEW i \in 1 .. Len(h), Contains(t, h, i) PROVE i < k /\ i <= Len(w)
  BY <1>2, <1>3, <1>4, <1>9
<1>10. ASSUME NEW i \in 1 .. k - 1 PROVE w[i] = h[i]
  <2>1. i \in 1 .. Len(h) - 1 /\ i < k
    BY <1>2, <1>3
  <2> QED BY <1>4, <2>1
<1> QED BY <1>7, <1>8, <1>9, <1>10 DEF h, t, w

\* A commit of the remote as far as the clone's tracking branch goes is in any
\* branch that extends it.
LEMMA SeenIsHeld ==
  ASSUME NEW r \in History, NEW t \in History, NEW b \in History,
         Extends(r, t), Extends(b, t), NEW i \in 1 .. Len(r), i <= Len(t)
  PROVE  Contains(b, r, i)
<1>1. Len(r) \in Nat /\ Len(t) \in Nat /\ Len(b) \in Nat
  BY DEF History
<1>2. \A j \in 1 .. i : j \in 1 .. Len(t)
  BY <1>1
<1> QED BY <1>1, <1>2 DEF Extends, Contains

\* The start has no commits.
LEMMA OriginInit == Init => OriginInv
<1> SUFFICES ASSUME Init PROVE OriginInv
  OBVIOUS
<1>1. SpendInv
  BY SpendInit
<1>2. Commits(remote) = {} /\ \A p \in Peers : Commits(head[p]) = {}
  BY DEF Init, Commits
<1>3. \A p \in Peers : ForeignFetched(p) /\ LandedHeld(p) /\ LandedSeen(p)
  BY DEF Init, ForeignFetched, LandedHeld, LandedSeen
<1> QED BY <1>1, <1>2, <1>3 DEF Init, OriginInv, Sourced

\* Only p's commits come to the remote by a step of p.
LEMMA PushesOwn ==
  ASSUME TypeOK, NEW p \in Peers, ForeignFetched(p),
         Caller(p) \/ Publish(p) \/ Crash(p)
  PROVE  /\ remote' = remote \/ (remote' = head[p] /\ FastForward(p))
         /\ \A i \in 1 .. Len(remote') : remote'[i].by # p =>
              i <= Len(remote) /\ \A j \in 1 .. i : remote'[j] = remote[j]
<1>1. remote' = remote \/ (remote' = head[p] /\ FastForward(p))
  BY DEF Caller, CommitAppend, CommitRevoke, Reserve, Record, Integrate, Separate, Poll,
         PublishBegin, Publish, PushAccepted, PushAckLost, PushRejected, FetchOK,
         FetchFailed, CountFailed, NoContention, RefuseMixed, DropReservation,
         RebaseConflict, Rebase, Crash
<1>2. /\ remote \in History /\ Len(remote) \in Nat
      /\ Len(tracking[p]) \in Nat /\ Len(tracking[p]) <= Len(remote)
  BY DEF TypeOK, Extends, Contains, History
<1>3. CASE remote' = remote
  BY <1>2, <1>3
<1>4. CASE remote' = head[p] /\ Extends(head[p], remote)
  <2> SUFFICES ASSUME NEW i \in 1 .. Len(head[p]), head[p][i].by # p
               PROVE  i <= Len(remote) /\ \A j \in 1 .. i : head[p][j] = remote[j]
    BY <1>1, <1>4
  <2>1. i <= Len(tracking[p])
    BY DEF ForeignFetched, Contains
  <2> QED BY <1>2, <1>4, <2>1 DEF Extends, Contains
<1> QED BY <1>1, <1>3, <1>4 DEF FastForward

\* A step of p leaves the other clones as OriginInv has them.
LEMMA OthersSourced ==
  ASSUME OriginInv, NEW p \in Peers, Caller(p) \/ Publish(p) \/ Crash(p),
         made \subseteq made', NEW q \in Peers, q # p
  PROVE  Sourced(q)'
<1>1. TypeOK /\ Sourced(p) /\ Sourced(q)
  BY DEF OriginInv, SpendInv, TypeInv
<1>2. /\ head'[q] = head[q] /\ tracking'[q] = tracking[q] /\ pc'[q] = pc[q]
      /\ result'[q] = result[q]
  BY <1>1, OthersStay
<1>3. \A i \in 1 .. Len(remote') : remote'[i].by = q =>
        i <= Len(remote) /\ \A j \in 1 .. i : remote'[j] = remote[j]
  BY <1>1, PushesOwn DEF Sourced
<1>4. Commits(head'[q]) \subseteq made' /\ ForeignFetched(q)'
  BY <1>1, <1>2 DEF Sourced, Commits, ForeignFetched
<1>5. \A i \in 1 .. Len(remote') : remote'[i].by = q =>
        i \in 1 .. Len(remote) /\ remote[i].by = q
  BY <1>1, <1>3 DEF TypeOK, History
<1>6. LandedHeld(q)'
  BY <1>1, <1>2, <1>3, <1>5 DEF Sourced, LandedHeld, Contains
<1>7. LandedSeen(q)'
  BY <1>1, <1>2, <1>5 DEF Sourced, LandedSeen
<1>8. pc'[q] # "idle" => result'[q] = "none"
  BY <1>1, <1>2 DEF Sourced
<1>9. Commits(head[q])' = Commits(head'[q])
  BY DEF Commits
<1> QED BY <1>4, <1>6, <1>7, <1>8, <1>9 DEF Sourced

\* A caller records a commit of its own.
LEMMA RecordOrigin ==
  ASSUME OriginInv, NEW p \in Peers, NEW path \in Peers, NEW g \in Grants \cup {NoGrant},
         NEW kind \in {"append", "reserve", "revoke"}, Record(p, kind, path, g),
         kind # "append" => g \in Grants
  PROVE  /\ UNCHANGED remote /\ made \subseteq made'
         /\ \A c \in made' : c.kind # "append" => c.grant \in Grants
         /\ Sourced(p)'
<1> DEFINE c == [id |-> Cardinality(made), by |-> p, path |-> path,
                 kind |-> kind, grant |-> g]
           h == head[p]
<1>1. TypeOK /\ Sourced(p)
  BY DEF OriginInv, SpendInv, TypeInv
<1>2. h \in History /\ Len(h) \in Nat
  BY <1>1 DEF TypeOK, History
<1>3. /\ pc[p] = "idle" /\ UNCHANGED <<remote, pc, tracking, result>>
      /\ head'[p] = Append(h, c) /\ made' = made \cup {c}
  BY <1>1 DEF Record, publishVars, TypeOK
<1>4. c \in Commit /\ c.by = p /\ (c.kind # "append" => c.grant \in Grants)
  <2>1. TypeOK'
    BY RecordType DEF OriginInv, SpendInv, TypeInv
  <2> QED BY <1>3, <2>1 DEF TypeOK
<1> HIDE DEF c, h
<1>5. /\ Len(Append(h, c)) = Len(h) + 1 /\ Append(h, c)[Len(h) + 1] = c
      /\ DOMAIN Append(h, c) = 1 .. Len(h) + 1 /\ DOMAIN h = 1 .. Len(h)
      /\ \A i \in 1 .. Len(h) : Append(h, c)[i] = h[i]
  BY <1>2, <1>4 DEF History
<1>6. Commits(Append(h, c)) \subseteq made'
  <2>1. Commits(Append(h, c)) = Commits(h) \cup {c}
    BY <1>2, <1>5 DEF Commits
  <2> QED BY <1>1, <1>3, <2>1 DEF Sourced, h
<1>7. ForeignFetched(p)'
  <2> SUFFICES ASSUME NEW i \in 1 .. Len(h) + 1, Append(h, c)[i].by # p
               PROVE  Contains(tracking[p], Append(h, c), i)
    BY <1>3, <1>5 DEF ForeignFetched, Contains
  <2>1. i \in 1 .. Len(h) /\ h[i].by # p
    BY <1>2, <1>4, <1>5
  <2>2. Contains(tracking[p], h, i)
    BY <1>1, <2>1 DEF Sourced, ForeignFetched, h
  <2> QED BY <1>2, <1>5, <2>1, <2>2 DEF Contains
<1>8. LandedHeld(p)'
  <2> SUFFICES ASSUME NEW i \in 1 .. Len(remote), remote[i].by = p
               PROVE  Contains(Append(h, c), remote, i)
    BY <1>3 DEF LandedHeld, Contains
  <2>1. Contains(h, remote, i)
    BY <1>1 DEF Sourced, LandedHeld, h
  <2>2. \A j \in 1 .. i : j \in 1 .. Len(h)
    BY <1>2, <2>1 DEF Contains
  <2> QED BY <1>2, <1>5, <2>1, <2>2 DEF Contains
<1>9. LandedSeen(p)' /\ (pc'[p] # "idle" => result'[p] = "none")
  BY <1>1, <1>3 DEF Sourced, LandedSeen
<1>10. Commits(head[p])' = Commits(Append(h, c))
  BY <1>3 DEF Commits
<1>11. \A d \in made' : d.kind # "append" => d.grant \in Grants
  BY <1>3, <1>4 DEF OriginInv
<1> QED BY <1>3, <1>6, <1>7, <1>8, <1>9, <1>10, <1>11 DEF Sourced

\* Every step keeps the commits where they came from.
LEMMA OriginStep == OriginInv /\ [Next]_vars => OriginInv'
<1> SUFFICES ASSUME OriginInv, [Next]_vars PROVE OriginInv'
  OBVIOUS
<1>1. /\ SpendInv /\ SpendInv' /\ TypeOK /\ TypeOK' /\ Commits(remote) \subseteq made
      /\ \A c \in made : c.kind # "append" => c.grant \in Grants
      /\ \A q \in Peers : Sourced(q)
  BY SpendStep DEF OriginInv, SpendInv, TypeInv
<1>2. SUFFICES ASSUME NEW p \in Peers, Caller(p) \/ Publish(p) \/ Crash(p)
               PROVE  OriginInv'
  <2>1. CASE UNCHANGED vars
    BY <1>1, <2>1 DEF vars, OriginInv, Sourced, Commits, ForeignFetched, LandedHeld,
                      LandedSeen
  <2> QED BY <2>1 DEF Next
<1> DEFINE h == head[p]  t == tracking[p]  h1 == head'[p]  t1 == tracking'[p]
<1>3. /\ remote \in History /\ h \in History /\ t \in History
      /\ h1 \in History /\ t1 \in History
      /\ Extends(remote, t) /\ Extends(remote', t1)
  BY <1>1 DEF TypeOK
<1>4. /\ Commits(h) \subseteq made /\ Commits(t) \subseteq made
      /\ ForeignFetched(p) /\ LandedHeld(p) /\ LandedSeen(p)
      /\ pc[p] # "idle" => result[p] = "none"
  BY <1>1, <1>3, CommitsOfExtension DEF Sourced
<1>5. /\ remote' = remote \/ remote' = h
      /\ Extends(remote', remote) /\ Extends(t1, t)
  BY <1>1, <1>2, <1>4, PushesOwn, BranchesGrow
<1>6. ASSUME made \subseteq made', Sourced(p)',
             \A c \in made' : c.kind # "append" => c.grant \in Grants
      PROVE  OriginInv'
  <2>1. Commits(remote)' \subseteq made'
    BY <1>1, <1>4, <1>5, <1>6 DEF Commits
  <2>2. \A q \in Peers : Sourced(q)'
    BY <1>2, <1>6, OthersSourced
  <2> QED BY <1>1, <1>6, <2>1, <2>2 DEF OriginInv
<1>7. ASSUME UNCHANGED made, Commits(h1) \subseteq made,
             ForeignFetched(p)', LandedHeld(p)', LandedSeen(p)',
             pc'[p] # "idle" => result'[p] = "none"
      PROVE  OriginInv'
  <2>1. Sourced(p)'
    BY <1>7 DEF Sourced, Commits
  <2> QED BY <1>1, <1>6, <1>7, <2>1
\* The branch stays while what is known of the remote grows.
<1>8. ASSUME UNCHANGED made, h1 = h, LandedSeen(p)',
             pc'[p] # "idle" => result'[p] = "none"
      PROVE  OriginInv'
  <2>1. ForeignFetched(p)'
    <3> SUFFICES ASSUME NEW i \in 1 .. Len(h), h[i].by # p PROVE Contains(t1, h, i)
      BY <1>8 DEF ForeignFetched, Contains
    <3>1. Contains(t, h, i)
      BY <1>4 DEF ForeignFetched
    <3> QED BY <1>3, <1>5, <3>1, ContainsGrows DEF History
  <2>2. LandedHeld(p)'
    BY <1>4, <1>5, <1>8 DEF LandedHeld, Contains
  <2> QED BY <1>4, <1>7, <1>8, <2>1, <2>2
\* The branch becomes what was fetched.
<1>9. ASSUME h1 = t, t1 = t PROVE ForeignFetched(p)' /\ Commits(h1) \subseteq made
  BY <1>3, <1>4, <1>9 DEF ForeignFetched, Contains, History
<1>10. CASE Caller(p)
  <2>1. ASSUME NEW path \in Peers, CommitAppend(p, path) PROVE OriginInv'
    BY <1>6, <2>1, RecordOrigin DEF CommitAppend
  <2>2. ASSUME NEW g \in Grants, CommitRevoke(p, g) PROVE OriginInv'
    BY <1>6, <2>2, RecordOrigin DEF CommitRevoke
  <2>3. ASSUME NEW g \in Grants, Reserve(p, g) PROVE OriginInv'
    BY <1>6, <2>3, RecordOrigin DEF Reserve
  <2>4. CASE Integrate(p)
    <3>1. /\ h1 = t /\ t1 = t /\ pc[p] = "idle" /\ Ahead(p) = 0
          /\ UNCHANGED <<remote, made, pc, result>>
      BY <1>1, <2>4 DEF Integrate, publishVars, TypeOK
    <3>2. LandedHeld(p)'
      <4> SUFFICES ASSUME NEW i \in 1 .. Len(remote), remote[i].by = p
                   PROVE  Contains(t, remote, i)
        BY <3>1 DEF LandedHeld, Contains
      <4>1. i <= Len(h)
        BY <1>4 DEF LandedHeld, Contains
      <4>2. Len(h) <= Len(t)
        BY <1>1, <3>1, CloneShape
      <4>3. i <= Len(t) /\ Extends(t, t)
        BY <1>3, <4>1, <4>2, ExtendsPreorder DEF History
      <4> QED BY <1>3, <4>3, SeenIsHeld
    <3>3. LandedSeen(p)'
      BY <1>4, <3>1 DEF LandedSeen
    <3> QED BY <1>4, <1>7, <1>9, <3>1, <3>2, <3>3
  <2>5. CASE Separate(p)
    <3>1. PICK k \in Fork(h, t) + 1 .. Len(h) : head' = [head EXCEPT ![p] = Without(@, k)]
      BY <2>5 DEF Separate
    <3>2. /\ h1 = Without(h, k) /\ t1 = t /\ pc[p] = "idle" /\ result[p] = "mixed-publish"
          /\ UNCHANGED <<remote, made, pc, result>>
      BY <1>1, <2>5, <3>1 DEF Separate, publishVars, TypeOK
    <3>3. /\ \A i \in 1 .. Len(h1) : h1[i].by # p => Contains(t, h1, i)
          /\ Commits(h1) \subseteq Commits(h)
          /\ \A i \in 1 .. Len(h) : Contains(t, h, i) => i < k /\ i <= Len(h1)
          /\ \A i \in 1 .. k - 1 : h1[i] = h[i]
      BY <1>1, <1>4, <3>1, <3>2, ForeignWithout
    <3>4. ForeignFetched(p)'
      BY <3>2, <3>3 DEF ForeignFetched
    <3>5. LandedHeld(p)'
      <4> SUFFICES ASSUME NEW i \in 1 .. Len(remote), remote[i].by = p
                   PROVE  Contains(h1, remote, i)
        BY <3>2 DEF LandedHeld, Contains
      <4>1. Contains(h, remote, i) /\ i <= Len(t)
        BY <1>4, <3>2 DEF LandedHeld, LandedSeen
      <4>2. Contains(t, remote, i)
        <5>1. Extends(t, t)
          BY <1>3, ExtendsPreorder
        <5> QED BY <1>3, <4>1, <5>1, SeenIsHeld
      <4>3. i \in 1 .. Len(h) /\ Contains(t, h, i)
        BY <1>3, <4>1, <4>2 DEF Contains, History
      <4>4. i < k /\ i <= Len(h1)
        BY <3>3, <4>3
      <4>5. k \in Int /\ i \in Int
        BY <3>1
      <4>6. \A j \in 1 .. i : j \in 1 .. k - 1
        BY <4>4, <4>5
      <4> QED BY <3>3, <4>1, <4>4, <4>6 DEF Contains
    <3>6. LandedSeen(p)'
      BY <1>4, <3>2 DEF LandedSeen
    <3> QED BY <1>4, <1>7, <3>2, <3>3, <3>4, <3>5, <3>6
  <2>6. CASE Poll(p)
    <3>1. /\ h1 = h /\ t1 = remote /\ UNCHANGED <<remote, made, pc, result>>
      BY <1>1, <2>6 DEF Poll, publishVars, TypeOK
    <3>2. LandedSeen(p)'
      BY <1>3, <3>1 DEF LandedSeen, History
    <3> QED BY <1>4, <1>8, <3>1, <3>2
  <2>7. ASSUME NEW m \in Modes, PublishBegin(p, m) PROVE OriginInv'
    <3>1. /\ h1 = h /\ pc'[p] = "push" /\ result'[p] = "none" /\ UNCHANGED made
      BY <1>1, <2>7 DEF PublishBegin, TypeOK
    <3>2. LandedSeen(p)'
      BY <3>1 DEF LandedSeen
    <3> QED BY <1>8, <3>1, <3>2
  <2> QED BY <1>10, <2>1, <2>2, <2>3, <2>4, <2>5, <2>6, <2>7 DEF Caller
<1>11. CASE Publish(p)
  <2>1. pc[p] # "idle" /\ result[p] = "none"
    BY <1>4, <1>11
       DEF Publish, PushAccepted, PushAckLost, PushRejected, FetchOK, FetchFailed,
           CountFailed, NoContention, RefuseMixed, DropReservation, RebaseConflict, Rebase
  <2>2. CASE PushAccepted(p)
    <3>1. /\ h1 = h /\ pc'[p] = "idle" /\ result'[p] = "pushed" /\ UNCHANGED made
      BY <1>1, <2>2 DEF PushAccepted, Return, EndCall, TypeOK
    <3>2. LandedSeen(p)'
      BY <3>1 DEF LandedSeen
    <3> QED BY <1>8, <3>1, <3>2
  <2>3. CASE PushAckLost(p) \/ PushRejected(p)
    <3>1. /\ h1 = h /\ pc'[p] = "fetch" /\ UNCHANGED <<made, result>>
      BY <1>1, <2>3 DEF PushAckLost, PushRejected, TypeOK
    <3>2. LandedSeen(p)'
      BY <3>1 DEF LandedSeen
    <3> QED BY <1>8, <2>1, <3>1, <3>2
  <2>4. CASE FetchOK(p)
    <3>1. /\ h1 = h /\ t1 = remote /\ UNCHANGED <<remote, made, result>>
      BY <1>1, <2>4 DEF FetchOK, TypeOK
    <3>2. LandedSeen(p)'
      BY <1>3, <3>1 DEF LandedSeen, History
    <3> QED BY <1>8, <2>1, <3>1, <3>2
  <2>5. CASE FetchFailed(p) \/ CountFailed(p) \/ NoContention(p) \/ RebaseConflict(p)
    <3>1. /\ h1 = h /\ pc'[p] = "idle" /\ result'[p] # "mixed-publish" /\ UNCHANGED made
      BY <1>1, <2>5 DEF FetchFailed, CountFailed, NoContention, RebaseConflict, Return,
                        EndCall, TypeOK
    <3>2. LandedSeen(p)'
      BY <3>1 DEF LandedSeen
    <3> QED BY <1>8, <3>1, <3>2
  <2>6. CASE RefuseMixed(p)
    <3>1. /\ h1 = h /\ t1 = t /\ pc[p] = "classify" /\ pc'[p] = "idle"
          /\ UNCHANGED <<remote, made>>
      BY <1>1, <2>6 DEF RefuseMixed, Return, EndCall, TypeOK
    <3>2. LandedSeen(p)'
      BY <1>4, <3>1 DEF LandedSeen
    <3> QED BY <1>8, <3>1, <3>2
  \* The branch moves to one that extends what the call has fetched.
  <2>7. ASSUME pc[p] = "classify", UNCHANGED remote, Extends(h1, t) PROVE LandedHeld(p)'
    <3> SUFFICES ASSUME NEW i \in 1 .. Len(remote), remote[i].by = p
                 PROVE  Contains(h1, remote, i)
      BY <2>7 DEF LandedHeld, Contains
    <3>1. i <= Len(t)
      BY <1>4, <2>7 DEF LandedSeen
    <3> QED BY <1>3, <2>7, <3>1, SeenIsHeld
  <2>8. CASE DropReservation(p)
    <3>1. /\ h1 \in {h, t} /\ t1 = t /\ pc[p] = "classify" /\ pc'[p] = "idle"
          /\ result'[p] = "reservation-dropped" /\ UNCHANGED <<remote, made>>
      BY <1>1, <2>8 DEF DropReservation, Dropped, Return, EndCall, TypeOK
    <3>2. LandedSeen(p)'
      BY <3>1 DEF LandedSeen
    <3>3. CASE h1 = h
      BY <1>8, <3>1, <3>2, <3>3
    <3>4. CASE h1 = t
      <4>1. LandedHeld(p)'
        BY <1>3, <2>7, <3>1, <3>4, ExtendsPreorder
      <4> QED BY <1>7, <1>9, <3>1, <3>2, <3>4, <4>1
    <3> QED BY <3>1, <3>3, <3>4
  <2>9. CASE Rebase(p)
    <3>1. /\ h1 = Rebased(p) /\ t1 = t /\ pc[p] = "classify"
          /\ UNCHANGED <<remote, made>>
          /\ \/ pc'[p] = "push" /\ result'[p] = "none"
             \/ pc'[p] = "idle" /\ result'[p] = "lane-down"
      BY <1>1, <2>1, <2>9 DEF Rebase, Return, EndCall, TypeOK
    <3>2. Extends(h1, t) /\ Commits(h1) \subseteq made
      BY <1>1, <1>4, <3>1, ExtendsRebased
    <3>3. LandedHeld(p)'
      BY <2>7, <3>1, <3>2
    <3>4. ForeignFetched(p)'
      BY <1>1, <1>4, <3>1, ForeignRebased DEF ForeignFetched
    <3>5. LandedSeen(p)'
      BY <3>1 DEF LandedSeen
    <3> QED BY <1>7, <3>1, <3>2, <3>3, <3>4, <3>5
  <2> QED BY <1>11, <2>2, <2>3, <2>4, <2>5, <2>6, <2>8, <2>9 DEF Publish
<1>12. CASE Crash(p)
  <2>1. /\ h1 = h /\ pc'[p] = "idle" /\ result'[p] = "none" /\ UNCHANGED made
    BY <1>1, <1>4, <1>12 DEF Crash, EndCall, TypeOK
  <2>2. LandedSeen(p)'
    BY <2>1 DEF LandedSeen
  <2> QED BY <1>8, <2>1, <2>2
<1> QED BY <1>2, <1>10, <1>11, <1>12

-----------------------------------------------------------------------------
(* What publish() says of a race is so.                                    *)

\* How far a running call has come: it still holds all it was called with, and
\* the remote moved before every push but its first.
CallHolds(p) ==
  /\ Commits(begun[p].head) \subseteq Commits(head[p])
  /\ begun[p].len <= Len(remote)
  /\ pc[p] \in {"push", "fetch"} /\ attempt[p] > 1 =>
       /\ Extends(head[p], tracking[p])
       /\ begun[p].len + attempt[p] <= Len(tracking[p]) + 2
  /\ pc[p] = "classify" /\ Contended(p) =>
       begun[p].len + attempt[p] <= Len(tracking[p]) + 1

CallInv ==
  /\ TypeInv
  /\ \A p \in Peers : pc[p] # "idle" => CallHolds(p)

\* A fetched branch no longer than one the clone extends brings nothing new.
LEMMA RaceLengthens ==
  ASSUME NEW h \in History, NEW t \in History, NEW r \in History,
         Extends(r, t), Extends(h, t), Len(r) - Fork(h, r) > 0
  PROVE  Len(r) >= Len(t) + 1
<1>1. Len(h) \in Nat /\ Len(t) \in Nat /\ Len(r) \in Nat
  BY DEF History
<1>2. /\ Fork(h, r) \in 0 .. Len(h)
      /\ \A i \in 1 .. Len(h) : Contains(r, h, i) => i <= Fork(h, r)
  BY ForkProperties
<1>3. Len(r) >= Len(t) /\ Len(h) >= Len(t)
  BY DEF Extends, Contains
<1> SUFFICES ASSUME Len(r) = Len(t) PROVE FALSE
  BY <1>1, <1>3
<1>4. Contains(r, h, Len(t))
  BY <1>1, <1>3 DEF Extends, Contains
<1>5. Len(t) <= Fork(h, r)
  BY <1>1, <1>2, <1>3, <1>4
<1> QED BY <1>1, <1>2, <1>5

\* No call runs at the start.
LEMMA CallInit == Init => CallInv
BY TypeInit DEF Init, CallInv

\* Every step of a call keeps what it has achieved.
LEMMA CallStep == CallInv /\ [Next]_vars => CallInv'
<1> SUFFICES ASSUME CallInv, [Next]_vars PROVE CallInv'
  OBVIOUS
<1>1. /\ TypeInv' /\ TypeOK /\ TypeOK'
      /\ \A q \in Peers : pc[q] # "idle" => CallHolds(q)
  BY TypeStep DEF CallInv, TypeInv
<1>2. SUFFICES ASSUME NEW p \in Peers, Caller(p) \/ Publish(p) \/ Crash(p)
               PROVE  CallInv'
  <2>1. CASE UNCHANGED vars
    <3>1. \A q \in Peers : pc'[q] = pc[q] /\ (CallHolds(q)' <=> CallHolds(q))
      BY <2>1 DEF vars, CallHolds, Contended, RemoteAhead, Commits
    <3> QED BY <1>1, <3>1 DEF CallInv
  <2> QED BY <2>1 DEF Next
<1> DEFINE h == head[p]  t == tracking[p]
<1>3. /\ remote \in History /\ h \in History /\ t \in History
      /\ Len(remote) \in Nat /\ Len(h) \in Nat /\ Len(t) \in Nat
      /\ begun[p].len \in Nat /\ attempt[p] \in Nat
      /\ Extends(remote, t)
  BY <1>1 DEF TypeOK, History
<1>4. Extends(remote', remote) /\ Len(remote') \in Nat /\ Len(remote) <= Len(remote')
  <2>1. Extends(remote', remote)
    BY <1>1, <1>2, BranchesGrow
  <2>2. Len(remote') \in Nat
    BY <1>1 DEF TypeOK, History
  <2> QED BY <2>1, <2>2 DEF Extends, Contains
<1>5. ASSUME NEW q \in Peers, q # p, pc'[q] # "idle" PROVE CallHolds(q)'
  <2>1. /\ head'[q] = head[q] /\ tracking'[q] = tracking[q] /\ pc'[q] = pc[q]
        /\ attempt'[q] = attempt[q] /\ begun'[q] = begun[q]
    BY <1>1, <1>2, <1>5, OthersStay
  <2>2. CallHolds(q) /\ begun[q].len \in Nat /\ Len(remote) \in Nat
    BY SMTT(30), <1>1, <1>5, <2>1 DEF TypeOK, History
  <2>3. begun'[q].len <= Len(remote')
    BY <1>4, <2>1, <2>2 DEF CallHolds
  <2> QED BY <2>1, <2>2, <2>3 DEF CallHolds, Contended, RemoteAhead, Commits
<1>6. ASSUME pc'[p] # "idle" => CallHolds(p)' PROVE CallInv'
  BY <1>1, <1>5, <1>6 DEF CallInv
<1>7. CASE Caller(p)
  <2>1. ASSUME NEW m \in Modes, PublishBegin(p, m) PROVE CallInv'
    <3>1. /\ head' = head /\ remote' = remote /\ tracking' = tracking
          /\ pc'[p] = "push" /\ attempt'[p] = 1
          /\ begun'[p] = [head |-> h, len |-> Len(remote)]
      BY <1>1, <2>1 DEF PublishBegin, TypeOK
    <3>2. CallHolds(p)'
      BY <1>3, <3>1 DEF CallHolds, Commits
    <3> QED BY <1>6, <3>2
  <2>2. CASE \/ \E path \in Peers : CommitAppend(p, path)
             \/ \E g \in Grants : CommitRevoke(p, g) \/ Reserve(p, g)
             \/ Integrate(p) \/ Separate(p) \/ Poll(p)
    <3>1. pc'[p] = "idle"
      BY <2>2 DEF CommitAppend, CommitRevoke, Reserve, Record, Integrate, Separate, Poll,
                  publishVars
    <3> QED BY <1>6, <3>1
  <2> QED BY <1>7, <2>1, <2>2 DEF Caller
<1>8. CASE Publish(p)
  <2>1. pc[p] # "idle" /\ CallHolds(p)
    BY <1>1, <1>8
       DEF Publish, PushAccepted, PushAckLost, PushRejected, FetchOK, FetchFailed,
           CountFailed, NoContention, RefuseMixed, DropReservation, RebaseConflict, Rebase
  <2>2. CASE PushAckLost(p) \/ PushRejected(p)
    <3>1. /\ UNCHANGED <<head, tracking, attempt, begun>>
          /\ pc[p] = "push" /\ pc'[p] = "fetch"
      BY <1>1, <2>2 DEF PushAckLost, PushRejected, TypeOK
    <3>2. begun'[p].len <= Len(remote')
      BY <1>3, <1>4, <2>1, <3>1 DEF CallHolds
    <3>3. CallHolds(p)'
      BY <2>1, <3>1, <3>2 DEF CallHolds, Commits
    <3> QED BY <1>6, <3>3
  <2>3. CASE FetchOK(p)
    <3>1. /\ UNCHANGED <<remote, head, attempt, begun>> /\ tracking'[p] = remote
          /\ pc[p] = "fetch" /\ pc'[p] = "classify" /\ attempt[p] # 0
      BY <1>1, <2>3 DEF CallInv, TypeInv, FetchOK, TypeOK
    <3>2. ASSUME Contended(p)' PROVE begun[p].len + attempt[p] <= Len(remote) + 1
      <4>1. Len(remote) - Fork(h, remote) > 0
        BY <3>1, <3>2 DEF Contended, RemoteAhead
      <4>2. CASE attempt[p] > 1
        <5>1. Extends(h, t) /\ begun[p].len + attempt[p] <= Len(t) + 2
          BY <2>1, <3>1, <4>2 DEF CallHolds
        <5>2. Len(remote) >= Len(t) + 1
          BY <1>3, <4>1, <5>1, RaceLengthens
        <5> QED BY <1>3, <5>1, <5>2
      <4>3. CASE attempt[p] = 1
        BY <1>3, <2>1, <4>3 DEF CallHolds
      <4> QED BY <1>3, <3>1, <4>2, <4>3
    <3>3. CallHolds(p)'
      BY <2>1, <3>1, <3>2 DEF CallHolds, Commits
    <3> QED BY <1>6, <3>3
  <2>4. CASE Rebase(p) /\ pc'[p] # "idle"
    <3>1. /\ UNCHANGED <<remote, tracking, begun>> /\ head'[p] = Rebased(p)
          /\ pc[p] = "classify" /\ Contended(p)
          /\ pc'[p] = "push" /\ attempt'[p] = attempt[p] + 1
      BY <1>1, <2>4 DEF Rebase, Return, EndCall, TypeOK
    <3>2. Commits(h) \subseteq Commits(Rebased(p)) /\ Extends(Rebased(p), t)
      BY <1>1, RebasedKeeps, ExtendsRebased
    <3>3. Commits(begun[p].head) \subseteq Commits(Rebased(p))
      BY <2>1, <3>2 DEF CallHolds
    <3>4. begun[p].len + attempt'[p] <= Len(t) + 2
      BY <1>3, <2>1, <3>1 DEF CallHolds
    <3>5. CallHolds(p)'
      <4>1. Commits(begun'[p].head) \subseteq Commits(head'[p])
        BY <3>1, <3>3
      <4>2. begun'[p].len <= Len(remote')
        BY <2>1, <3>1 DEF CallHolds
      <4>3. Extends(head'[p], tracking'[p])
        BY <3>1, <3>2
      <4>4. begun'[p].len + attempt'[p] <= Len(tracking'[p]) + 2
        BY <3>1, <3>4
      <4> QED BY <3>1, <4>1, <4>2, <4>3, <4>4 DEF CallHolds, Commits
    <3> QED BY <1>6, <3>5
  <2>5. CASE pc'[p] = "idle"
    BY <1>6, <2>5
  <2>6. CASE \/ PushAccepted(p) \/ FetchFailed(p) \/ CountFailed(p) \/ NoContention(p)
             \/ RefuseMixed(p) \/ DropReservation(p) \/ RebaseConflict(p)
    <3>1. pc'[p] = "idle"
      BY <1>1, <2>6 DEF PushAccepted, FetchFailed, CountFailed, NoContention, RefuseMixed,
                        DropReservation, RebaseConflict, Return, EndCall, TypeOK
    <3> QED BY <1>6, <3>1
  <2> QED BY <1>8, <2>2, <2>3, <2>4, <2>5, <2>6 DEF Publish
<1>9. CASE Crash(p)
  <2>1. pc'[p] = "idle"
    BY <1>1, <1>9 DEF Crash, EndCall, TypeOK
  <2> QED BY <1>6, <2>1
<1> QED BY <1>2, <1>7, <1>8, <1>9

\* A commit of p's that has landed is on p's branch, and once p has fetched, the tracking
\* branch holds it: a reset to that branch discards none that landed.
LEMMA LandedIsTracked ==
  ASSUME OriginInv, NEW p \in Peers, pc[p] = "classify",
         NEW c, c \in Commits(head[p]), c \in Commits(remote)
  PROVE  c \in Commits(tracking[p])
<1> DEFINE h == head[p]  t == tracking[p]
<1>1. TypeOK /\ Sourced(p)
  BY DEF OriginInv, SpendInv, TypeInv
<1>2. /\ remote \in History /\ t \in History /\ h \in History
      /\ Len(remote) \in Nat /\ Len(t) \in Nat /\ Extends(remote, t)
  BY <1>1 DEF TypeOK, History
<1>3. PICK i \in 1 .. Len(h) : c = h[i]
  BY <1>2 DEF Commits, History
<1>4. PICK k \in 1 .. Len(remote) : c = remote[k]
  BY <1>2 DEF Commits, History
<1>5. CASE c.by = p
  <2>1. k <= Len(t)
    BY <1>1, <1>4, <1>5 DEF Sourced, LandedSeen
  <2>2. k \in 1 .. Len(t) /\ remote[k] = t[k]
    BY <1>2, <1>4, <2>1 DEF Extends, Contains
  <2> QED BY <1>2, <1>4, <2>2 DEF Commits, History
<1>6. CASE c.by # p
  <2>1. Contains(t, h, i)
    BY <1>1, <1>3, <1>6 DEF Sourced, ForeignFetched
  <2>2. i \in 1 .. Len(t) /\ h[i] = t[i]
    BY <1>2, <1>3, <2>1 DEF Contains
  <2> QED BY <1>2, <1>3, <2>2 DEF Commits, History
<1> QED BY <1>5, <1>6

\* What publish() says of a race is so: a "pushed" landed every commit the
\* caller held, a "lane-down" met a remote that moved before each retry, and what
\* a "reservation-dropped" discarded had not landed.
THEOREM RacesAreReported == Spec => ResultsAreTrue
<1> DEFINE Told(p) ==
      /\ Returned(p, "pushed") => Commits(begun[p].head) \subseteq Commits(remote')
      /\ Returned(p, "lane-down") => Len(remote) - begun[p].len >= MaxAttempts - 1
      /\ Returned(p, "reservation-dropped") => Commits(head[p]) \cap Commits(remote) \subseteq Commits(head'[p])
<1>1. OriginInv /\ CallInv /\ [Next]_vars => [\A p \in Peers : Told(p)]_vars
  <2> SUFFICES ASSUME OriginInv, CallInv, [Next]_vars
               PROVE  [\A p \in Peers : Told(p)]_vars
    OBVIOUS
  <2>1. SUFFICES ASSUME NEW p \in Peers, Caller(p) \/ Publish(p) \/ Crash(p)
                 PROVE  \A q \in Peers : Told(q)
    BY DEF Next
  <2>2. TypeOK
    BY DEF OriginInv, SpendInv, TypeInv
  <2>3. ASSUME NEW q \in Peers, q # p PROVE Told(q)
    BY <2>1, <2>2, <2>3, OthersStay DEF Returned
  <2>4. CASE Caller(p)
    <3>1. pc[p] = "idle"
      BY <2>4 DEF Caller, CommitAppend, CommitRevoke, Reserve, Record, Integrate, Separate,
                  Poll, PublishBegin
    <3> QED BY <2>3, <3>1 DEF Returned
  <2>5. CASE Crash(p)
    <3>1. result' = result
      BY <2>5 DEF Crash
    <3> QED BY <2>3, <3>1 DEF Returned
  <2>6. CASE Publish(p)
    <3>1. ASSUME Returned(p, "pushed")
          PROVE  Commits(begun[p].head) \subseteq Commits(remote')
      <4>1. PushAccepted(p)
        BY <2>2, <2>6, <3>1
           DEF Returned, Publish, PushAckLost, PushRejected, FetchOK, FetchFailed,
               CountFailed, NoContention, RefuseMixed, DropReservation, RebaseConflict,
               Rebase, Return, TypeOK
      <4>2. remote' = head[p] /\ pc[p] # "idle"
        BY <4>1 DEF PushAccepted
      <4> QED BY <4>2 DEF CallInv, CallHolds, Commits
    <3>2. ASSUME Returned(p, "lane-down")
          PROVE  Len(remote) - begun[p].len >= MaxAttempts - 1
      <4>1. Rebase(p) /\ attempt[p] = MaxAttempts
        <5>1. Rebase(p)
          BY <2>2, <2>6, <3>2
             DEF Returned, Publish, PushAccepted, PushAckLost, PushRejected, FetchOK,
                 FetchFailed, CountFailed, NoContention, RefuseMixed, DropReservation,
                 RebaseConflict, Return, TypeOK
        <5> QED BY <2>2, <3>2, <5>1 DEF Rebase, Returned, TypeOK
      <4>2. begun[p].len + attempt[p] <= Len(tracking[p]) + 1
        BY <4>1 DEF Rebase, CallInv, CallHolds
      <4>3. /\ Len(tracking[p]) <= Len(remote) /\ Len(tracking[p]) \in Nat
            /\ Len(remote) \in Nat /\ begun[p].len \in Nat /\ MaxAttempts \in Nat
        BY <2>2, BoundsAssumption DEF TypeOK, Extends, Contains, History
      <4> QED BY <4>1, <4>2, <4>3
    <3>3. ASSUME Returned(p, "reservation-dropped")
          PROVE  Commits(head[p]) \cap Commits(remote) \subseteq Commits(head'[p])
      <4>1. DropReservation(p)
        BY <2>2, <2>6, <3>3
           DEF Returned, Publish, PushAccepted, PushAckLost, PushRejected, FetchOK,
               FetchFailed, CountFailed, NoContention, RefuseMixed, RebaseConflict,
               Rebase, Return, TypeOK
      <4>2. pc[p] = "classify" /\ head'[p] \in {tracking[p], head[p]}
        BY <2>2, <4>1 DEF DropReservation, Dropped, TypeOK
      <4> QED BY <4>2, LandedIsTracked DEF Commits
    <3> QED BY <2>3, <3>1, <3>2, <3>3
  <2> QED BY <2>1, <2>4, <2>5, <2>6
<1>2. Spec => []OriginInv /\ []CallInv
  BY OriginInit, OriginStep, CallInit, CallStep, PTL DEF Spec
<1> QED BY <1>1, <1>2, PTL DEF Spec, ResultsAreTrue

-----------------------------------------------------------------------------
(* The shared branch is the ledger.                                        *)

\* What a history says was consumed and revoked, and what h adds to r.
Consumed(h) == {<<c.grant, c.by>> : c \in {d \in Commits(h) : d.kind = "reserve"}}
Revoked(h) == {c.grant : c \in {d \in Commits(h) : d.kind = "revoke"}}
Landing(h, r) == {h[i] : i \in Len(r) + 1 .. Len(h)}

\* History h follows r by one publication of p.
Publishes(p, r, h) ==
  \E taken, withdrawn \in SUBSET Grants :
    /\ taken \cap Revoked(r) = {}
    /\ \A g \in taken, q \in Peers : <<g, q>> \notin Consumed(r)
    /\ Consumed(h) = Consumed(r) \cup (taken \X {p})
    /\ Revoked(h) = Revoked(r) \cup withdrawn

\* A push of a clean branch consumes what was open, by its own peer.
LEMMA PushIsPublication ==
  ASSUME NEW h \in History, NEW r \in History, Extends(h, r), Clean(h),
         NEW p \in Peers, \A c \in Landing(h, r) : c.by = p,
         \A c \in Commits(h) : c.kind # "append" => c.grant \in Grants
  PROVE  Publishes(p, r, h)
<1> DEFINE new == Landing(h, r)
           taken == {c.grant : c \in {d \in new : d.kind = "reserve"}}
           withdrawn == {c.grant : c \in {d \in new : d.kind = "revoke"}}
<1>1. /\ Len(h) \in Nat /\ Len(r) \in Nat /\ Len(r) <= Len(h)
      /\ DOMAIN h = 1 .. Len(h) /\ DOMAIN r = 1 .. Len(r)
      /\ \A i \in 1 .. Len(r) : r[i] = h[i]
  BY DEF Extends, Contains, History
<1>2. Commits(h) = Commits(r) \cup new
  <2>1. Commits(h) \subseteq Commits(r) \cup new
    <3> SUFFICES ASSUME NEW i \in 1 .. Len(h) PROVE h[i] \in Commits(r) \cup new
      BY <1>1 DEF Commits
    <3>1. CASE i <= Len(r)
      <4>1. i \in DOMAIN r /\ r[i] = h[i]
        BY <1>1, <3>1
      <4> QED BY <4>1 DEF Commits
    <3>2. CASE i > Len(r)
      BY <1>1, <3>2 DEF Landing
    <3> QED BY <1>1, <3>1, <3>2
  <2>2. Commits(r) \subseteq Commits(h) /\ new \subseteq Commits(h)
    BY <1>1, CommitsOfExtension DEF Commits, Landing
  <2> QED BY <2>1, <2>2
<1>3. \A c \in new, d \in Commits(r) :
        c.kind = "reserve" /\ d.kind \in {"reserve", "revoke"} => d.grant # c.grant
  <2> SUFFICES ASSUME NEW i \in Len(r) + 1 .. Len(h), NEW j \in 1 .. Len(r),
                      h[i].kind = "reserve", r[j].kind \in {"reserve", "revoke"}
               PROVE  r[j].grant # h[i].grant
    BY <1>1 DEF Commits, Landing
  <2>1. i \in DOMAIN h /\ j \in 1 .. i - 1 /\ r[j] = h[j]
    BY <1>1
  <2> QED BY <2>1 DEF Clean
<1> HIDE DEF new
<1>4. taken \in SUBSET Grants /\ withdrawn \in SUBSET Grants
  BY <1>2
<1>5. taken \cap Revoked(r) = {}
  BY <1>3 DEF Revoked
<1>6. \A g \in taken, q \in Peers : <<g, q>> \notin Consumed(r)
  BY <1>3 DEF Consumed
<1>7. Consumed(h) = Consumed(r) \cup (taken \X {p})
  BY <1>2 DEF Consumed, new
<1>8. Revoked(h) = Revoked(r) \cup withdrawn
  BY <1>2 DEF Revoked
<1> HIDE DEF taken, withdrawn
<1> QED BY <1>4, <1>5, <1>6, <1>7, <1>8 DEF Publishes

\* The shared branch, read as a ledger, implements GrantLedger: a push is one
\* publication of the peer that pushes, and every other step a stutter.
THEOREM ImplementsGrantLedger == Spec => LedgerSpec
<1>1. Init => Ledger!Init
  BY DEF Init, Ledger!Init, Commits
<1>2. OriginInv /\ [Next]_vars => [Ledger!Next]_(Ledger!ledgerVars)
  <2> SUFFICES ASSUME OriginInv, [Next]_vars
               PROVE  [Ledger!Next]_(Ledger!ledgerVars)
    OBVIOUS
  <2>1. CASE remote' = remote
    BY <2>1 DEF Ledger!ledgerVars, Commits
  <2>2. CASE remote' # remote
    <3>1. PICK p \in Peers : Caller(p) \/ Publish(p) \/ Crash(p)
      BY <2>2 DEF Next, vars
    <3>2. TypeOK /\ Sourced(p) /\ Clean(head[p])
      BY DEF OriginInv, SpendInv, TypeInv
    <3> DEFINE h == head[p]
    <3>3. /\ remote' = h /\ Extends(h, remote)
          /\ \A i \in 1 .. Len(h) : h[i].by # p => i <= Len(remote)
      BY <2>2, <3>1, <3>2, PushesOwn DEF Sourced, FastForward
    <3>4. h \in History /\ remote \in History /\ Len(h) \in Nat /\ Len(remote) \in Nat
      BY <3>2 DEF TypeOK, History
    <3>5. \A c \in Landing(h, remote) : c.by = p
      <4> SUFFICES ASSUME NEW i \in Len(remote) + 1 .. Len(h) PROVE h[i].by = p
        BY DEF Landing
      <4>1. i \in 1 .. Len(h) /\ ~(i <= Len(remote))
        BY <3>4
      <4> QED BY <3>3, <4>1
    <3>6. \A c \in Commits(h) : c.kind # "append" => c.grant \in Grants
      BY <3>2 DEF OriginInv, Sourced
    <3>7. Publishes(p, remote, h)
      BY <3>2, <3>3, <3>4, <3>5, <3>6, PushIsPublication
    <3>8. Consumed(remote)' = Consumed(h) /\ Revoked(remote)' = Revoked(h)
      BY <3>3
    <3>9. PICK taken, withdrawn \in SUBSET Grants : Ledger!Publish(p, taken, withdrawn)
      BY <3>7, <3>8 DEF Publishes, Ledger!Publish, Consumed, Revoked
    <3> QED BY <3>9 DEF Ledger!Next
  <2> QED BY <2>1, <2>2
<1>3. Spec => []OriginInv
  BY OriginInit, OriginStep, PTL DEF Spec
<1> QED BY <1>1, <1>2, <1>3, PTL DEF Spec, LedgerSpec, Ledger!Spec
=============================================================================
