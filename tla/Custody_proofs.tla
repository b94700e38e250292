--------------------------- MODULE Custody_proofs ---------------------------
(***************************************************************************)
(* The safety properties of the custody tools, for every set of sessions,  *)
(* trees, runs, seats and pids, every TTL, threshold, window and bound,    *)
(* and every fault: first of each tool by itself, then of CustodySpec.     *)
(*                                                                         *)
(* None is inductive: each speaks of an answer, a verdict or a killed      *)
(* process, and LeaseToolInv, AttemptInv and WedgeInv say of every earlier *)
(* moment why the steps to come cannot get it wrong.                       *)
(***************************************************************************)
EXTENDS MCCustody, FiniteSetTheorems, WellFoundedInduction, SequenceTheorems, TLAPS

-----------------------------------------------------------------------------
(* The census.  CensusInv says why no reading to come can drop a peer that  *)
(* is due, whatever touches come first: its lease cannot be found absent,   *)
(* expired, or in another tree.                                             *)

\* A lease records the tree of its seat, or none, and a touch under way is
\* newer than what it replaces.
LeaseInv ==
  \A s \in Sessions :
     /\ lease[s].tree \in {None, home[s]}
     /\ lease[s].state = "written" /\ drawn[s] # None => lease[s].stamp <= drawn[s]

\* s cannot be read as absent, nor as expired.
Covered(s) == /\ lease[s].state # "absent"
              /\ lease[s].state = "written" => probe.now - lease[s].stamp <= Ttl
              /\ drawn[s] # None => probe.now - drawn[s] <= Ttl

CensusInv ==
  /\ probe.pc \in {"reading", "reading-self", "answered", "answered-self"} =>
       \A s \in probe.due \cap up : /\ Covered(s) /\ home[s] = Here
                                    /\ s \in probe.found \cup probe.todo \cup {probe.at}
  /\ probe.pc \in {"answered", "answered-self"} => probe.todo = {} /\ probe.at = None

LeaseToolInv == TypeOK /\ LeaseInv /\ CensusInv

LEMMA LeaseToolInit == Init => LeaseToolInv
BY NoneAssumption, LeaseAssumption
   DEF Init, LeaseToolInv, TypeOK, LeaseInv, CensusInv, Idle, File, Absent

LEMMA TypeStep == LeaseToolInv /\ [Next]_leaseVars => TypeOK'
<1> SUFFICES ASSUME LeaseToolInv, [Next]_leaseVars PROVE TypeOK'
  OBVIOUS
<1> USE NoneAssumption, LeaseAssumption DEF LeaseToolInv, TypeOK
<1>1. ASSUME NEW s \in Sessions, Draw(s) PROVE TypeOK'
  BY <1>1 DEF Draw
<1>2. ASSUME NEW s \in Sessions, Truncate(s) PROVE TypeOK'
  BY <1>2 DEF Truncate, Empty, File
<1>3. ASSUME NEW s \in Sessions, Write(s) PROVE TypeOK'
  BY <1>3 DEF Write, Written, File
<1>4. ASSUME NEW s \in Sessions, Stop(s) PROVE TypeOK'
  BY <1>4 DEF Stop, Absent, File
<1>5. ASSUME NEW s \in Sessions, ReadAge(s) PROVE TypeOK'
  <2>1. CASE Reading(lease[s], probe.now) = "raised"
    <3>1. probe' = [pc |-> "raised", now |-> 0, todo |-> {}, at |-> None,
                    found |-> {}, due |-> {}]
      BY <1>5, <2>1 DEF ReadAge, Idle
    <3> QED BY <1>5, <3>1 DEF ReadAge, sessions
  <2>2. CASE Reading(lease[s], probe.now) # "raised"
    BY <1>5, <2>2 DEF ReadAge, sessions
  <2> QED BY <2>1, <2>2
<1>6. ASSUME NEW q \in {"peers", "self"}, Ask(q) PROVE TypeOK'
  <2>1. probe' = [pc |-> q, now |-> clock, todo |-> {}, at |-> None,
                  found |-> {}, due |-> {}]
    BY <1>6 DEF Ask, Idle
  <2> QED BY <1>6, <2>1 DEF Ask, sessions
<1>7. CASE List
  BY <1>7 DEF List, sessions
<1>8. CASE ReadTree
  BY <1>8 DEF ReadTree, sessions
<1>9. CASE Answer
  BY <1>9 DEF Answer, sessions
<1>10. CASE Forget
  BY <1>10 DEF Forget, sessions, Idle
<1>11. CASE Tick
  <2>1. clock \in Nat /\ clock' = clock + 1 /\ clock' \in 0 .. MaxClock
    BY <1>11 DEF Tick
  <2>2. 0 .. clock \subseteq 0 .. clock'
    BY <2>1
  <2>3. \A s \in Sessions : lease'[s].stamp <= clock'
    BY <1>11, <2>1 DEF Tick, sessions, File
  <2>4. drawn' \in [Sessions -> {None} \cup 0 .. clock']
    BY <1>11, <2>2 DEF Tick, sessions
  <2>5. probe' = probe /\ probe.now \in 0 .. clock'
    BY <1>11, <2>2 DEF Tick
  <2> QED BY <1>11, <2>1, <2>3, <2>4, <2>5 DEF Tick, sessions
<1>12. CASE UNCHANGED leaseVars
  BY <1>12 DEF leaseVars
<1> QED BY <1>1, <1>2, <1>3, <1>4, <1>5, <1>6, <1>7, <1>8, <1>9, <1>10, <1>11, <1>12 DEF Next

LEMMA LeaseStep == LeaseToolInv /\ [Next]_leaseVars => LeaseInv'
<1> SUFFICES ASSUME LeaseToolInv, [Next]_leaseVars PROVE LeaseInv'
  OBVIOUS
<1> USE NoneAssumption DEF LeaseToolInv, TypeOK, LeaseInv
<1>1. ASSUME NEW s \in Sessions, Draw(s) PROVE LeaseInv'
  BY <1>1 DEF Draw
<1>2. ASSUME NEW s \in Sessions, Truncate(s) PROVE LeaseInv'
  BY <1>2 DEF Truncate, Empty
<1>3. ASSUME NEW s \in Sessions, Write(s) PROVE LeaseInv'
  BY <1>3 DEF Write, Written
<1>4. ASSUME NEW s \in Sessions, Stop(s) PROVE LeaseInv'
  BY <1>4 DEF Stop, Absent
<1>5. CASE UNCHANGED sessions
  BY <1>5 DEF sessions
<1> QED BY <1>1, <1>2, <1>3, <1>4, <1>5
        DEF Next, leaseVars, sessions, ReadAge, Ask, List, ReadTree, Answer, Forget, Tick

\* A session keeps its cover through every step of the sessions and the clock.
LEMMA CoverKept ==
  ASSUME LeaseToolInv, NEW s \in Sessions, s \in up', Covered(s), probe' = probe,
         \/ \E t \in Sessions : Draw(t) \/ Truncate(t) \/ Write(t) \/ Stop(t)
         \/ UNCHANGED sessions
  PROVE  Covered(s)'
<1> USE NoneAssumption, LeaseAssumption DEF LeaseToolInv, TypeOK, Covered
<1>1. ASSUME NEW t \in Sessions, Draw(t) PROVE Covered(s)'
  BY <1>1 DEF Draw
<1>2. ASSUME NEW t \in Sessions, Truncate(t) PROVE Covered(s)'
  BY <1>2 DEF Truncate, Empty
<1>3. ASSUME NEW t \in Sessions, Write(t) PROVE Covered(s)'
  BY <1>3 DEF Write, Written
<1>4. ASSUME NEW t \in Sessions, Stop(t) PROVE Covered(s)'
  BY <1>4 DEF Stop
<1>5. CASE UNCHANGED sessions
  BY <1>5 DEF sessions
<1> QED BY <1>1, <1>2, <1>3, <1>4, <1>5

LEMMA CensusStep == LeaseToolInv /\ [Next]_leaseVars => CensusInv'
<1> SUFFICES ASSUME LeaseToolInv, [Next]_leaseVars PROVE CensusInv'
  OBVIOUS
<1> USE NoneAssumption, LeaseAssumption
\* The sessions and the clock.
<1>1. ASSUME probe' = probe, up' \subseteq up, home' = home,
             \/ \E t \in Sessions : Draw(t) \/ Truncate(t) \/ Write(t) \/ Stop(t)
             \/ UNCHANGED sessions
      PROVE CensusInv'
  <2>1. \A s \in probe.due \cap up' : Covered(s) => Covered(s)'
    BY <1>1, CoverKept DEF LeaseToolInv, TypeOK
  <2> QED BY <1>1, <2>1 DEF LeaseToolInv, CensusInv
<1>2. ASSUME NEW s \in Sessions, ReadAge(s) PROVE CensusInv'
  <2> USE <1>2 DEF LeaseToolInv, TypeOK, CensusInv, Covered, ReadAge, sessions
  <2>1. CASE Reading(lease[s], probe.now) = "raised"
    BY <2>1 DEF Idle
  <2>2. CASE Reading(lease[s], probe.now) # "raised"
    <3>1. s \in probe.due \cap up => /\ Reading(lease[s], probe.now) # "absent"
                                     /\ ~Expired(s)
      BY <2>2 DEF Reading, Expired, AgeOf, File
    <3> QED BY <2>2, <3>1
  <2> QED BY <2>1, <2>2
<1>3. ASSUME NEW q \in {"peers", "self"}, Ask(q) PROVE CensusInv'
  BY <1>3 DEF Ask, CensusInv, Idle, LeaseToolInv, TypeOK
<1>4. CASE List
  <2> DEFINE listed == {s \in Sessions : /\ lease[s].state # "absent"
                                         /\ (s = Self) = (probe.pc = "self")}
  <2>1. ASSUME NEW s \in listed, Live(s, probe.now) PROVE Covered(s)
    <3>1. /\ lease[s] \in File /\ probe.now \in Nat /\ Ttl \in Nat
          /\ drawn[s] # None => drawn[s] \in Nat
      BY <2>1 DEF LeaseToolInv, TypeOK
    <3>2. lease[s].state = "written" /\ drawn[s] # None => lease[s].stamp <= drawn[s]
      BY <2>1 DEF LeaseToolInv, LeaseInv
    <3>3. lease[s].state \in {"empty", "written"} /\ lease[s].stamp \in Nat
      BY <2>1, <3>1 DEF File
    <3>4. CASE lease[s].state = "empty"
      BY <2>1, <3>1, <3>4 DEF Live, Covered
    <3>5. CASE lease[s].state = "written"
      <4>1. probe.now - lease[s].stamp <= Ttl
        BY <2>1, <3>5 DEF Live
      <4> QED BY <4>1, <3>1, <3>2, <3>3, <3>5 DEF Covered
    <3> QED BY <3>3, <3>4, <3>5
  <2>2. UNCHANGED <<lease, drawn, home, up>> /\ probe'.now = probe.now
    BY <1>4 DEF List, sessions, LeaseToolInv, TypeOK
  <2>3. \A s \in Sessions : Covered(s)' = Covered(s)
    BY <2>2 DEF Covered
  <2>4. /\ probe'.todo = listed
        /\ probe'.due = {s \in listed : Live(s, probe.now) /\ home[s] = Here}
        /\ probe'.pc \in {"reading", "reading-self"}
    BY <1>4 DEF List, LeaseToolInv, TypeOK
  <2> QED BY <2>1, <2>2, <2>3, <2>4 DEF CensusInv
<1>5. CASE ReadTree
  <2>1. probe.at \in probe.due \cap up /\ probe.pc \in {"reading", "reading-self"}
          => Counts(TreeOf(lease[probe.at]))
    BY <1>5 DEF ReadTree, LeaseToolInv, TypeOK, LeaseInv, CensusInv, Counts, TreeOf
  <2> QED BY <1>5, <2>1 DEF ReadTree, sessions, LeaseToolInv, TypeOK, CensusInv, Covered
<1>6. CASE Answer
  BY <1>6 DEF Answer, sessions, LeaseToolInv, TypeOK, CensusInv, Covered
<1>7. CASE Forget
  BY <1>7 DEF Forget, CensusInv, Idle
<1>8. ASSUME NEW t \in Sessions, Draw(t) \/ Truncate(t) \/ Write(t) \/ Stop(t)
      PROVE CensusInv'
  BY <1>1, <1>8 DEF Draw, Truncate, Write, Stop
<1>9. CASE Tick \/ UNCHANGED leaseVars
  BY <1>1, <1>9 DEF Tick, sessions, leaseVars
<1> QED BY <1>2, <1>3, <1>4, <1>5, <1>6, <1>7, <1>8, <1>9 DEF Next

LEMMA LeaseToolStep == LeaseToolInv /\ [Next]_leaseVars => LeaseToolInv'
BY TypeStep, LeaseStep, CensusStep DEF LeaseToolInv

LEMMA CensusHolds == LeaseToolInv => NoLivePeerMissed
BY NoneAssumption DEF LeaseToolInv, TypeOK, CensusInv, NoLivePeerMissed

\* live_peers() and self_lease_fresh() never answer without a session that was
\* live in the tree when the directory was listed and still runs.
THEOREM CensusIsComplete == Spec => []NoLivePeerMissed
BY LeaseToolInit, LeaseToolStep, CensusHolds, PTL DEF Spec

-----------------------------------------------------------------------------
(* Naturals and places.                                                    *)

\* Every nonempty set of naturals has a least element, and every nonempty set of places
\* of a sequence a last one.
LEMMA LeastNat ==
  ASSUME NEW S \in SUBSET Nat, S # {}
  PROVE  \E m \in S : \A k \in S : m <= k
<1> DEFINE T == {1 .. n : n \in S}
<1>1. IsWellFoundedOn(StrictSubsetOrdering(Nat), FiniteSubsetsOf(Nat))
  BY FS_StrictSubsetOrderingWellFounded
<1>2. T \subseteq FiniteSubsetsOf(Nat)
  <2> SUFFICES ASSUME NEW n \in S PROVE 1 .. n \in FiniteSubsetsOf(Nat)
    OBVIOUS
  <2>1. IsFiniteSet(1 .. n) /\ 1 .. n \subseteq Nat
    BY FS_Interval
  <2> QED BY <2>1 DEF FiniteSubsetsOf
<1>3. T # {}
  OBVIOUS
<1>4. PICK x \in T : \A y \in T : <<y, x>> \notin StrictSubsetOrdering(Nat)
  <2> HIDE DEF T
  <2> QED BY <1>1, <1>2, <1>3, WFMin
<1>5. PICK m \in S : x = 1 .. m
  OBVIOUS
<1>6. ASSUME NEW k \in S, k < m PROVE FALSE
  <2>1. 1 .. k \in T
    OBVIOUS
  <2>2. 1 .. k \subseteq 1 .. m /\ m \in 1 .. m /\ m \notin 1 .. k
    BY <1>6
  <2>3. <<1 .. k, 1 .. m>> \in StrictSubsetOrdering(Nat)
    BY <2>2 DEF StrictSubsetOrdering
  <2> QED BY <1>4, <1>5, <2>1, <2>3
<1> QED BY <1>6

LEMMA LastPlace ==
  ASSUME NEW n \in Nat, NEW S \in SUBSET (1 .. n), S # {}
  PROVE  \E m \in S : \A k \in S : k <= m
<1> DEFINE T == {n - k : k \in S}
<1>1. T \in SUBSET Nat /\ T # {}
  <2>1. \A k \in S : n - k \in Nat
    OBVIOUS
  <2> QED BY <2>1
<1>2. PICK x \in T : \A y \in T : x <= y
  <2> HIDE DEF T
  <2> QED BY <1>1, LeastNat
<1>3. PICK m \in S : x = n - m
  OBVIOUS
<1>4. ASSUME NEW k \in S PROVE k <= m
  <2>1. n - m <= n - k
    BY <1>2, <1>3
  <2>2. k \in Nat /\ m \in Nat
    OBVIOUS
  <2> QED BY <2>1, <2>2
<1> QED BY <1>4

-----------------------------------------------------------------------------
(* The attempt log.                                                        *)

\* Whatever was recorded of a run was recorded when it ran; an attempt is open only while
\* its run is inside, or was killed there, or lost a line; and only a cut line is no run's.
RecordsAreOfRuns ==
  \A k \in DOMAIN lines : lines[k].kind \in {"A", "C"} /\ lines[k].id # None =>
    lines[k].id \in Runs /\ pc[lines[k].id] \notin {"new", "counted"}
Completed(log, id) == \E j \in DOMAIN log : log[j].kind = "C" /\ log[j].id = id
OpenMeansInside ==
  /\ whole => ~unended
  /\ \A k \in DOMAIN lines : lines[k].kind = "A" =>
       IF lines[k].id = None THEN ~whole
       ELSE pc[lines[k].id] \in {"working", "killed"} \/ lines[k].id \in lost
            \/ Completed(lines, lines[k].id)

\* Runs that follow one another and are not cut off write lines in pairs, so that they
\* meet the cap and mark it.
Sequel ==
  /\ Len(lines) <= MaxLines
  /\ \A r \in Runs : pc[r] # "untracked"
  /\ \A r, s \in Runs : pc[r] \in {"counted", "working"} /\ pc[s] \in {"counted", "working"} => r = s
  /\ \A r \in Runs : pc[r] = "counted" => count[r] = Len(lines)
  /\ \A r \in Runs : pc[r] = "working" =>
       /\ Len(lines) % 2 = 1 /\ lines[Len(lines)].kind = "A" /\ lines[Len(lines)].id = r
       /\ ~Completed(lines, r)
  /\ (\A r \in Runs : pc[r] # "working") => Len(lines) % 2 = 0
LinesComeInPairs == alone /\ unkilled /\ whole /\ ~Attempts!Capped => Sequel

AttemptInv == Attempts!TypeOK /\ RecordsAreOfRuns /\ OpenMeansInside /\ LinesComeInPairs

LEMMA AttemptInit == Attempts!Init => AttemptInv
<1> SUFFICES ASSUME Attempts!Init PROVE AttemptInv
  OBVIOUS
<1>1. lines = <<>> /\ Len(lines) = 0 /\ DOMAIN lines = {} /\ lines \in Seq(Attempts!Line)
  BY DEF Attempts!Init
<1>2. /\ clock = 0 /\ unended = FALSE /\ pc = [r \in Runs |-> "new"] /\ count = [r \in Runs |-> 0]
      /\ alone = TRUE /\ unkilled = TRUE /\ whole = TRUE /\ lost = {}
  BY DEF Attempts!Init
<1>3. Attempts!TypeOK
  <2>1. clock \in 0 .. LastTick
    BY <1>2, AttemptAssumption
  <2>2. pc \in [Runs -> {"new", "counted", "working", "untracked", "returned", "killed"}]
    BY <1>2
  <2>3. count \in [Runs -> Nat]
    BY <1>2
  <2> QED BY <1>1, <1>2, <2>1, <2>2, <2>3 DEF Attempts!TypeOK
<1>4. RecordsAreOfRuns /\ OpenMeansInside
  BY <1>1, <1>2 DEF RecordsAreOfRuns, OpenMeansInside
<1>5. LinesComeInPairs
  BY <1>1, <1>2, AttemptAssumption DEF LinesComeInPairs, Sequel
<1> QED BY <1>3, <1>4, <1>5 DEF AttemptInv

\* What an append leaves of the lines before it: one line more, or the last one mended.
Gained(l) == lines' = Append(lines, l)
Mended == /\ lines' \in Seq(Attempts!Line) /\ Len(lines') = Len(lines)
          /\ \A k \in DOMAIN lines :
               \/ lines'[k] = lines[k]
               \/ /\ lines[k].kind \in {"cutA", "cutC"} /\ unended
                  /\ lines'[k].id = None /\ lines'[k].ts = lines[k].ts

LEMMA Gains ==
  ASSUME lines \in Seq(Attempts!Line), NEW l \in Attempts!Line, Gained(l)
  PROVE  /\ lines' \in Seq(Attempts!Line) /\ Len(lines') = Len(lines) + 1
         /\ DOMAIN lines' = 1 .. Len(lines) + 1 /\ DOMAIN lines = 1 .. Len(lines)
         /\ lines'[Len(lines) + 1] = l /\ \A k \in DOMAIN lines : lines'[k] = lines[k]
         /\ Len(lines) \in Nat
BY DEF Gained

LEMMA CutReads ==
  ASSUME NEW l \in Attempts!Line
  PROVE  /\ Attempts!Cut(l) \in Attempts!Line /\ Attempts!Cut(l).kind \notin {"A", "C"}
         /\ Attempts!Cut(l).id = None /\ Attempts!Cut(l).ts = l.ts
<1>1. PICK k : k = (CASE l.kind = "A" -> "cutA" [] l.kind = "C" -> "cutC" [] OTHER -> "cut")
  OBVIOUS
<1>2. k \in {"cutA", "cutC", "cut"}
  BY <1>1
<1>3. Attempts!Cut(l) = [kind |-> k, ts |-> l.ts, id |-> None]
  BY <1>1 DEF Attempts!Cut
<1>4. l.ts \in Nat
  BY DEF Attempts!Line
<1> QED BY <1>2, <1>3, <1>4 DEF Attempts!Line

LEMMA JoinedHas ==
  ASSUME lines \in Seq(Attempts!Line), unended \in BOOLEAN, unended => lines # <<>>,
         NEW l \in Attempts!Line, lines' \in Attempts!Joined(l)
  PROVE  /\ lines' # <<>>
         /\ IF unended THEN Mended ELSE Gained(l)
<1>1. Len(lines) \in Nat /\ DOMAIN lines = 1 .. Len(lines)
  OBVIOUS
<1>2. CASE ~unended
  <2>1. Gained(l)
    BY <1>2 DEF Attempts!Joined, Gained
  <2> QED BY <1>1, <1>2, <2>1, Gains
<1>3. CASE unended
  <2>1. PICK cut : cut = lines[Len(lines)]
    OBVIOUS
  <2>2. Len(lines) \in DOMAIN lines /\ cut \in Attempts!Line
    BY <1>1, <1>3, <2>1
  <2>3. PICK read \in Attempts!Glued(cut, l) : lines' = [lines EXCEPT ![Len(lines)] = read]
    BY <1>3, <2>1 DEF Attempts!Joined
  <2>4. \/ read = cut
        \/ /\ cut.kind \in {"cutA", "cutC"} /\ read \in Attempts!Line
           /\ read.id = None /\ read.ts = cut.ts
    <3>1. CASE read = cut
      BY <3>1
    <3>2. ASSUME NEW k \in {"A", "C"}, cut.kind = (IF k = "A" THEN "cutA" ELSE "cutC"),
                 read = [kind |-> k, ts |-> cut.ts, id |-> None]
          PROVE  /\ cut.kind \in {"cutA", "cutC"} /\ read \in Attempts!Line
                 /\ read.id = None /\ read.ts = cut.ts
      <4>1. cut.ts \in Nat
        BY <2>2 DEF Attempts!Line
      <4> QED BY <3>2, <4>1 DEF Attempts!Line
    <3> QED BY <3>1, <3>2 DEF Attempts!Glued
  <2>5. read \in Attempts!Line
    BY <2>2, <2>4
  <2>6. lines' \in Seq(Attempts!Line) /\ Len(lines') = Len(lines) /\ lines' # <<>>
    BY <1>1, <2>2, <2>3, <2>5
  <2>7. \A k \in DOMAIN lines : lines'[k] = IF k = Len(lines) THEN read ELSE lines[k]
    BY <1>1, <2>3
  <2> QED BY <1>3, <2>1, <2>4, <2>6, <2>7 DEF Mended
<1> QED BY <1>2, <1>3

LEMMA PutHas ==
  ASSUME lines \in Seq(Attempts!Line), unended \in BOOLEAN, unended => lines # <<>>,
         NEW l \in Attempts!Line, Attempts!Put(l) \/ Attempts!PutPart(l)
  PROVE  /\ Mended \/ \E part \in {l, Attempts!Cut(l)} : part \in Attempts!Line /\ Gained(part)
         /\ unended' \in BOOLEAN /\ (unended' => lines' # <<>>)
<1>1. CASE UNCHANGED <<lines, unended>>
  BY <1>1 DEF Mended
<1>2. ASSUME NEW part \in {l, Attempts!Cut(l)}, lines' \in Attempts!Joined(part), unended' \in BOOLEAN
      PROVE  /\ Mended \/ (part \in Attempts!Line /\ Gained(part))
             /\ lines' # <<>>
  <2>1. part \in Attempts!Line
    BY CutReads
  <2> QED BY <1>2, <2>1, JoinedHas
<1> QED BY <1>1, <1>2 DEF Attempts!Put, Attempts!PutPart

AttemptState == {"new", "counted", "working", "untracked", "returned", "killed"}
LEMMA AttemptTypeStep ==
  ASSUME AttemptInv, [Attempts!Next]_(Attempts!attemptVars)
  PROVE  Attempts!TypeOK'
<1>1. /\ clock \in 0 .. LastTick /\ clock \in Nat /\ LastTick \in Nat
      /\ lines \in Seq(Attempts!Line) /\ unended \in BOOLEAN /\ (unended => lines # <<>>)
      /\ \A k \in DOMAIN lines : lines[k].ts <= clock
      /\ pc \in [Runs -> AttemptState] /\ count \in [Runs -> Nat]
      /\ alone \in BOOLEAN /\ unkilled \in BOOLEAN /\ whole \in BOOLEAN /\ lost \subseteq Runs
  BY AttemptAssumption DEF AttemptInv, Attempts!TypeOK, AttemptState
\* The lines.
<1>2. ASSUME NEW l \in Attempts!Line, l.ts <= clock, clock' = clock,
             \/ Attempts!Put(l) \/ Attempts!PutPart(l) \/ UNCHANGED <<lines, unended>>
      PROVE  /\ lines' \in Seq(Attempts!Line) /\ unended' \in BOOLEAN /\ (unended' => lines' # <<>>)
             /\ \A k \in DOMAIN lines' : lines'[k].ts <= clock'
  <2>1. CASE UNCHANGED <<lines, unended>>
    BY <1>1, <1>2, <2>1
  <2>2. CASE Attempts!Put(l) \/ Attempts!PutPart(l)
    <3>1. /\ Mended \/ \E part \in {l, Attempts!Cut(l)} : part \in Attempts!Line /\ Gained(part)
          /\ unended' \in BOOLEAN /\ (unended' => lines' # <<>>)
      BY <1>1, <2>2, PutHas
    <3>2. CASE Mended
      <4>1. lines' \in Seq(Attempts!Line) /\ DOMAIN lines' = DOMAIN lines
            /\ \A k \in DOMAIN lines : lines'[k].ts = lines[k].ts
        BY <1>1, <3>2 DEF Mended
      <4> QED BY <1>1, <1>2, <3>1, <4>1
    <3>3. ASSUME NEW part \in {l, Attempts!Cut(l)}, part \in Attempts!Line, Gained(part)
          PROVE  /\ lines' \in Seq(Attempts!Line)
                 /\ \A k \in DOMAIN lines' : lines'[k].ts <= clock'
      <4>1. part.ts <= clock'
        BY <1>1, <1>2, CutReads
      <4>2. /\ lines' \in Seq(Attempts!Line) /\ Len(lines') = Len(lines) + 1
            /\ DOMAIN lines' = 1 .. Len(lines) + 1 /\ DOMAIN lines = 1 .. Len(lines)
            /\ lines'[Len(lines) + 1] = part /\ \A k \in DOMAIN lines : lines'[k] = lines[k]
            /\ Len(lines) \in Nat
        BY <1>1, <3>3, Gains
      <4>3. ASSUME NEW k \in DOMAIN lines' PROVE lines'[k].ts <= clock'
        <5>1. k \in DOMAIN lines \/ k = Len(lines) + 1
          BY <4>2
        <5> QED BY <1>1, <1>2, <4>1, <4>2, <5>1
      <4> QED BY <4>2, <4>3
    <3> QED BY <3>1, <3>2, <3>3
  <2> QED BY <1>2, <2>1, <2>2
<1>3. ASSUME NEW r \in Runs
      PROVE  /\ [kind |-> "A", ts |-> clock, id |-> r] \in Attempts!Line
             /\ [kind |-> "C", ts |-> clock, id |-> r] \in Attempts!Line
             /\ Attempts!Marker \in Attempts!Line /\ Attempts!Marker.ts <= clock
             /\ Attempts!Pending(r) \in Attempts!Line /\ Attempts!Pending(r).ts <= clock
  <2>1. /\ [kind |-> "A", ts |-> clock, id |-> r] \in Attempts!Line
        /\ [kind |-> "C", ts |-> clock, id |-> r] \in Attempts!Line
        /\ Attempts!Marker \in Attempts!Line /\ Attempts!Marker.ts <= clock
    BY <1>1 DEF Attempts!Line, Attempts!Marker
  <2>2. Attempts!Pending(r) \in {Attempts!Marker, [kind |-> "A", ts |-> clock, id |-> r],
                                 [kind |-> "C", ts |-> clock, id |-> r]}
    BY DEF Attempts!Pending
  <2> QED BY <1>1, <2>1, <2>2
<1>4. ASSUME NEW r \in Runs,
             \/ Attempts!Count(r) \/ Attempts!CountFails(r) \/ Attempts!Start(r) \/ Attempts!Refuse(r)
             \/ Attempts!Finish(r) \/ Attempts!Leave(r) \/ Attempts!AppendFails(r) \/ Attempts!Kill(r)
      PROVE  /\ pc' \in [Runs -> AttemptState] /\ count' \in [Runs -> Nat] /\ clock' = clock
             /\ alone' \in BOOLEAN /\ unkilled' \in BOOLEAN /\ whole' \in BOOLEAN /\ lost' \subseteq Runs
  <2> USE DEF AttemptState
  <2>1. CASE Attempts!Count(r)
    BY <1>1, <2>1 DEF Attempts!Count
  <2>2. CASE Attempts!CountFails(r)
    BY <1>1, <2>2 DEF Attempts!CountFails
  <2>3. CASE Attempts!Start(r)
    BY <1>1, <2>3 DEF Attempts!Start
  <2>4. CASE Attempts!Refuse(r)
    BY <1>1, <2>4 DEF Attempts!Refuse
  <2>5. CASE Attempts!Finish(r)
    BY <1>1, <2>5 DEF Attempts!Finish
  <2>6. CASE Attempts!Leave(r)
    BY <1>1, <2>6 DEF Attempts!Leave
  <2>7. CASE Attempts!AppendFails(r)
    BY <1>1, <2>7 DEF Attempts!AppendFails
  <2>8. CASE Attempts!Kill(r)
    BY <1>1, <2>8 DEF Attempts!Kill
  <2> QED BY <1>4, <2>1, <2>2, <2>3, <2>4, <2>5, <2>6, <2>7, <2>8
<1>5. ASSUME NEW r \in Runs,
             \/ Attempts!Count(r) \/ Attempts!CountFails(r) \/ Attempts!Start(r) \/ Attempts!Refuse(r)
             \/ Attempts!Finish(r) \/ Attempts!Leave(r) \/ Attempts!AppendFails(r) \/ Attempts!Kill(r)
      PROVE  \E l \in Attempts!Line :
               /\ l.ts <= clock
               /\ \/ Attempts!Put(l) \/ Attempts!PutPart(l) \/ UNCHANGED <<lines, unended>>
  <2>1. CASE UNCHANGED <<lines, unended>>
    BY <1>3, <2>1
  <2>2. ASSUME NEW kind \in {"A", "C"}, Attempts!Put([kind |-> kind, ts |-> clock, id |-> r])
        PROVE  \E l \in Attempts!Line : l.ts <= clock /\ Attempts!Put(l)
    <3>1. PICK l : l = [kind |-> kind, ts |-> clock, id |-> r]
      OBVIOUS
    <3>2. l \in Attempts!Line
      BY <1>3, <3>1
    <3>3. l.ts = clock
      BY <3>1
    <3>4. l.ts <= clock
      BY <1>1, <3>3
    <3> QED BY <2>2, <3>1, <3>2, <3>4
  <2>4. CASE Attempts!Put(Attempts!Marker)
    BY <1>3, <2>4
  <2>5. CASE Attempts!PutPart(Attempts!Pending(r))
    BY <1>3, <2>5
  <2> QED BY <1>5, <2>1, <2>2, <2>4, <2>5 DEF Attempts!Count, Attempts!CountFails, Attempts!Start,
       Attempts!Refuse, Attempts!Finish, Attempts!Leave, Attempts!AppendFails, Attempts!Kill
<1>6. ASSUME NEW r \in Runs,
             \/ Attempts!Count(r) \/ Attempts!CountFails(r) \/ Attempts!Start(r) \/ Attempts!Refuse(r)
             \/ Attempts!Finish(r) \/ Attempts!Leave(r) \/ Attempts!AppendFails(r) \/ Attempts!Kill(r)
      PROVE  Attempts!TypeOK'
  <2>1. clock' = clock /\ clock' \in 0 .. LastTick
    BY <1>1, <1>4, <1>6
  <2>2. PICK l \in Attempts!Line :
               /\ l.ts <= clock
               /\ \/ Attempts!Put(l) \/ Attempts!PutPart(l) \/ UNCHANGED <<lines, unended>>
    BY <1>5, <1>6
  <2>3. /\ lines' \in Seq(Attempts!Line) /\ unended' \in BOOLEAN /\ (unended' => lines' # <<>>)
        /\ \A k \in DOMAIN lines' : lines'[k].ts <= clock'
    BY <1>2, <2>1, <2>2
  <2> QED BY <1>4, <1>6, <2>1, <2>3 DEF Attempts!TypeOK, AttemptState
<1>7. CASE Attempts!Tick
  <2>1. clock' \in 0 .. LastTick /\ clock <= clock'
    BY <1>1, <1>7 DEF Attempts!Tick
  <2>2. UNCHANGED <<lines, unended, pc, count, alone, unkilled, whole, lost>>
    BY <1>7 DEF Attempts!Tick
  <2>3. \A k \in DOMAIN lines : lines[k] \in Attempts!Line
    BY <1>1
  <2>4. ASSUME NEW k \in DOMAIN lines' PROVE lines'[k].ts <= clock'
    BY <1>1, <2>1, <2>2, <2>3 DEF Attempts!Line
  <2> QED BY <1>1, <2>1, <2>2, <2>4 DEF Attempts!TypeOK, AttemptState
<1>8. CASE UNCHANGED Attempts!attemptVars
  BY <1>1, <1>8 DEF Attempts!attemptVars, Attempts!TypeOK, AttemptState
<1> QED BY <1>6, <1>7, <1>8 DEF Attempts!Next

LEMMA RecordsStep ==
  ASSUME AttemptInv, [Attempts!Next]_(Attempts!attemptVars)
  PROVE  RecordsAreOfRuns'
<1>1. /\ lines \in Seq(Attempts!Line) /\ unended \in BOOLEAN /\ pc \in [Runs -> AttemptState]
      /\ RecordsAreOfRuns /\ (unended => lines # <<>>)
  BY DEF AttemptInv, Attempts!TypeOK, AttemptState
\* Whatever r appends of itself, it is past counting.
<1>2. ASSUME NEW r \in Runs, NEW state \in AttemptState \ {"new", "counted"},
             pc' = [pc EXCEPT ![r] = state],
             Mended \/ \E l \in Attempts!Line : l.id \in {r, None} /\ Gained(l)
      PROVE  RecordsAreOfRuns'
  <2>1. \A s \in Runs : pc'[s] \in {"new", "counted"} => pc[s] \in {"new", "counted"}
    BY <1>1, <1>2
  <2>2. pc'[r] \notin {"new", "counted"}
    BY <1>1, <1>2
  <2>3. CASE Mended
    <3>1. DOMAIN lines' = DOMAIN lines
      BY <1>1, <2>3 DEF Mended
    <3>2. \A k \in DOMAIN lines' : lines'[k].id = None \/ lines'[k] = lines[k]
      BY <2>3, <3>1 DEF Mended
    <3> QED BY <1>1, <2>1, <3>1, <3>2 DEF RecordsAreOfRuns
  <2>4. ASSUME NEW l \in Attempts!Line, Gained(l), l.id \in {r, None}
        PROVE  RecordsAreOfRuns'
    <3>1. /\ DOMAIN lines' = 1 .. Len(lines) + 1 /\ DOMAIN lines = 1 .. Len(lines)
          /\ lines'[Len(lines) + 1] = l /\ \A k \in DOMAIN lines : lines'[k] = lines[k]
          /\ Len(lines) \in Nat
      BY <1>1, <2>4, Gains
    <3>2. \A k \in DOMAIN lines' : k \in DOMAIN lines \/ lines'[k] = l
      BY <3>1
    <3> QED BY <1>1, <2>1, <2>2, <2>4, <3>1, <3>2 DEF RecordsAreOfRuns
  <2> QED BY <1>2, <2>3, <2>4
<1>3. ASSUME NEW r \in Runs, NEW l \in Attempts!Line, l.id \in {r, None},
             Attempts!Put(l) \/ Attempts!PutPart(l)
      PROVE  Mended \/ \E part \in Attempts!Line : part.id \in {r, None} /\ Gained(part)
  <2>1. Attempts!Cut(l).id = None
    BY CutReads
  <2>2. Mended \/ \E part \in {l, Attempts!Cut(l)} : part \in Attempts!Line /\ Gained(part)
    BY <1>1, <1>3, PutHas
  <2> QED BY <1>3, <2>1, <2>2
<1>4. ASSUME NEW r \in Runs, clock \in Nat
      PROVE  \A l \in {Attempts!Marker, [kind |-> "A", ts |-> clock, id |-> r],
                       [kind |-> "C", ts |-> clock, id |-> r], Attempts!Pending(r)} :
               l \in Attempts!Line /\ l.id \in {r, None}
  <2>1. \A l \in {Attempts!Marker, [kind |-> "A", ts |-> clock, id |-> r],
                  [kind |-> "C", ts |-> clock, id |-> r]} :
               l \in Attempts!Line /\ l.id \in {r, None}
    BY <1>4 DEF Attempts!Line, Attempts!Marker
  <2>2. Attempts!Pending(r) \in {Attempts!Marker, [kind |-> "A", ts |-> clock, id |-> r],
                                 [kind |-> "C", ts |-> clock, id |-> r]}
    BY DEF Attempts!Pending
  <2> QED BY <2>1, <2>2
<1>5. clock \in Nat
  BY AttemptAssumption DEF AttemptInv, Attempts!TypeOK
<1>6. ASSUME NEW r \in Runs, Attempts!Start(r) \/ Attempts!Refuse(r) \/ Attempts!Finish(r) \/ Attempts!Leave(r)
                             \/ Attempts!AppendFails(r) \/ Attempts!Kill(r)
      PROVE  /\ \E state \in AttemptState \ {"new", "counted"} : pc' = [pc EXCEPT ![r] = state]
             /\ Mended \/ \E l \in Attempts!Line : l.id \in {r, None} /\ Gained(l)
  <2>1. \E state \in AttemptState \ {"new", "counted"} : pc' = [pc EXCEPT ![r] = state]
    BY <1>1, <1>6 DEF AttemptState, Attempts!Start, Attempts!Refuse, Attempts!Finish, Attempts!Leave,
       Attempts!AppendFails, Attempts!Kill
  <2>2. \/ UNCHANGED <<lines, unended>>
        \/ \E l \in {Attempts!Marker, [kind |-> "A", ts |-> clock, id |-> r],
                     [kind |-> "C", ts |-> clock, id |-> r], Attempts!Pending(r)} :
             Attempts!Put(l) \/ Attempts!PutPart(l)
    BY <1>6 DEF Attempts!Start, Attempts!Refuse, Attempts!Finish, Attempts!Leave,
       Attempts!AppendFails, Attempts!Kill
  <2>3. \A l \in {Attempts!Marker, [kind |-> "A", ts |-> clock, id |-> r],
                  [kind |-> "C", ts |-> clock, id |-> r], Attempts!Pending(r)} :
               l \in Attempts!Line /\ l.id \in {r, None}
    BY <1>4, <1>5
  <2>4. UNCHANGED lines => Mended
    BY <1>1 DEF Mended
  <2> QED BY <1>3, <2>1, <2>2, <2>3, <2>4
<1>7. ASSUME NEW r \in Runs, Attempts!Start(r) \/ Attempts!Refuse(r) \/ Attempts!Finish(r) \/ Attempts!Leave(r)
                             \/ Attempts!AppendFails(r) \/ Attempts!Kill(r)
      PROVE  RecordsAreOfRuns'
  BY <1>2, <1>6, <1>7
<1>8. ASSUME NEW r \in Runs, Attempts!Count(r) \/ Attempts!CountFails(r)
      PROVE  RecordsAreOfRuns'
  <2>1. UNCHANGED lines /\ pc[r] = "new" /\ \A s \in Runs : s # r => pc'[s] = pc[s]
    BY <1>1, <1>8 DEF Attempts!Count, Attempts!CountFails
  <2> QED BY <1>1, <2>1 DEF RecordsAreOfRuns
<1>9. CASE Attempts!Tick \/ UNCHANGED Attempts!attemptVars
  BY <1>1, <1>9 DEF Attempts!Tick, Attempts!attemptVars, RecordsAreOfRuns
<1> QED BY <1>7, <1>8, <1>9 DEF Attempts!Next

LEMMA OpenStep ==
  ASSUME AttemptInv, [Attempts!Next]_(Attempts!attemptVars)
  PROVE  OpenMeansInside'
<1>1. /\ lines \in Seq(Attempts!Line) /\ unended \in BOOLEAN /\ pc \in [Runs -> AttemptState]
      /\ RecordsAreOfRuns /\ clock \in Nat /\ (unended => lines # <<>>)
      /\ whole \in BOOLEAN /\ lost \subseteq Runs
  BY AttemptAssumption DEF AttemptInv, Attempts!TypeOK, AttemptState
<1>2. whole => ~unended
  BY DEF AttemptInv, OpenMeansInside
<1>3. \A k \in DOMAIN lines : lines[k].kind = "A" =>
        IF lines[k].id = None THEN ~whole
        ELSE pc[lines[k].id] \in {"working", "killed"} \/ lines[k].id \in lost
             \/ Completed(lines, lines[k].id)
  BY DEF AttemptInv, OpenMeansInside
\* A mended line is no run's, and it had been cut.
<1>4. ASSUME Mended, whole' => whole /\ ~unended', lost \subseteq lost',
             \A r \in Runs : pc[r] \in {"working", "killed"}
                              => pc'[r] \in {"working", "killed"} \/ r \in lost'
      PROVE  OpenMeansInside'
  <2>1. DOMAIN lines' = DOMAIN lines
    BY <1>1, <1>4 DEF Mended
  <2>2. \A k \in DOMAIN lines : \/ lines'[k] = lines[k]
                                \/ /\ lines[k].kind \in {"cutA", "cutC"} /\ ~whole'
                                   /\ lines'[k].id = None
    BY <1>2, <1>4 DEF Mended
  <2>3. \A id : Completed(lines, id) => Completed(lines', id)
    BY <2>1, <2>2 DEF Completed
  <2>4. ASSUME NEW k \in DOMAIN lines', lines'[k].kind = "A"
        PROVE  IF lines'[k].id = None THEN ~whole'
               ELSE pc'[lines'[k].id] \in {"working", "killed"} \/ lines'[k].id \in lost'
                    \/ Completed(lines', lines'[k].id)
    <3>1. CASE lines'[k] = lines[k] /\ lines[k].id = None
      BY <1>3, <1>4, <2>1, <2>4, <3>1
    <3>2. CASE lines'[k] = lines[k] /\ lines[k].id # None
      <4>1. lines[k].id \in Runs
        BY <1>1, <2>1, <2>4, <3>2 DEF RecordsAreOfRuns
      <4> QED BY <1>3, <1>4, <2>1, <2>3, <2>4, <3>2, <4>1
    <3> QED BY <2>1, <2>2, <2>4, <3>1, <3>2
  <2> QED BY <1>4, <2>4 DEF OpenMeansInside
<1>5. ASSUME NEW l \in Attempts!Line, Gained(l), whole' => whole /\ ~unended', lost \subseteq lost',
             \A r \in Runs : pc[r] \in {"working", "killed"}
                 => pc'[r] \in {"working", "killed"} \/ r \in lost' \/ (l.kind = "C" /\ l.id = r),
             l.kind = "A" => /\ l.id # None
                             /\ pc'[l.id] \in {"working", "killed"} \/ l.id \in lost'
      PROVE  OpenMeansInside'
  <2>1. /\ DOMAIN lines' = 1 .. Len(lines) + 1 /\ DOMAIN lines = 1 .. Len(lines)
        /\ lines'[Len(lines) + 1] = l /\ \A k \in DOMAIN lines : lines'[k] = lines[k]
        /\ Len(lines) \in Nat
    BY <1>1, <1>5, Gains
  <2>2. Len(lines) + 1 \in DOMAIN lines' /\ DOMAIN lines \subseteq DOMAIN lines'
    BY <2>1
  <2>3. \A id : Completed(lines, id) \/ (l.kind = "C" /\ l.id = id) => Completed(lines', id)
    BY <2>1, <2>2 DEF Completed
  <2>4. ASSUME NEW k \in DOMAIN lines', lines'[k].kind = "A"
        PROVE  IF lines'[k].id = None THEN ~whole'
               ELSE pc'[lines'[k].id] \in {"working", "killed"} \/ lines'[k].id \in lost'
                    \/ Completed(lines', lines'[k].id)
    <3>1. CASE k \in DOMAIN lines /\ lines[k].id = None
      <4>1. lines'[k] = lines[k]
        BY <2>1, <3>1
      <4> QED BY <1>3, <1>5, <2>4, <3>1, <4>1
    <3>2. CASE k \in DOMAIN lines /\ lines[k].id # None
      <4>1. lines'[k] = lines[k] /\ lines[k].id \in Runs
        BY <1>1, <2>1, <2>4, <3>2 DEF RecordsAreOfRuns
      <4>2. \/ pc[lines[k].id] \in {"working", "killed"} \/ lines[k].id \in lost
            \/ Completed(lines, lines[k].id)
        BY <1>3, <2>4, <3>2, <4>1
      <4>3. CASE Completed(lines, lines[k].id)
        BY <2>3, <3>2, <4>1, <4>3
      <4>4. CASE pc[lines[k].id] \in {"working", "killed"}
        BY <1>5, <2>3, <3>2, <4>1, <4>4
      <4>5. CASE lines[k].id \in lost
        BY <1>5, <3>2, <4>1, <4>5
      <4> QED BY <4>2, <4>3, <4>4, <4>5
    <3>3. CASE lines'[k] = l
      BY <1>5, <2>4, <3>3
    <3> QED BY <2>1, <3>1, <3>2, <3>3
  <2> QED BY <1>5, <2>4 DEF OpenMeansInside
\* A whole line r appends, and one cut short.
<1>6. ASSUME NEW r \in Runs, NEW l \in Attempts!Line, Attempts!Put(l) \/ Attempts!PutPart(l),
             whole' => whole /\ ~unended', lost \subseteq lost',
             \A s \in Runs : s # r => pc'[s] = pc[s],
             Gained(l) => \/ pc[r] \notin {"working", "killed"} \/ pc'[r] \in {"working", "killed"}
                          \/ r \in lost' \/ (l.kind = "C" /\ l.id = r),
             Gained(l) \/ \/ pc[r] \notin {"working", "killed"} \/ pc'[r] \in {"working", "killed"}
                          \/ r \in lost',
             l.kind = "A" => l.id = r /\ (pc'[r] \in {"working", "killed"} \/ r \in lost')
      PROVE  OpenMeansInside'
  <2>1. Mended \/ \E part \in {l, Attempts!Cut(l)} : part \in Attempts!Line /\ Gained(part)
    BY <1>1, <1>6, PutHas
  <2>2. CASE Gained(l)
    BY <1>5, <1>6, <2>2, NoneAssumption
  <2>3. CASE ~Gained(l) /\ Mended
    BY <1>4, <1>6, <2>3
  <2>4. CASE ~Gained(l) /\ Gained(Attempts!Cut(l))
    <3>1. Attempts!Cut(l) \in Attempts!Line /\ Attempts!Cut(l).kind # "A"
      BY CutReads
    <3>2. PICK part \in Attempts!Line : part = Attempts!Cut(l)
      BY <3>1
    <3> QED BY <1>5, <1>6, <2>4, <3>1, <3>2
  <2> QED BY <2>1, <2>2, <2>3, <2>4
<1>7. ASSUME NEW r \in Runs
      PROVE  /\ [kind |-> "A", ts |-> clock, id |-> r] \in Attempts!Line
             /\ [kind |-> "C", ts |-> clock, id |-> r] \in Attempts!Line
             /\ Attempts!Marker \in Attempts!Line /\ Attempts!Marker.kind = "capped"
  BY <1>1 DEF Attempts!Line, Attempts!Marker
<1>8. UNCHANGED lines => Mended
  BY <1>1 DEF Mended
<1>9. ASSUME NEW r \in Runs, Attempts!Start(r) PROVE OpenMeansInside'
  <2>1. PICK l : l = [kind |-> "A", ts |-> clock, id |-> r]
    OBVIOUS
  <2>2. l \in Attempts!Line /\ l.kind = "A" /\ l.id = r
    BY <1>7, <2>1
  <2>3. Attempts!Put(l) /\ unended' = FALSE /\ whole' = whole /\ lost' = lost
        /\ pc' = [pc EXCEPT ![r] = "working"]
    BY <1>9, <2>1 DEF Attempts!Start, Attempts!Put
  <2>4. pc'[r] = "working" /\ \A s \in Runs : s # r => pc'[s] = pc[s]
    BY <1>1, <2>3
  <2> QED BY <1>6, <2>2, <2>3, <2>4
\* A completion that is not a line of its own is lost.
<1>10. ASSUME NEW r \in Runs, Attempts!Finish(r) PROVE OpenMeansInside'
  <2>1. PICK l : l = [kind |-> "C", ts |-> clock, id |-> r]
    OBVIOUS
  <2>2. l \in Attempts!Line /\ l.kind = "C" /\ l.id = r
    BY <1>7, <2>1
  <2>3. Attempts!Put(l) /\ unended' = FALSE /\ whole' = whole
        /\ lost' = (IF unended THEN lost \cup {r} ELSE lost)
        /\ pc' = [pc EXCEPT ![r] = "returned"]
    BY <1>10, <2>1 DEF Attempts!Finish, Attempts!Completes, Attempts!Put
  <2>4. \A s \in Runs : s # r => pc'[s] = pc[s]
    BY <1>1, <2>3
  <2>5. Gained(l) \/ r \in lost'
    BY <2>3 DEF Attempts!Put, Attempts!Joined, Gained
  <2> QED BY <1>6, <2>2, <2>3, <2>4, <2>5
<1>11. ASSUME NEW r \in Runs, Attempts!Refuse(r) PROVE OpenMeansInside'
  <2>1. /\ pc[r] = "counted" /\ pc' = [pc EXCEPT ![r] = "untracked"] /\ whole' = whole /\ lost' = lost
        /\ Attempts!Put(Attempts!Marker) \/ UNCHANGED <<lines, unended>>
    BY <1>11 DEF Attempts!Refuse
  <2>2. \A s \in Runs : s # r => pc'[s] = pc[s]
    BY <1>1, <2>1
  <2>3. CASE UNCHANGED <<lines, unended>>
    BY <1>1, <1>2, <1>4, <1>8, <2>1, <2>2, <2>3
  <2>4. CASE Attempts!Put(Attempts!Marker)
    <3>1. unended' = FALSE
      BY <2>4 DEF Attempts!Put
    <3>2. PICK l \in Attempts!Line : l = Attempts!Marker
      BY <1>7
    <3> QED BY <1>6, <1>7, <2>1, <2>2, <2>4, <3>1, <3>2
  <2> QED BY <2>1, <2>3, <2>4
<1>12. ASSUME NEW r \in Runs, Attempts!Count(r) \/ Attempts!Leave(r) \/ Attempts!CountFails(r)
       PROVE  OpenMeansInside'
  <2>1. /\ UNCHANGED <<lines, unended, lost>> /\ (whole' => whole)
        /\ \A s \in Runs : pc[s] \in {"working", "killed"} => pc'[s] = pc[s]
    BY <1>1, <1>12 DEF Attempts!Count, Attempts!Leave, Attempts!CountFails
  <2> QED BY <1>2, <1>4, <1>8, <2>1
<1>13. ASSUME NEW r \in Runs PROVE Attempts!Pending(r) \in Attempts!Line
                                  /\ (Attempts!Pending(r).kind = "A" => Attempts!Pending(r).id = r)
  <2>1. Attempts!Pending(r) \in {Attempts!Marker, [kind |-> "A", ts |-> clock, id |-> r],
                                 [kind |-> "C", ts |-> clock, id |-> r]}
    BY DEF Attempts!Pending
  <2>2. ASSUME NEW l \in {Attempts!Marker, [kind |-> "A", ts |-> clock, id |-> r],
                          [kind |-> "C", ts |-> clock, id |-> r]}
        PROVE  l \in Attempts!Line /\ (l.kind = "A" => l.id = r)
    <3>1. CASE l = Attempts!Marker
      BY <1>7, <3>1
    <3>2. CASE l = [kind |-> "A", ts |-> clock, id |-> r]
      BY <1>7, <3>2
    <3>3. CASE l = [kind |-> "C", ts |-> clock, id |-> r]
      BY <1>7, <3>3
    <3> QED BY <2>2, <3>1, <3>2, <3>3
  <2>3. PICK l : l = Attempts!Pending(r)
    OBVIOUS
  <2>4. l \in Attempts!Line /\ (l.kind = "A" => l.id = r)
    BY <2>1, <2>2, <2>3
  <2> QED BY <2>3, <2>4
<1>14. ASSUME NEW r \in Runs, Attempts!AppendFails(r) PROVE OpenMeansInside'
  <2>1. /\ Attempts!PutPart(Attempts!Pending(r)) /\ whole' = FALSE /\ lost' = lost \cup {r}
        /\ \A s \in Runs : s # r => pc'[s] = pc[s]
    BY <1>1, <1>14 DEF Attempts!AppendFails
  <2>2. PICK l \in Attempts!Line : l = Attempts!Pending(r)
    BY <1>13
  <2> QED BY <1>6, <1>13, <2>1, <2>2
<1>15. ASSUME NEW r \in Runs, Attempts!Kill(r) PROVE OpenMeansInside'
  <2>1. /\ pc'[r] = "killed" /\ lost' = lost /\ \A s \in Runs : s # r => pc'[s] = pc[s]
        /\ \/ UNCHANGED <<lines, unended, whole>>
           \/ Attempts!PutPart(Attempts!Pending(r)) /\ whole' = FALSE
    BY <1>1, <1>15 DEF Attempts!Kill
  <2>2. CASE UNCHANGED <<lines, unended, whole>>
    BY <1>1, <1>2, <1>4, <1>8, <2>1, <2>2
  <2>3. CASE Attempts!PutPart(Attempts!Pending(r)) /\ whole' = FALSE
    <3>1. PICK l \in Attempts!Line : l = Attempts!Pending(r)
      BY <1>13
    <3> QED BY <1>6, <1>13, <2>1, <2>3, <3>1
  <2> QED BY <2>1, <2>2, <2>3
<1>16. CASE Attempts!Tick \/ UNCHANGED Attempts!attemptVars
  <2>1. UNCHANGED <<lines, unended, whole, lost, pc>>
    BY <1>16 DEF Attempts!Tick, Attempts!attemptVars
  <2> QED BY <1>2, <1>4, <1>8, <2>1
<1> QED BY <1>9, <1>10, <1>11, <1>12, <1>14, <1>15, <1>16 DEF Attempts!Next

LEMMA PairsStep ==
  ASSUME AttemptInv, [Attempts!Next]_(Attempts!attemptVars)
  PROVE  LinesComeInPairs'
<1> SUFFICES ASSUME alone', unkilled', whole', ~Attempts!Capped' PROVE Sequel'
  BY DEF LinesComeInPairs
<1>1. /\ lines \in Seq(Attempts!Line) /\ unended \in BOOLEAN /\ pc \in [Runs -> AttemptState]
      /\ RecordsAreOfRuns /\ clock \in Nat /\ count \in [Runs -> Nat]
      /\ Len(lines) \in Nat /\ DOMAIN lines = 1 .. Len(lines)
  BY AttemptAssumption DEF AttemptInv, Attempts!TypeOK, AttemptState
<1>2. alone /\ unkilled /\ whole
  BY DEF Attempts!Next, Attempts!Count, Attempts!CountFails, Attempts!Start,
     Attempts!Refuse, Attempts!Finish, Attempts!Leave, Attempts!AppendFails, Attempts!Kill, Attempts!Tick,
     Attempts!attemptVars
<1>3. ~unended
  BY <1>2 DEF AttemptInv, OpenMeansInside
<1>4. \/ UNCHANGED lines
      \/ \E l \in Attempts!Line : Gained(l)
  <2>1. \A r \in Runs : /\ [kind |-> "A", ts |-> clock, id |-> r] \in Attempts!Line
                        /\ [kind |-> "C", ts |-> clock, id |-> r] \in Attempts!Line
    BY <1>1 DEF Attempts!Line
  <2>2. Attempts!Marker \in Attempts!Line
    BY DEF Attempts!Line, Attempts!Marker
  <2> QED BY <1>3, <2>1, <2>2 DEF Attempts!Next, Attempts!Count, Attempts!CountFails, Attempts!Start,
     Attempts!Refuse, Attempts!Finish, Attempts!Leave, Attempts!AppendFails, Attempts!Kill, Attempts!Tick,
     Attempts!attemptVars, Attempts!Put, Attempts!Joined, Gained
<1>5. ~Attempts!Capped
  <2>1. \A k \in DOMAIN lines : k \in DOMAIN lines' /\ lines'[k] = lines[k]
    BY <1>1, <1>4, Gains
  <2> QED BY <2>1 DEF Attempts!Capped
<1>6. Sequel
  BY <1>2, <1>5 DEF AttemptInv, LinesComeInPairs
<1>7. ASSUME NEW r \in Runs, Attempts!Count(r) PROVE Sequel'
  <2>1. Attempts!Inside = {}
    BY <1>7 DEF Attempts!Count
  <2>2. \A s \in Runs : pc[s] \notin {"counted", "working"}
    BY <2>1 DEF Attempts!Inside
  <2>3. /\ lines' = lines /\ pc'[r] = "counted" /\ count'[r] = Len(lines)
        /\ \A s \in Runs : s # r => pc'[s] = pc[s] /\ count'[s] = count[s]
    BY <1>1, <1>7 DEF Attempts!Count
  <2>4. Len(lines) % 2 = 0
    BY <1>6, <2>2 DEF Sequel
  <2>5. Len(lines) <= MaxLines /\ \A s \in Runs : pc[s] # "untracked"
    BY <1>6 DEF Sequel
  <2> QED BY <2>2, <2>3, <2>4, <2>5 DEF Sequel
\* Who is counted or working is so alone.
<1>8. ASSUME NEW r \in Runs, pc[r] \in {"counted", "working"}
      PROVE  \A s \in Runs : s # r => pc[s] \notin {"counted", "working"}
  BY <1>6, <1>8 DEF Sequel
<1>9. ASSUME NEW r \in Runs, Attempts!Start(r) PROVE Sequel'
  <2>1. PICK l : l = [kind |-> "A", ts |-> clock, id |-> r]
    OBVIOUS
  <2>2. l \in Attempts!Line /\ l.kind = "A" /\ l.id = r
    BY <1>1, <2>1 DEF Attempts!Line
  <2>3. Gained(l)
    BY <1>3, <1>9, <2>1 DEF Attempts!Start, Attempts!Put, Attempts!Joined, Gained
  <2>4. /\ Len(lines') = Len(lines) + 1 /\ DOMAIN lines' = 1 .. Len(lines) + 1
        /\ lines'[Len(lines) + 1] = l /\ \A k \in DOMAIN lines : lines'[k] = lines[k]
    BY <1>1, <2>2, <2>3, Gains
  <2>5. /\ pc[r] = "counted" /\ pc'[r] = "working" /\ count' = count
        /\ \A s \in Runs : s # r => pc'[s] = pc[s]
    BY <1>1, <1>9 DEF Attempts!Start
  <2>6. count[r] = Len(lines) /\ Len(lines) < MaxLines
    <3>1. count[r] = Len(lines)
      BY <1>6, <2>5 DEF Sequel
    <3>2. ~(count[r] >= MaxLines)
      BY <1>9 DEF Attempts!Start, Attempts!AtCap
    <3> QED BY <1>1, <3>1, <3>2, AttemptAssumption
  <2>7. Len(lines) % 2 = 0
    BY <1>6, <1>8, <2>5 DEF Sequel
  <2>8. Len(lines') % 2 = 1 /\ Len(lines') <= MaxLines
    BY SMTT(30), <1>1, <2>4, <2>6, <2>7, AttemptAssumption
  <2>9. ~Completed(lines', r)
    <3>1. \A k \in DOMAIN lines : lines[k].kind = "C" => lines[k].id # r
      BY <1>1, <2>5, NoneAssumption DEF RecordsAreOfRuns
    <3>2. \A k \in DOMAIN lines' : k \in DOMAIN lines \/ lines'[k] = l
      BY <1>1, <2>4
    <3> QED BY <2>2, <2>4, <3>1, <3>2 DEF Completed
  <2>10. lines'[Len(lines')].kind = "A" /\ lines'[Len(lines')].id = r
    BY <2>2, <2>4
  <2>11. \A s \in Runs : s # r => pc'[s] \notin {"counted", "working", "untracked"}
    BY <1>6, <1>8, <2>5 DEF Sequel
  <2> QED BY <2>5, <2>8, <2>9, <2>10, <2>11 DEF Sequel
<1>10. ASSUME NEW r \in Runs, Attempts!Finish(r) PROVE Sequel'
  <2>1. PICK l : l = [kind |-> "C", ts |-> clock, id |-> r]
    OBVIOUS
  <2>2. l \in Attempts!Line
    BY <1>1, <2>1 DEF Attempts!Line
  <2>3. Gained(l)
    BY <1>3, <1>10, <2>1 DEF Attempts!Finish, Attempts!Completes, Attempts!Put, Attempts!Joined, Gained
  <2>4. Len(lines') = Len(lines) + 1
    BY <1>1, <2>2, <2>3, Gains
  <2>5. /\ pc[r] = "working" /\ pc'[r] = "returned"
        /\ \A s \in Runs : s # r => pc'[s] = pc[s]
    BY <1>1, <1>10 DEF Attempts!Finish
  <2>6. Len(lines) % 2 = 1 /\ Len(lines) <= MaxLines
    BY <1>6, <2>5 DEF Sequel
  <2>7. Len(lines') % 2 = 0 /\ Len(lines') <= MaxLines
    BY <1>1, <2>4, <2>6, AttemptAssumption
  <2>8. \A s \in Runs : pc'[s] \notin {"counted", "working", "untracked"}
    BY <1>6, <1>8, <2>5 DEF Sequel
  <2> QED BY <2>7, <2>8 DEF Sequel
\* The cap is met by the even line that it counts, and is marked.
<1>11. ASSUME NEW r \in Runs, Attempts!Refuse(r) PROVE FALSE
  <2>1. pc[r] = "counted" /\ count[r] >= MaxLines
    BY <1>11 DEF Attempts!Refuse, Attempts!AtCap
  <2>2. count[r] = Len(lines) /\ Len(lines) <= MaxLines
    BY <1>6, <2>1 DEF Sequel
  <2>3. count[r] = MaxLines
    <3>1. MaxLines \in Nat
      BY AttemptAssumption
    <3>2. \A a, b \in Nat : a >= b /\ a <= b => a = b
      OBVIOUS
    <3> QED BY <1>1, <2>1, <2>2, <3>1, <3>2
  <2>4. lines' = Append(lines, Attempts!Marker)
    BY <1>3, <1>11, <2>3 DEF Attempts!Refuse, Attempts!MarkerDue, Attempts!Put, Attempts!Joined
  <2>5. Attempts!Marker \in Attempts!Line /\ Attempts!Marker.kind = "capped"
    BY DEF Attempts!Line, Attempts!Marker
  <2>6. Len(lines) + 1 \in DOMAIN lines' /\ lines'[Len(lines) + 1] = Attempts!Marker
    BY <1>1, <2>4, <2>5, Gains DEF Gained
  <2> QED BY <2>5, <2>6 DEF Attempts!Capped
<1>12. ASSUME NEW r \in Runs, \/ Attempts!CountFails(r) \/ Attempts!AppendFails(r) \/ Attempts!Kill(r)
                              \/ Attempts!Leave(r)
       PROVE  FALSE
  BY <1>6, <1>12 DEF Attempts!CountFails, Attempts!AppendFails, Attempts!Kill, Attempts!Leave, Sequel
<1>13. CASE Attempts!Tick \/ UNCHANGED Attempts!attemptVars
  BY <1>6, <1>13 DEF Attempts!Tick, Attempts!attemptVars, Sequel
<1> QED BY <1>7, <1>9, <1>10, <1>11, <1>12, <1>13 DEF Attempts!Next

LEMMA AttemptStep ==
  ASSUME AttemptInv, [Attempts!Next]_(Attempts!attemptVars)
  PROVE  AttemptInv'
BY AttemptTypeStep, RecordsStep, OpenStep, PairsStep DEF AttemptInv

LEMMA LastRecord ==
  ASSUME lines \in Seq(Attempts!Line), Attempts!Records # {}
  PROVE  \E k \in Attempts!Records : /\ Attempts!Last = lines[k]
                                    /\ \A j \in Attempts!Records : j <= k
<1>1. Attempts!Records \in SUBSET (1 .. Len(lines)) /\ Len(lines) \in Nat
  BY DEF Attempts!Records
<1>2. \E k \in Attempts!Records : \A j \in Attempts!Records : j <= k
  BY <1>1, LastPlace
<1> QED BY <1>2 DEF Attempts!Last

LEMMA VerdictsHold == AttemptInv => Attempts!VerdictsAreTrue
<1> SUFFICES ASSUME AttemptInv PROVE Attempts!VerdictsAreTrue
  OBVIOUS
<1>1. lines \in Seq(Attempts!Line) /\ Len(lines) \in Nat /\ DOMAIN lines = 1 .. Len(lines)
  BY DEF AttemptInv, Attempts!TypeOK
<1>2. ASSUME Attempts!Verdict = "frozen"
      PROVE  IF Attempts!Last.id = None THEN ~whole
             ELSE pc[Attempts!Last.id] \in {"working", "killed"} \/ Attempts!Last.id \in lost
  <2>1. /\ Attempts!Records # {} /\ Attempts!Last.kind = "A"
        /\ Attempts!Last.id \notin Attempts!Closed
    BY <1>2 DEF Attempts!Verdict
  <2>2. PICK k \in Attempts!Records : Attempts!Last = lines[k]
    BY <1>1, <2>1, LastRecord
  <2>3. k \in DOMAIN lines
    BY DEF Attempts!Records
  <2>4. Attempts!Last.id # None => ~Completed(lines, Attempts!Last.id)
    BY <2>1 DEF Attempts!Closed, Completed
  <2> QED BY <1>2, <2>1, <2>2, <2>3, <2>4 DEF AttemptInv, OpenMeansInside
<1>3. ASSUME alone, unkilled, whole, Attempts!Verdict = "gone", NEW r \in Runs
      PROVE  pc[r] \notin {"working", "untracked"}
  <2>1. ~Attempts!Capped /\ Attempts!Records # {}
        /\ (Attempts!Last.kind = "A" => Attempts!Last.id \in Attempts!Closed)
    BY <1>3 DEF Attempts!Verdict
  <2>2. Sequel
    BY <1>3, <2>1 DEF AttemptInv, LinesComeInPairs
  <2>3. ASSUME pc[r] = "working" PROVE FALSE
    <3>1. /\ Len(lines) % 2 = 1 /\ lines[Len(lines)].kind = "A" /\ lines[Len(lines)].id = r
          /\ ~Completed(lines, r)
      BY <2>2, <2>3 DEF Sequel
    <3>2. Len(lines) \in DOMAIN lines
      <4>1. \A n \in Nat : n % 2 = 1 => n \in 1 .. n
        OBVIOUS
      <4> QED BY <1>1, <3>1, <4>1
    <3>3. Len(lines) \in Attempts!Records
      BY <3>1, <3>2 DEF Attempts!Records
    <3>4. PICK k \in Attempts!Records : /\ Attempts!Last = lines[k]
                                       /\ \A j \in Attempts!Records : j <= k
      BY <1>1, <2>1, LastRecord
    <3>5. k = Len(lines)
      <4>1. k \in 1 .. Len(lines) /\ Len(lines) <= k
        BY <1>1, <3>3, <3>4 DEF Attempts!Records
      <4>2. \A n \in Nat : \A j \in 1 .. n : n <= j => j = n
        OBVIOUS
      <4> QED BY <1>1, <4>1, <4>2
    <3>6. r \notin Attempts!Closed
      BY <3>1, NoneAssumption DEF Attempts!Closed, Completed
    <3> QED BY <2>1, <3>1, <3>4, <3>5, <3>6
  <2> QED BY <2>2, <2>3 DEF Sequel
<1> QED BY <1>2, <1>3 DEF Attempts!VerdictsAreTrue

-----------------------------------------------------------------------------
(* What a transcript says of a seat.                                       *)

IsUse(recs, k) == k \in DOMAIN recs /\ recs[k].kind = "use"
IsAnswer(recs, j, k) == j \in DOMAIN recs /\ recs[j].kind = "result" /\ recs[j].id = recs[k].id
WaitsIn(recs, k) == IsUse(recs, k) /\ \A j \in DOMAIN recs : ~IsAnswer(recs, j, k)

\* Calls are numbered as they come, and a call is answered after it was made.
Transcript(recs) ==
  /\ recs \in Seq(Wedge!Record)
  /\ \E n \in Nat : Wedge!Calls(recs) = 1 .. n
  /\ \A j, k \in DOMAIN recs : IsUse(recs, j) /\ IsUse(recs, k) /\ recs[j].id = recs[k].id => j = k
  /\ \A j \in DOMAIN recs : recs[j].kind = "result" =>
       \E k \in DOMAIN recs : k < j /\ IsUse(recs, k) /\ recs[k].id = recs[j].id

LEMMA TranscriptGrows ==
  ASSUME NEW recs, Transcript(recs), NEW l \in Wedge!Record,
         \/ l.kind = "use" /\ l.id = Wedge!Cardinality(Wedge!Calls(recs)) + 1
         \/ l.kind = "result" /\ l.id \in Wedge!Calls(recs)
         \/ l.kind = "arrival"
  PROVE  Transcript(Append(recs, l))
<1>1. PICK more : more = Append(recs, l)
  OBVIOUS
<1>2. /\ more \in Seq(Wedge!Record) /\ Len(more) = Len(recs) + 1 /\ Len(recs) \in Nat
      /\ DOMAIN more = 1 .. Len(recs) + 1 /\ DOMAIN recs = 1 .. Len(recs)
      /\ more[Len(recs) + 1] = l /\ \A k \in DOMAIN recs : more[k] = recs[k]
  BY <1>1 DEF Transcript
<1>3. PICK n \in Nat : Wedge!Calls(recs) = 1 .. n
  BY DEF Transcript
<1>4. Wedge!Cardinality(Wedge!Calls(recs)) = n
  <2>1. Cardinality(1 .. n) = n
    BY FS_Interval
  <2> QED BY <1>3, <2>1 DEF Wedge!Cardinality, Cardinality
<1>5. \A k \in DOMAIN more : k \in DOMAIN recs \/ (k = Len(recs) + 1 /\ more[k] = l)
  BY <1>2
<1>6. Wedge!Calls(more) = Wedge!Calls(recs) \cup (IF l.kind = "use" THEN {l.id} ELSE {})
  <2>1. Len(recs) + 1 \in DOMAIN more /\ DOMAIN recs \subseteq DOMAIN more
    BY <1>2
  <2> QED BY <1>2, <1>5, <2>1 DEF Wedge!Calls
<1>7. \E m \in Nat : Wedge!Calls(more) = 1 .. m
  <2>1. CASE l.kind = "use"
    <3>1. 1 .. n + 1 = 1 .. n \cup {n + 1}
      OBVIOUS
    <3> QED BY <1>3, <1>4, <1>6, <2>1, <3>1
  <2>2. CASE l.kind # "use"
    BY <1>3, <1>6, <2>2
  <2> QED BY <2>1, <2>2
<1>8. \A k \in DOMAIN recs : IsUse(recs, k) => recs[k].id \in 1 .. n
  BY <1>3 DEF IsUse, Wedge!Calls
<1>9. l.kind = "use" => l.id \notin 1 .. n
  BY <1>4
<1>10. ASSUME NEW j \in DOMAIN more, NEW k \in DOMAIN more, IsUse(more, j), IsUse(more, k), more[j].id = more[k].id
       PROVE  j = k
  <2>1. CASE j \in DOMAIN recs /\ k \in DOMAIN recs
    BY <1>2, <1>10, <2>1 DEF Transcript, IsUse
  <2>2. CASE j \notin DOMAIN recs /\ k \in DOMAIN recs
    BY <1>2, <1>5, <1>8, <1>9, <1>10, <2>2 DEF IsUse
  <2>3. CASE j \in DOMAIN recs /\ k \notin DOMAIN recs
    BY <1>2, <1>5, <1>8, <1>9, <1>10, <2>3 DEF IsUse
  <2>4. CASE j \notin DOMAIN recs /\ k \notin DOMAIN recs
    BY <1>5, <2>4
  <2> QED BY <2>1, <2>2, <2>3, <2>4
<1>11. ASSUME NEW j \in DOMAIN more, more[j].kind = "result"
       PROVE  \E k \in DOMAIN more : k < j /\ IsUse(more, k) /\ more[k].id = more[j].id
  <2>1. CASE j \in DOMAIN recs
    <3>1. PICK k \in DOMAIN recs : k < j /\ IsUse(recs, k) /\ recs[k].id = recs[j].id
      BY <1>2, <1>11, <2>1 DEF Transcript
    <3> QED BY <1>2, <2>1, <3>1 DEF IsUse
  <2>2. CASE j = Len(recs) + 1 /\ more[j] = l
    <3>1. PICK k \in DOMAIN recs : recs[k].kind = "use" /\ recs[k].id = l.id
      BY <1>11, <2>2 DEF Wedge!Calls
    <3>2. k < j
      BY <1>2, <2>2
    <3> QED BY <1>2, <2>2, <3>1, <3>2 DEF IsUse
  <2> QED BY <1>5, <2>1, <2>2
<1> QED BY <1>1, <1>2, <1>7, <1>10, <1>11 DEF Transcript

\* What is unanswered in the tail is unanswered in the transcript, and since when.
FirstOf(recs) == IF Len(recs) > Window THEN Len(recs) - Window + 1 ELSE 1
WaitsSince(recs) == {recs[k].ts : k \in {j \in FirstOf(recs) .. Len(recs) : WaitsIn(recs, j)}}

LEMMA TailWaits ==
  ASSUME NEW recs, Transcript(recs)
  PROVE  LET tail == Wedge!TailRecords(recs) IN
         {tail[k].ts : k \in Wedge!Unanswered(tail)} = WaitsSince(recs)
<1>1. recs \in Seq(Wedge!Record) /\ Len(recs) \in Nat /\ DOMAIN recs = 1 .. Len(recs)
  BY DEF Transcript
<1>2. PICK m : m = FirstOf(recs)
  OBVIOUS
<1>3. m \in Nat /\ 1 <= m /\ m <= Len(recs) + 1
  BY <1>1, <1>2, SweepAssumption DEF FirstOf
<1>4. PICK tail : tail = Wedge!TailRecords(recs)
  OBVIOUS
<1>5. tail = SubSeq(recs, m, Len(recs))
  BY <1>2, <1>4 DEF Wedge!TailRecords, FirstOf
<1>6. /\ DOMAIN tail = 1 .. Len(recs) - m + 1
      /\ \A k \in 1 .. Len(recs) - m + 1 : tail[k] = recs[m + k - 1]
  BY <1>1, <1>3, <1>5
<1>7. ASSUME NEW k \in DOMAIN tail
      PROVE  /\ m + k - 1 \in m .. Len(recs) /\ tail[k] = recs[m + k - 1] /\ m + k - 1 \in DOMAIN recs
  BY <1>1, <1>3, <1>6, <1>7
<1>8. ASSUME NEW j \in m .. Len(recs)
      PROVE  j - m + 1 \in DOMAIN tail /\ tail[j - m + 1] = recs[j] /\ j \in DOMAIN recs
  BY <1>1, <1>3, <1>6, <1>8
\* An answer comes after its call.
<1>9. ASSUME NEW j \in m .. Len(recs), IsUse(recs, j), NEW i \in DOMAIN recs, IsAnswer(recs, i, j)
      PROVE  i \in m .. Len(recs)
  <2>1. PICK k \in DOMAIN recs : k < i /\ IsUse(recs, k) /\ recs[k].id = recs[i].id
    BY <1>9 DEF Transcript, IsAnswer
  <2>2. k = j
    BY <1>8, <1>9, <2>1 DEF Transcript, IsAnswer
  <2> QED BY <1>1, <1>3, <1>9, <2>1, <2>2
<1>10. ASSUME NEW k \in DOMAIN tail
       PROVE  k \in Wedge!Unanswered(tail) <=> WaitsIn(recs, m + k - 1)
  <2>1. m + k - 1 \in m .. Len(recs) /\ tail[k] = recs[m + k - 1] /\ m + k - 1 \in DOMAIN recs
    BY <1>7
  <2>2. k \in Wedge!Unanswered(tail) <=>
          tail[k].kind = "use" /\ \A i \in DOMAIN tail : ~IsAnswer(tail, i, k)
    BY DEF Wedge!Unanswered, Wedge!Answered, IsAnswer
  <2>3. PICK j : j = m + k - 1
    OBVIOUS
  <2>4. ASSUME tail[k].kind = "use", \A i \in DOMAIN tail : ~IsAnswer(tail, i, k)
        PROVE  WaitsIn(recs, j)
    <3>1. IsUse(recs, j)
      BY <2>1, <2>3, <2>4 DEF IsUse
    <3>2. ASSUME NEW i \in DOMAIN recs, IsAnswer(recs, i, j) PROVE FALSE
      <4>1. i \in m .. Len(recs)
        BY <1>9, <2>1, <2>3, <3>1, <3>2
      <4>2. i - m + 1 \in DOMAIN tail /\ tail[i - m + 1] = recs[i]
        BY <1>8, <4>1
      <4>3. IsAnswer(tail, i - m + 1, k)
        BY <2>1, <2>3, <3>2, <4>2 DEF IsAnswer
      <4> QED BY <2>4, <4>2, <4>3
    <3> QED BY <3>1, <3>2 DEF WaitsIn
  <2>5. ASSUME WaitsIn(recs, j)
        PROVE  tail[k].kind = "use" /\ \A i \in DOMAIN tail : ~IsAnswer(tail, i, k)
    <3>1. tail[k].kind = "use"
      BY <2>1, <2>3, <2>5 DEF WaitsIn, IsUse
    <3>2. ASSUME NEW i \in DOMAIN tail, IsAnswer(tail, i, k) PROVE FALSE
      <4>1. m + i - 1 \in DOMAIN recs /\ tail[i] = recs[m + i - 1]
        BY <1>7
      <4>2. IsAnswer(recs, m + i - 1, j)
        BY <2>1, <2>3, <3>2, <4>1 DEF IsAnswer
      <4> QED BY <2>5, <4>1, <4>2 DEF WaitsIn
    <3> QED BY <3>1, <3>2
  <2> QED BY <2>2, <2>3, <2>4, <2>5
<1>11. ASSUME NEW k \in Wedge!Unanswered(tail) PROVE tail[k].ts \in WaitsSince(recs)
  <2>1. k \in DOMAIN tail
    BY DEF Wedge!Unanswered
  <2>2. m + k - 1 \in m .. Len(recs) /\ tail[k] = recs[m + k - 1] /\ WaitsIn(recs, m + k - 1)
    BY <1>7, <1>10, <2>1
  <2> QED BY <1>2, <2>2 DEF WaitsSince
<1>12. ASSUME NEW j \in m .. Len(recs), WaitsIn(recs, j)
       PROVE  \E k \in Wedge!Unanswered(tail) : tail[k].ts = recs[j].ts
  <2>1. j - m + 1 \in DOMAIN tail /\ tail[j - m + 1] = recs[j]
    BY <1>8
  <2>2. m + (j - m + 1) - 1 = j
    BY <1>1, <1>3
  <2>3. j - m + 1 \in Wedge!Unanswered(tail)
    BY <1>10, <1>12, <2>1, <2>2
  <2> QED BY <2>1, <2>3
<1> QED BY <1>2, <1>4, <1>11, <1>12 DEF WaitsSince

LEMMA SinceIs ==
  ASSUME NEW recs, Transcript(recs), NEW since, since = Wedge!Since(Wedge!TailRecords(recs))
  PROVE  /\ since = None => WaitsSince(recs) = {}
         /\ since # None => since \in WaitsSince(recs) /\ \A t \in WaitsSince(recs) : since <= t
         /\ WaitsSince(recs) \subseteq Nat
<1>1. WaitsSince(recs) \subseteq Nat
  <2>1. \A k \in DOMAIN recs : recs[k] \in Wedge!Record
    BY DEF Transcript
  <2>2. \A k \in DOMAIN recs : recs[k].ts \in Nat
    BY <2>1 DEF Wedge!Record
  <2> QED BY <2>2 DEF WaitsSince, WaitsIn, IsUse
<1>2. PICK tail : tail = Wedge!TailRecords(recs)
  OBVIOUS
<1> DEFINE issued == {tail[k].ts : k \in Wedge!Unanswered(tail)}
<1>3. issued = WaitsSince(recs)
  BY <1>2, TailWaits
<1>4. since = IF issued = {} THEN None ELSE CHOOSE t \in issued : \A u \in issued : t <= u
  BY <1>2 DEF Wedge!Since
<1> HIDE DEF issued
<1>5. CASE issued = {}
  BY <1>1, <1>3, <1>4, <1>5
<1>6. CASE issued # {}
  <2>1. \E t \in issued : \A u \in issued : t <= u
    BY <1>1, <1>3, <1>6, LeastNat
  <2>2. since \in issued /\ \A u \in issued : since <= u
    BY <1>4, <1>6, <2>1
  <2> QED BY <1>1, <1>3, <2>2, NoneAssumption
<1> QED BY <1>5, <1>6

-----------------------------------------------------------------------------
(* The sweep.                                                              *)

SweepFields == {"pc", "now", "todo", "stalls", "rows", "dark", "snap", "cands", "doomed",
                "killed", "failed"}

FleetInv ==
  /\ clock \in 0 .. MaxTime /\ spawns \in 0 .. MaxSpawns /\ plugin \subseteq Seats
  /\ DOMAIN script = Seats
  /\ \A s \in Seats : Transcript(script[s]) /\ \A k \in DOMAIN script[s] : script[s][k].ts <= clock
  /\ DOMAIN beacon = Seats /\ \A s \in Seats : beacon[s] \in Wedge!File
  /\ table \in [Pids -> {None} \cup Wedge!Process]
  /\ \A p \in Pids : table[p] # None => table[p].name <= spawns

\* Who has the pid of a suspect, if it is the suspect, was born when the suspect was:
\* names are not used again.
Known(c) ==
  /\ c \in Wedge!Suspect /\ c.name <= spawns
  /\ table[c.pid] # None /\ table[c.pid].name = c.name => table[c.pid].born = c.born
\* A suspect that was joined to a stall was born about when the stall began.
Joined(c) == c.born <= sweep.now - StallAfter + Halfwidth
SweepInv ==
  /\ DOMAIN sweep = SweepFields /\ sweep.now \in 0 .. clock
  /\ sweep.todo \subseteq Seats /\ sweep.dark \subseteq Seats /\ sweep.failed \subseteq Pids
  /\ \A st \in sweep.stalls :
       /\ st \in [seat : Seats \ plugin, since : 0 .. clock] /\ StallAfter <= sweep.now - st.since
  /\ \A c \in sweep.snap : Known(c)
  /\ \A c \in sweep.cands : Known(c) /\ Joined(c)
  /\ \A c \in sweep.doomed : Known(c) /\ Joined(c)
  /\ \A v \in sweep.killed :
       /\ v.meant \in Wedge!Suspect
       /\ v.name = v.meant.name => v.age >= StallAfter - Halfwidth

WedgeInv == FleetInv /\ SweepInv

LEMMA WedgeInit == Wedge!Init => WedgeInv
<1> SUFFICES ASSUME Wedge!Init PROVE WedgeInv
  OBVIOUS
<1>1. /\ clock = 0 /\ script = [s \in Seats |-> << >>] /\ plugin \in SUBSET Seats /\ spawns = 0
      /\ beacon = [s \in Seats |-> Wedge!Absent] /\ table = [p \in Pids |-> None]
  BY DEF Wedge!Init
<1>2. Transcript(<<>>)
  <2>1. <<>> \in Seq(Wedge!Record) /\ DOMAIN <<>> = {}
    OBVIOUS
  <2>2. Wedge!Calls(<<>>) = 1 .. 0
    BY <2>1 DEF Wedge!Calls
  <2> QED BY <2>1, <2>2 DEF Transcript
<1>3. Wedge!Absent \in Wedge!File
  BY DEF Wedge!Absent, Wedge!File
<1>4. 0 \in 0 .. MaxTime /\ 0 \in 0 .. MaxSpawns
  BY SweepAssumption
<1>5. FleetInv
  BY <1>1, <1>2, <1>3, <1>4 DEF FleetInv
<1>6. /\ DOMAIN sweep = SweepFields /\ sweep.now = 0 /\ sweep.todo = {} /\ sweep.dark = {} /\ sweep.failed = {}
      /\ sweep.stalls = {} /\ sweep.snap = {} /\ sweep.cands = {} /\ sweep.doomed = {} /\ sweep.killed = {}
  BY DEF Wedge!Init, Wedge!NoSweep, SweepFields
<1>7. SweepInv
  BY <1>1, <1>6 DEF SweepInv
<1> QED BY <1>5, <1>7 DEF WedgeInv

\* The fleet moves under the sweep.
LEMMA SweepStands ==
  ASSUME WedgeInv, sweep' = sweep, plugin' = plugin, clock' \in Nat, clock <= clock',
         \A c : Known(c) => Known(c)'
  PROVE  SweepInv'
<1>1. 0 .. clock \subseteq 0 .. clock'
  BY DEF WedgeInv, FleetInv
<1> QED BY <1>1 DEF WedgeInv, SweepInv, Joined

LEMMA TranscriptStep ==
  ASSUME WedgeInv, NEW s \in Seats, Wedge!Issue(s) \/ Wedge!Result(s) \/ Wedge!Arrival(s)
  PROVE  WedgeInv'
<1>1. clock \in Nat /\ Transcript(script[s])
  BY DEF WedgeInv, FleetInv
<1>2. PICK kind, id : /\ Wedge!Says(s, kind, id)
                      /\ \/ kind = "use" /\ id = Wedge!Cardinality(Wedge!Calls(script[s])) + 1
                         \/ kind = "result" /\ id \in Wedge!Calls(script[s])
                         \/ kind = "arrival" /\ id = 0
  BY DEF Wedge!Issue, Wedge!Result, Wedge!Arrival
<1>3. PICK n \in Nat : Wedge!Calls(script[s]) = 1 .. n
  BY <1>1 DEF Transcript
<1>4. id \in Nat
  <2>1. Cardinality(1 .. n) = n
    BY FS_Interval
  <2>2. Wedge!Cardinality(Wedge!Calls(script[s])) = n
    BY <1>3, <2>1 DEF Wedge!Cardinality, Cardinality
  <2> QED BY <1>2, <1>3, <2>2
<1>5. PICK l : l = [kind |-> kind, id |-> id, ts |-> clock]
  OBVIOUS
<1>6. l \in Wedge!Record /\ l.kind = kind /\ l.id = id /\ l.ts = clock
  BY <1>1, <1>2, <1>4, <1>5 DEF Wedge!Record
<1>7. Transcript(Append(script[s], l))
  BY <1>1, <1>2, <1>6, TranscriptGrows
<1>8. /\ script' = [script EXCEPT ![s] = Append(script[s], l)]
      /\ UNCHANGED <<clock, plugin, beacon, table, spawns, sweep>>
  BY <1>2, <1>5 DEF Wedge!Says
<1>9. \A k \in DOMAIN Append(script[s], l) : Append(script[s], l)[k].ts <= clock
  <2>1. script[s] \in Seq(Wedge!Record)
    BY <1>1 DEF Transcript
  <2>2. \A k \in DOMAIN Append(script[s], l) : \/ k \in DOMAIN script[s] /\ Append(script[s], l)[k] = script[s][k]
                                              \/ Append(script[s], l)[k] = l
    BY <1>6, <2>1
  <2>3. \A k \in DOMAIN script[s] : script[s][k].ts <= clock
    BY DEF WedgeInv, FleetInv
  <2> QED BY <1>1, <1>6, <2>2, <2>3
<1>10. FleetInv'
  <2>1. DOMAIN script' = Seats /\ script'[s] = Append(script[s], l) /\ \A t \in Seats : t # s => script'[t] = script[t]
    BY <1>8 DEF WedgeInv, FleetInv
  <2>2. \A t \in Seats : Transcript(script'[t]) /\ \A k \in DOMAIN script'[t] : script'[t][k].ts <= clock
    BY <1>7, <1>9, <2>1 DEF WedgeInv, FleetInv
  <2> QED BY <1>8, <2>1, <2>2 DEF WedgeInv, FleetInv
<1>11. SweepInv'
  BY <1>1, <1>8, SweepStands DEF Known
<1> QED BY <1>10, <1>11 DEF WedgeInv

LEMMA TableStep ==
  ASSUME WedgeInv,
         \/ \E s \in Seats : Wedge!Touch(s)
         \/ \E p \in Pids : Wedge!Run(p) \/ Wedge!ParentDies(p) \/ Wedge!End(p) \/ \E hook \in BOOLEAN : Wedge!Spawn(p, hook)
         \/ Wedge!Tick
  PROVE  WedgeInv'
<1>1. /\ clock \in 0 .. MaxTime /\ clock \in Nat /\ spawns \in 0 .. MaxSpawns /\ spawns \in Nat
      /\ MaxTime \in Nat /\ MaxSpawns \in Nat
      /\ table \in [Pids -> {None} \cup Wedge!Process]
      /\ \A p \in Pids : table[p] # None => table[p].name <= spawns /\ table[p] \in Wedge!Process
  BY SweepAssumption DEF WedgeInv, FleetInv
<1>2. ASSUME NEW s \in Seats, Wedge!Touch(s) PROVE WedgeInv'
  <2>1. Wedge!Written(clock, None) \in Wedge!File
    BY <1>1 DEF Wedge!Written, Wedge!File
  <2>2. /\ beacon' = [beacon EXCEPT ![s] = Wedge!Written(clock, None)]
        /\ UNCHANGED <<clock, script, plugin, table, spawns, sweep>>
    BY <1>2 DEF Wedge!Touch
  <2>3. DOMAIN beacon' = Seats /\ \A t \in Seats : beacon'[t] \in Wedge!File
    BY <2>1, <2>2 DEF WedgeInv, FleetInv
  <2>4. FleetInv'
    BY <2>2, <2>3 DEF WedgeInv, FleetInv
  <2> QED BY <1>1, <2>2, <2>4, SweepStands DEF WedgeInv, Known
<1>3. CASE Wedge!Tick
  <2>1. /\ clock' \in 0 .. MaxTime /\ clock' \in Nat /\ clock <= clock' /\ clock' = clock + 1
        /\ UNCHANGED <<script, plugin, beacon, table, spawns, sweep>>
    BY <1>1, <1>3 DEF Wedge!Tick
  <2>2. ASSUME NEW s \in Seats, NEW k \in DOMAIN script[s] PROVE script[s][k].ts <= clock'
    <3>1. script[s][k] \in Wedge!Record /\ script[s][k].ts <= clock
      BY DEF WedgeInv, FleetInv, Transcript
    <3> QED BY <1>1, <2>1, <3>1 DEF Wedge!Record
  <2>3. FleetInv'
    BY <2>1, <2>2 DEF WedgeInv, FleetInv
  <2> QED BY <2>1, <2>3, SweepStands DEF WedgeInv, Known
\* One entry of the table changes.
<1>4. ASSUME NEW p \in Pids, NEW x \in {None} \cup Wedge!Process, table' = [table EXCEPT ![p] = x],
             UNCHANGED <<clock, script, plugin, beacon, sweep>>, spawns' \in 0 .. MaxSpawns, spawns <= spawns',
             x # None => /\ x.name <= spawns'
                         /\ \/ x.name > spawns
                            \/ table[p] # None /\ x.name = table[p].name /\ x.born = table[p].born
      PROVE  WedgeInv'
  <2>1. /\ table' \in [Pids -> {None} \cup Wedge!Process] /\ table'[p] = x
        /\ \A q \in Pids : q # p => table'[q] = table[q]
    BY <1>1, <1>4
  <2>2. spawns' \in Nat
    BY <1>1, <1>4
  <2>3. \A q \in Pids : table'[q] # None => table'[q].name <= spawns'
    <3> SUFFICES ASSUME NEW q \in Pids, table'[q] # None PROVE table'[q].name <= spawns'
      OBVIOUS
    <3>1. CASE q = p
      BY <1>4, <2>1, <3>1
    <3>2. CASE q # p
      <4>1. table[q] \in Wedge!Process /\ table[q].name <= spawns /\ table'[q] = table[q]
        BY <1>1, <2>1, <3>2
      <4> QED BY <1>1, <1>4, <2>2, <4>1 DEF Wedge!Process
    <3> QED BY <3>1, <3>2
  <2>4. FleetInv'
    BY <1>4, <2>1, <2>3 DEF WedgeInv, FleetInv
  <2>5. ASSUME NEW c, Known(c) PROVE Known(c)'
    <3>1. c \in Wedge!Suspect /\ c.name <= spawns /\ c.pid \in Pids /\ c.name \in Nat
      BY <2>5 DEF Known, Wedge!Suspect
    <3>2. c.name <= spawns'
      BY <1>1, <1>4, <2>2, <3>1
    <3>3. table'[c.pid] # None /\ table'[c.pid].name = c.name => table'[c.pid].born = c.born
      <4>1. CASE c.pid # p
        BY <2>1, <2>5, <3>1, <4>1 DEF Known
      <4>2. CASE c.pid = p /\ x # None
        <5>1. ~(x.name > spawns) \/ x.name # c.name
          BY <1>1, <3>1
        <5> QED BY <1>4, <2>1, <2>5, <4>2, <5>1 DEF Known
      <4>3. CASE c.pid = p /\ x = None
        BY <2>1, <4>3
      <4> QED BY <4>1, <4>2, <4>3
    <3> QED BY <3>1, <3>2, <3>3 DEF Known
  <2> QED BY <1>1, <1>4, <2>4, <2>5, SweepStands DEF WedgeInv
<1>5. ASSUME NEW p \in Pids, Wedge!End(p) PROVE WedgeInv'
  <2>1. /\ table' = [table EXCEPT ![p] = None] /\ UNCHANGED <<clock, script, plugin, beacon, sweep>>
        /\ spawns' = spawns
    BY <1>5 DEF Wedge!End
  <2>2. spawns' \in 0 .. MaxSpawns /\ spawns <= spawns'
    BY <1>1, <2>1
  <2> QED BY <1>4, <2>1, <2>2
<1>6. ASSUME NEW p \in Pids, Wedge!Run(p) \/ Wedge!ParentDies(p) PROVE WedgeInv'
  <2>1. table[p] # None /\ table[p] \in Wedge!Process /\ table[p].name <= spawns
    BY <1>1, <1>6 DEF Wedge!Run, Wedge!ParentDies
  <2>2. PICK x : x = table'[p]
    OBVIOUS
  <2>3. /\ x \in Wedge!Process /\ x.name = table[p].name /\ x.born = table[p].born
        /\ table' = [table EXCEPT ![p] = x]
    <3>1. PICK y : y = table[p]
      OBVIOUS
    <3>2. y \in Wedge!Process
      BY <2>1, <3>1
    <3>3. /\ table' = [table EXCEPT ![p] = x]
          /\ x = [y EXCEPT !.ran = TRUE] \/ x = [y EXCEPT !.orphan = TRUE]
      <4>1. CASE Wedge!Run(p)
        BY <1>1, <2>2, <3>1, <4>1 DEF Wedge!Run
      <4>2. CASE Wedge!ParentDies(p)
        BY <1>1, <2>2, <3>1, <4>2 DEF Wedge!ParentDies
      <4> QED BY <1>6, <4>1, <4>2
    <3>4. x \in Wedge!Process /\ x.name = y.name /\ x.born = y.born
      BY <3>2, <3>3 DEF Wedge!Process
    <3> QED BY <3>1, <3>3, <3>4
  <2>4. UNCHANGED <<clock, script, plugin, beacon, sweep, spawns>>
    BY <1>6 DEF Wedge!Run, Wedge!ParentDies
  <2>5. spawns' \in 0 .. MaxSpawns /\ spawns <= spawns' /\ x.name <= spawns'
    BY <1>1, <2>1, <2>3, <2>4
  <2> QED BY <1>4, <2>1, <2>3, <2>4, <2>5
<1>7. ASSUME NEW p \in Pids, NEW hook \in BOOLEAN, Wedge!Spawn(p, hook) PROVE WedgeInv'
  <2>1. PICK x : x = [name |-> spawns', born |-> clock, hook |-> hook, orphan |-> FALSE, ran |-> FALSE]
    OBVIOUS
  <2>2. /\ spawns' = spawns + 1 /\ table' = [table EXCEPT ![p] = x] /\ spawns < MaxSpawns
        /\ UNCHANGED <<clock, script, plugin, beacon, sweep>>
    BY <1>7, <2>1 DEF Wedge!Spawn
  <2>3. x \in Wedge!Process /\ x.name = spawns'
    BY <1>1, <2>1, <2>2 DEF Wedge!Process
  <2>4. spawns' \in 0 .. MaxSpawns /\ spawns <= spawns' /\ x.name > spawns /\ x.name <= spawns'
    BY <1>1, <2>2, <2>3
  <2> QED BY <1>4, <2>2, <2>3, <2>4
<1> QED BY <1>2, <1>3, <1>5, <1>6, <1>7

\* What a step of the sweep makes of its frame; the fleet stands still.
LEMMA FrameStep ==
  ASSUME WedgeInv, UNCHANGED Wedge!fleet, DOMAIN sweep' = SweepFields,
         sweep'.now = sweep.now \/ sweep'.now = clock,
         sweep'.todo \subseteq Seats, sweep'.dark \subseteq Seats, sweep'.failed \subseteq Pids,
         \A st \in sweep'.stalls : /\ st \in [seat : Seats \ plugin, since : 0 .. clock]
                                   /\ StallAfter <= sweep'.now - st.since,
         \A c \in sweep'.snap : Known(c),
         \A c \in sweep'.cands : Known(c) /\ c.born <= sweep'.now - StallAfter + Halfwidth,
         \A c \in sweep'.doomed : Known(c) /\ c.born <= sweep'.now - StallAfter + Halfwidth,
         \A v \in sweep'.killed : v \in sweep.killed
  PROVE  WedgeInv'
<1>1. UNCHANGED <<clock, script, plugin, beacon, table, spawns>>
  BY DEF Wedge!fleet
<1>2. FleetInv'
  BY <1>1 DEF WedgeInv, FleetInv
<1>3. sweep'.now \in 0 .. clock'
  BY <1>1 DEF WedgeInv, FleetInv, SweepInv
<1>4. \A c : Known(c) => Known(c)'
  BY <1>1 DEF Known
<1>5. SweepInv'
  BY <1>1, <1>3, <1>4 DEF WedgeInv, SweepInv, Joined
<1> QED BY <1>2, <1>5 DEF WedgeInv

\* Every other field of the frame is as it was.
LEMMA GoStep ==
  ASSUME WedgeInv, UNCHANGED Wedge!fleet, NEW step, NEW todo \in SUBSET Seats, sweep' = Wedge!Go(step, todo)
  PROVE  WedgeInv'
<1>1. /\ DOMAIN sweep' = SweepFields /\ sweep'.todo = todo
      /\ sweep'.now = sweep.now /\ sweep'.dark = sweep.dark /\ sweep'.failed = sweep.failed
      /\ sweep'.stalls = sweep.stalls /\ sweep'.snap = sweep.snap /\ sweep'.cands = sweep.cands
      /\ sweep'.doomed = sweep.doomed /\ sweep'.killed = sweep.killed
  BY DEF Wedge!Go, WedgeInv, SweepInv, SweepFields
<1> QED BY <1>1, FrameStep DEF WedgeInv, SweepInv, Joined

LEMMA BeginStep ==
  ASSUME WedgeInv, Wedge!Begin
  PROVE  WedgeInv'
<1>1. /\ DOMAIN sweep' = SweepFields /\ sweep'.todo = Seats /\ sweep'.now = clock /\ sweep'.dark = {} /\ sweep'.failed = {}
      /\ sweep'.stalls = {} /\ sweep'.snap = {} /\ sweep'.cands = {} /\ sweep'.doomed = {} /\ sweep'.killed = {}
  BY DEF Wedge!Begin, Wedge!NoSweep, SweepFields
<1>2. UNCHANGED Wedge!fleet
  BY DEF Wedge!Begin
<1> QED BY <1>1, <1>2, FrameStep

LEMMA TranscriptIsRead ==
  ASSUME WedgeInv, NEW s \in Seats, Wedge!ReadTranscript(s)
  PROVE  WedgeInv'
<1>1. PICK since : since = Wedge!Since(Wedge!TailRecords(script[s]))
  OBVIOUS
<1>2. /\ DOMAIN sweep' = SweepFields /\ sweep'.todo = sweep.todo \ {s}
      /\ sweep'.stalls = IF Wedge!Stall(s, since) THEN sweep.stalls \cup {[seat |-> s, since |-> since]} ELSE sweep.stalls
      /\ sweep'.now = sweep.now /\ sweep'.dark = sweep.dark /\ sweep'.failed = sweep.failed
      /\ sweep'.snap = sweep.snap /\ sweep'.cands = sweep.cands
      /\ sweep'.doomed = sweep.doomed /\ sweep'.killed = sweep.killed
  BY <1>1 DEF Wedge!ReadTranscript, WedgeInv, SweepInv, SweepFields
<1>3. UNCHANGED Wedge!fleet
  BY DEF Wedge!ReadTranscript
<1>4. /\ Transcript(script[s]) /\ clock \in Nat
      /\ \A k \in DOMAIN script[s] : script[s][k].ts <= clock
  BY DEF WedgeInv, FleetInv
<1>5. ASSUME Wedge!Stall(s, since)
      PROVE  since \in 0 .. clock /\ s \in Seats \ plugin /\ StallAfter <= sweep.now - since
  <2>1. /\ since # None /\ sweep.now - since >= StallAfter /\ s \notin plugin
    BY <1>5 DEF Wedge!Stall
  <2>2. since \in WaitsSince(script[s]) /\ since \in Nat
    BY <1>1, <1>4, <2>1, SinceIs
  <2>3. since <= clock
    BY <1>4, <2>2 DEF WaitsSince, WaitsIn, IsUse
  <2>4. sweep.now \in Nat /\ StallAfter \in Nat
    BY SweepAssumption, <1>4 DEF WedgeInv, SweepInv
  <2> QED BY <1>4, <2>1, <2>2, <2>3, <2>4
<1>6. ASSUME NEW st \in sweep'.stalls
      PROVE  st \in [seat : Seats \ plugin, since : 0 .. clock] /\ StallAfter <= sweep'.now - st.since
  <2>1. CASE st \in sweep.stalls
    BY <1>2, <2>1 DEF WedgeInv, SweepInv
  <2>2. CASE Wedge!Stall(s, since) /\ st = [seat |-> s, since |-> since]
    BY <1>2, <1>5, <2>2
  <2> QED BY <1>2, <1>6, <2>1, <2>2
<1> QED BY <1>2, <1>3, <1>6, FrameStep DEF WedgeInv, SweepInv, Joined

LEMMA LeasesAreRead ==
  ASSUME WedgeInv, Wedge!ReadLeases \/ \E s \in Seats : Wedge!GradeAgency(s)
  PROVE  WedgeInv'
<1>1. /\ DOMAIN sweep' = SweepFields /\ sweep'.todo \subseteq Seats /\ sweep'.dark \subseteq Seats
      /\ sweep'.now = sweep.now /\ sweep'.failed = sweep.failed
      /\ sweep'.stalls = sweep.stalls /\ sweep'.snap = sweep.snap /\ sweep'.cands = sweep.cands
      /\ sweep'.doomed = sweep.doomed /\ sweep'.killed = sweep.killed
  <2>1. CASE Wedge!ReadLeases
    BY <2>1 DEF Wedge!ReadLeases, Wedge!Go, WedgeInv, SweepInv, SweepFields
  <2>2. ASSUME NEW s \in Seats, Wedge!GradeAgency(s)
        PROVE  /\ DOMAIN sweep' = SweepFields /\ sweep'.todo \subseteq Seats /\ sweep'.dark \subseteq Seats
               /\ sweep'.now = sweep.now /\ sweep'.failed = sweep.failed
               /\ sweep'.stalls = sweep.stalls /\ sweep'.snap = sweep.snap /\ sweep'.cands = sweep.cands
               /\ sweep'.doomed = sweep.doomed /\ sweep'.killed = sweep.killed
    <3>1. PICK dark \in SUBSET {s} : sweep' = [sweep EXCEPT !.todo = @ \ {s}, !.dark = @ \cup dark]
      <4>1. PICK dark : sweep' = [sweep EXCEPT !.todo = @ \ {s}, !.dark = IF dark THEN @ \cup {s} ELSE @]
        BY <2>2 DEF Wedge!GradeAgency
      <4>2. CASE dark
        BY <4>1, <4>2
      <4>3. CASE ~dark
        <5>1. sweep' = [sweep EXCEPT !.todo = @ \ {s}, !.dark = @ \cup {}]
          BY <4>1, <4>3
        <5> QED BY <5>1
      <4> QED BY <4>2, <4>3
    <3> QED BY <3>1 DEF WedgeInv, SweepInv, SweepFields
  <2> QED BY <2>1, <2>2
<1>2. UNCHANGED Wedge!fleet
  BY DEF Wedge!ReadLeases, Wedge!GradeAgency
<1> QED BY <1>1, <1>2, FrameStep DEF WedgeInv, SweepInv, Joined

LEMMA SnapshotStep ==
  ASSUME WedgeInv, Wedge!Snapshot
  PROVE  WedgeInv'
<1>1. PICK sig \in [Wedge!Hooks -> {"UNMEASURED", "RAN", "NEVER-RAN"}], seen \in {Wedge!Hooks, {}} :
        sweep' = [Wedge!Go("joining", {}) EXCEPT
          !.snap = {[pid |-> p, name |-> table[p].name, born |-> table[p].born, sig |-> sig[p]] : p \in seen}]
  BY DEF Wedge!Snapshot
<1>2. /\ DOMAIN sweep' = SweepFields /\ sweep'.todo = {} /\ sweep'.dark = sweep.dark
      /\ sweep'.snap = {[pid |-> p, name |-> table[p].name, born |-> table[p].born, sig |-> sig[p]] : p \in seen}
      /\ sweep'.now = sweep.now /\ sweep'.failed = sweep.failed
      /\ sweep'.stalls = sweep.stalls /\ sweep'.cands = sweep.cands
      /\ sweep'.doomed = sweep.doomed /\ sweep'.killed = sweep.killed
  BY <1>1 DEF Wedge!Go, WedgeInv, SweepInv, SweepFields
<1>3. ASSUME NEW c \in sweep'.snap PROVE Known(c)
  <2>1. PICK p \in Wedge!Hooks : c = [pid |-> p, name |-> table[p].name, born |-> table[p].born, sig |-> sig[p]]
    BY <1>2, <1>3
  <2>2. p \in Pids /\ table[p] # None
    BY <2>1 DEF Wedge!Hooks
  <2>3. table[p] \in Wedge!Process /\ table[p].name <= spawns
    BY <2>2 DEF WedgeInv, FleetInv
  <2>4. table[p].name \in Nat /\ table[p].born \in Nat /\ sig[p] \in {"UNMEASURED", "RAN", "NEVER-RAN"}
    BY <2>1, <2>3 DEF Wedge!Process
  <2> QED BY <2>1, <2>2, <2>3, <2>4 DEF Known, Wedge!Suspect
<1>4. UNCHANGED Wedge!fleet
  BY DEF Wedge!Snapshot
<1> QED BY <1>2, <1>3, <1>4, FrameStep DEF WedgeInv, SweepInv, Joined

LEMMA JoinStep ==
  ASSUME WedgeInv, NEW st \in sweep.stalls, Wedge!Join(st)
  PROVE  WedgeInv'
<1>1. /\ DOMAIN sweep' = SweepFields /\ sweep'.todo = sweep.todo /\ sweep'.dark = sweep.dark
      /\ sweep'.snap = sweep.snap /\ sweep'.now = sweep.now /\ sweep'.failed = sweep.failed
      /\ sweep'.stalls = sweep.stalls \ {st} /\ sweep'.cands = {c \in sweep.snap : Wedge!InWindow(c, st)}
      /\ sweep'.doomed = sweep.doomed /\ sweep'.killed = sweep.killed
  BY DEF Wedge!Join, WedgeInv, SweepInv, SweepFields
<1>2. UNCHANGED Wedge!fleet
  BY DEF Wedge!Join
<1>3. st.since \in Nat /\ sweep.now \in Nat /\ StallAfter <= sweep.now - st.since
  BY DEF WedgeInv, SweepInv, FleetInv
<1>4. ASSUME NEW c \in sweep'.cands
      PROVE  Known(c) /\ c.born <= sweep'.now - StallAfter + Halfwidth
  <2>1. Known(c) /\ Wedge!InWindow(c, st)
    BY <1>1, <1>4 DEF WedgeInv, SweepInv
  <2>2. c.born \in Nat /\ StallAfter \in Nat /\ Halfwidth \in Nat
    BY <2>1, SweepAssumption DEF Known, Wedge!Suspect
  <2>3. c.born - st.since <= Halfwidth
    BY <1>3, <2>1, <2>2 DEF Wedge!InWindow
  <2> QED BY <1>1, <1>3, <2>1, <2>2, <2>3
<1> QED BY <1>1, <1>2, <1>4, FrameStep DEF WedgeInv, SweepInv, Joined

LEMMA ParentIsAsked ==
  ASSUME WedgeInv, NEW c \in sweep.cands, Wedge!AskParent(c)
  PROVE  WedgeInv'
<1>1. /\ DOMAIN sweep' = SweepFields /\ sweep'.todo = sweep.todo /\ sweep'.dark = sweep.dark
      /\ sweep'.snap = sweep.snap /\ sweep'.now = sweep.now /\ sweep'.failed = sweep.failed
      /\ sweep'.stalls = sweep.stalls /\ sweep'.cands = sweep.cands \ {c}
      /\ \A d \in sweep'.doomed : d \in sweep.doomed \/ d = c
      /\ sweep'.killed = sweep.killed
  BY DEF Wedge!AskParent, WedgeInv, SweepInv, SweepFields
<1>2. UNCHANGED Wedge!fleet
  BY DEF Wedge!AskParent
<1> QED BY <1>1, <1>2, FrameStep DEF WedgeInv, SweepInv, Joined

LEMMA KillStep ==
  ASSUME WedgeInv, NEW c \in sweep.doomed, Wedge!Kill(c)
  PROVE  WedgeInv'
<1>1. Known(c) /\ Joined(c) /\ c \in Wedge!Suspect /\ c.pid \in Pids /\ c.born \in Nat
  BY DEF WedgeInv, SweepInv, Known, Wedge!Suspect
<1>2. /\ DOMAIN sweep' = SweepFields /\ sweep'.todo = sweep.todo /\ sweep'.dark = sweep.dark
      /\ sweep'.snap = sweep.snap /\ sweep'.now = sweep.now
      /\ sweep'.stalls = sweep.stalls /\ sweep'.cands = sweep.cands /\ sweep'.doomed = sweep.doomed \ {c}
  BY DEF Wedge!Kill, WedgeInv, SweepInv, SweepFields
<1>3. /\ sweep'.failed \subseteq Pids
      /\ UNCHANGED <<clock, script, plugin, beacon, spawns>>
  <2>1. sweep'.failed = sweep.failed \/ sweep'.failed = sweep.failed \cup {c.pid}
    BY DEF Wedge!Kill, WedgeInv, SweepInv, SweepFields
  <2>2. UNCHANGED <<clock, script, plugin, beacon, spawns>>
    BY DEF Wedge!Kill
  <2> QED BY <1>1, <2>1, <2>2 DEF WedgeInv, SweepInv
<1>4. CASE table' = table /\ sweep'.killed = sweep.killed
  <2>1. UNCHANGED Wedge!fleet
    BY <1>3, <1>4 DEF Wedge!fleet
  <2> QED BY <1>2, <1>3, <1>4, <2>1, FrameStep DEF WedgeInv, SweepInv, Joined
<1>5. CASE /\ table[c.pid] # None /\ table' = [table EXCEPT ![c.pid] = None]
           /\ sweep'.killed = sweep.killed \cup
                {[meant |-> c, name |-> table[c.pid].name, age |-> clock - table[c.pid].born]}
  <2>1. /\ table' \in [Pids -> {None} \cup Wedge!Process]
        /\ \A p \in Pids : table'[p] = IF p = c.pid THEN None ELSE table[p]
    BY <1>1, <1>5 DEF WedgeInv, FleetInv
  <2>2. FleetInv'
    BY <1>3, <2>1 DEF WedgeInv, FleetInv
  <2>3. ASSUME NEW d, Known(d) PROVE Known(d)'
    BY <1>3, <2>1, <2>3 DEF Known, Wedge!Suspect
  <2>4. ASSUME NEW v \in sweep'.killed
        PROVE  v.meant \in Wedge!Suspect /\ (v.name = v.meant.name => v.age >= StallAfter - Halfwidth)
    <3>1. CASE v \in sweep.killed
      BY <3>1 DEF WedgeInv, SweepInv
    <3>2. CASE v = [meant |-> c, name |-> table[c.pid].name, age |-> clock - table[c.pid].born]
      <4>1. v.meant = c /\ v.name = table[c.pid].name /\ v.age = clock - table[c.pid].born
        BY <3>2
      <4>2. ASSUME v.name = v.meant.name PROVE v.age >= StallAfter - Halfwidth
        <5>1. table[c.pid].born = c.born
          BY <1>1, <1>5, <4>1, <4>2 DEF Known
        <5>2. clock \in Nat /\ sweep.now \in Nat /\ sweep.now <= clock /\ StallAfter \in Nat /\ Halfwidth \in Nat
          BY SweepAssumption DEF WedgeInv, FleetInv, SweepInv
        <5>3. c.born <= sweep.now - StallAfter + Halfwidth
          BY <1>1 DEF Joined
        <5> QED BY <1>1, <4>1, <5>1, <5>2, <5>3
      <4> QED BY <1>1, <4>1, <4>2
    <3> QED BY <1>5, <2>4, <3>1, <3>2
  <2>5. SweepInv'
    BY <1>2, <1>3, <2>3, <2>4 DEF WedgeInv, SweepInv, Joined
  <2> QED BY <2>2, <2>5 DEF WedgeInv
<1>6. \/ table' = table /\ sweep'.killed = sweep.killed
      \/ /\ table[c.pid] # None /\ table' = [table EXCEPT ![c.pid] = None]
         /\ sweep'.killed = sweep.killed \cup
              {[meant |-> c, name |-> table[c.pid].name, age |-> clock - table[c.pid].born]}
  BY DEF Wedge!Kill, WedgeInv, SweepInv, SweepFields
<1> QED BY <1>4, <1>5, <1>6

LEMMA WedgeStep ==
  ASSUME WedgeInv, Wedge!Next
  PROVE  WedgeInv'
<1>1. CASE \E s \in Seats : Wedge!Issue(s) \/ Wedge!Result(s) \/ Wedge!Arrival(s)
  BY <1>1, TranscriptStep
<1>2. CASE \/ \E s \in Seats : Wedge!Touch(s)
           \/ \E p \in Pids : Wedge!Run(p) \/ Wedge!ParentDies(p) \/ Wedge!End(p) \/ \E hook \in BOOLEAN : Wedge!Spawn(p, hook)
           \/ Wedge!Tick
  BY <1>2, TableStep
<1>3. CASE \E s \in Seats : Wedge!ReadTranscript(s)
  BY <1>3, TranscriptIsRead
<1>4. CASE Wedge!ReadLeases \/ \E s \in Seats : Wedge!GradeAgency(s)
  BY <1>4, LeasesAreRead
<1>5. CASE Wedge!Judged \/ Wedge!NextStall \/ Wedge!Report
  <2>1. UNCHANGED Wedge!fleet /\ \E step : sweep' = Wedge!Go(step, {})
    BY <1>5 DEF Wedge!Judged, Wedge!NextStall, Wedge!Report
  <2> QED BY <2>1, GoStep
<1>6. CASE \E st \in sweep.stalls : Wedge!Join(st)
  BY <1>6, JoinStep
<1>7. CASE \E c \in sweep.cands : Wedge!AskParent(c)
  BY <1>7, ParentIsAsked
<1>8. CASE \E c \in sweep.doomed : Wedge!Kill(c)
  BY <1>8, KillStep
<1> QED BY <1>1, <1>2, <1>3, <1>4, <1>5, <1>6, <1>7, <1>8, BeginStep, SnapshotStep DEF Wedge!Next

LEMMA WedgeHolds == WedgeInv => Wedge!TypeOK /\ Wedge!NoYoungVictim
<1> SUFFICES ASSUME WedgeInv PROVE Wedge!TypeOK /\ Wedge!NoYoungVictim
  OBVIOUS
<1>1. \A s \in Seats : \A k \in DOMAIN script[s] : script[s][k] \in Wedge!Record
  BY DEF WedgeInv, FleetInv, Transcript
<1>2. \A c : Known(c) => c \in Wedge!Suspect
  BY DEF Known
<1>3. sweep.stalls \subseteq [seat : Seats \ plugin, since : 0 .. clock]
  BY DEF WedgeInv, SweepInv
<1>4. sweep.snap \cup sweep.cands \cup sweep.doomed \subseteq Wedge!Suspect
  BY <1>2 DEF WedgeInv, SweepInv
<1> QED BY <1>1, <1>3, <1>4 DEF WedgeInv, FleetInv, SweepInv, Wedge!TypeOK, Wedge!NoYoungVictim

-----------------------------------------------------------------------------
(* What is reported as stalled.                                            *)

StallIsReal(st) ==
  \E k \in DOMAIN script[st.seat] :
     /\ Wedge!Waits(st.seat, k)
     /\ script[st.seat][k].ts <= st.since
     /\ sweep.now - st.since >= StallAfter
WaitsLong(s) ==
  /\ \E k \in DOMAIN script[s] :
        /\ Wedge!Waits(s, k)
        /\ Len(script[s]) - k < Window
        /\ sweep.now - script[s][k].ts >= StallAfter
  /\ \A j \in DOMAIN script[s] :
        Wedge!Waits(s, j) => sweep.now - script[s][j].ts <= AbandonAfter

LEMMA WaitsAre ==
  ASSUME NEW s \in Seats, NEW k \in DOMAIN script[s]
  PROVE  Wedge!Waits(s, k) <=> WaitsIn(script[s], k)
BY DEF Wedge!Waits, WaitsIn, IsUse, IsAnswer

LEMMA ReadIsReal ==
  ASSUME WedgeInv, NEW s \in Seats, Wedge!ReadTranscript(s), NEW st \in sweep'.stalls \ sweep.stalls
  PROVE  StallIsReal(st)
<1>1. PICK since : since = Wedge!Since(Wedge!TailRecords(script[s]))
  OBVIOUS
<1>2. st = [seat |-> s, since |-> since] /\ Wedge!Stall(s, since)
  BY <1>1 DEF Wedge!ReadTranscript, WedgeInv, SweepInv, SweepFields
<1>3. Transcript(script[s])
  BY DEF WedgeInv, FleetInv
<1>4. since \in WaitsSince(script[s]) /\ since \in Nat
  BY <1>1, <1>2, <1>3, SinceIs DEF Wedge!Stall
<1>5. PICK k \in DOMAIN script[s] : WaitsIn(script[s], k) /\ since = script[s][k].ts
  BY <1>4 DEF WaitsSince, WaitsIn, IsUse
<1>6. Wedge!Waits(s, k)
  BY <1>5, WaitsAre
<1>7. script[s][k].ts <= since
  BY <1>4, <1>5
<1>8. sweep.now - since >= StallAfter
  BY <1>2 DEF Wedge!Stall
<1>9. st.seat = s /\ st.since = since
  BY <1>2
<1> QED BY <1>6, <1>7, <1>8, <1>9 DEF StallIsReal

LEMMA ReadHidesNone ==
  ASSUME WedgeInv, NEW s \in Seats \ plugin, Wedge!ReadTranscript(s), WaitsLong(s)
  PROVE  \E st \in sweep'.stalls : st.seat = s
<1>1. PICK since : since = Wedge!Since(Wedge!TailRecords(script[s]))
  OBVIOUS
<1>2. PICK recs : recs = script[s]
  OBVIOUS
<1>3. /\ Transcript(recs) /\ recs \in Seq(Wedge!Record) /\ Len(recs) \in Nat /\ DOMAIN recs = 1 .. Len(recs)
      /\ clock \in Nat /\ sweep.now \in Nat
  <2>1. Transcript(recs) /\ clock \in Nat /\ sweep.now \in Nat
    BY <1>2 DEF WedgeInv, FleetInv, SweepInv
  <2>2. recs \in Seq(Wedge!Record)
    BY <2>1 DEF Transcript
  <2> QED BY <2>1, <2>2
<1>4. PICK k \in DOMAIN recs : /\ WaitsIn(recs, k) /\ Len(recs) - k < Window
                               /\ sweep.now - recs[k].ts >= StallAfter
  BY <1>2, WaitsAre DEF WaitsLong
<1>5. k \in FirstOf(recs) .. Len(recs)
  BY <1>3, <1>4, SweepAssumption DEF FirstOf
<1>6. recs[k].ts \in WaitsSince(recs)
  BY <1>4, <1>5 DEF WaitsSince
<1>7. /\ since # None /\ since \in WaitsSince(recs) /\ since <= recs[k].ts
      /\ since \in Nat /\ recs[k].ts \in Nat
  BY <1>1, <1>2, <1>3, <1>6, SinceIs
<1>8. PICK j \in DOMAIN recs : WaitsIn(recs, j) /\ since = recs[j].ts
  BY <1>7 DEF WaitsSince, WaitsIn, IsUse
<1>9. sweep.now - since <= AbandonAfter
  BY <1>2, <1>8, WaitsAre DEF WaitsLong
<1>10. sweep.now - since >= StallAfter
  BY <1>3, <1>4, <1>7, SweepAssumption
<1>11. Wedge!Stall(s, since)
  BY <1>7, <1>9, <1>10 DEF Wedge!Stall
<1>12. sweep'.stalls = sweep.stalls \cup {[seat |-> s, since |-> since]}
  BY <1>1, <1>11 DEF Wedge!ReadTranscript, WedgeInv, SweepInv, SweepFields
<1>13. PICK st : st = [seat |-> s, since |-> since]
  OBVIOUS
<1>14. st \in sweep'.stalls /\ st.seat = s
  BY <1>12, <1>13
<1> QED BY <1>14

\* Only the reading of a transcript adds a stall, or is done with a seat.
LEMMA OnlyReadingStalls ==
  ASSUME WedgeInv, Wedge!Next, \A s \in Seats : ~Wedge!ReadTranscript(s)
  PROVE  /\ sweep'.stalls \subseteq sweep.stalls
         /\ sweep.pc = "stalls" => sweep.todo \ sweep'.todo = {}
<1>1. DOMAIN sweep = SweepFields
  BY DEF WedgeInv, SweepInv
<1>2. CASE sweep' = sweep
  BY <1>2
<1>3. CASE Wedge!Begin
  BY <1>3 DEF Wedge!Begin, Wedge!NoSweep
<1>4. CASE Wedge!ReadLeases
  BY <1>1, <1>4 DEF Wedge!ReadLeases, Wedge!Go, SweepFields
<1>5. CASE \E s \in Seats : Wedge!GradeAgency(s)
  BY <1>1, <1>5 DEF Wedge!GradeAgency, SweepFields
<1>6. CASE Wedge!Snapshot
  <2>1. PICK snap : sweep' = [Wedge!Go("joining", {}) EXCEPT !.snap = snap]
    BY <1>6 DEF Wedge!Snapshot
  <2>2. sweep.pc = "dark"
    BY <1>6 DEF Wedge!Snapshot
  <2> QED BY <1>1, <2>1, <2>2 DEF Wedge!Go, SweepFields
<1>7. CASE \E st \in sweep.stalls : Wedge!Join(st)
  BY <1>1, <1>7 DEF Wedge!Join, SweepFields
<1>8. CASE \E c \in sweep.cands : Wedge!AskParent(c)
  BY <1>1, <1>8 DEF Wedge!AskParent, SweepFields
<1>9. CASE \E c \in sweep.doomed : Wedge!Kill(c)
  BY <1>1, <1>9 DEF Wedge!Kill, SweepFields
<1>10. CASE Wedge!Judged \/ Wedge!NextStall \/ Wedge!Report
  BY <1>1, <1>10 DEF Wedge!Judged, Wedge!NextStall, Wedge!Report, Wedge!Go, SweepFields
<1>11. CASE \E s \in Seats : Wedge!Issue(s) \/ Wedge!Result(s) \/ Wedge!Arrival(s) \/ Wedge!Touch(s)
  BY <1>2, <1>11 DEF Wedge!Issue, Wedge!Result, Wedge!Arrival, Wedge!Says, Wedge!Touch
<1>12. CASE \E p \in Pids : Wedge!Run(p) \/ Wedge!ParentDies(p) \/ Wedge!End(p) \/ \E hook \in BOOLEAN : Wedge!Spawn(p, hook)
  BY <1>2, <1>12 DEF Wedge!Run, Wedge!ParentDies, Wedge!End, Wedge!Spawn
<1>13. CASE Wedge!Tick
  BY <1>2, <1>13 DEF Wedge!Tick
<1> QED BY <1>3, <1>4, <1>5, <1>6, <1>7, <1>8, <1>9, <1>10, <1>11, <1>12, <1>13 DEF Wedge!Next

StallsAreRead ==
  /\ \A st \in sweep'.stalls \ sweep.stalls : StallIsReal(st)
  /\ \A s \in Seats \ plugin : sweep.pc = "stalls" /\ s \in sweep.todo \ sweep'.todo /\ WaitsLong(s)
                               => \E st \in sweep'.stalls : st.seat = s

LEMMA StallStep ==
  ASSUME WedgeInv, Wedge!Next
  PROVE  StallsAreRead
<1>1. CASE \A s \in Seats : ~Wedge!ReadTranscript(s)
  BY <1>1, OnlyReadingStalls DEF StallsAreRead
<1>2. ASSUME NEW t \in Seats, Wedge!ReadTranscript(t)
      PROVE  StallsAreRead
  <2>1. \A st \in sweep'.stalls \ sweep.stalls : StallIsReal(st)
    BY <1>2, ReadIsReal
  <2>2. sweep'.todo = sweep.todo \ {t}
    BY <1>2 DEF Wedge!ReadTranscript, WedgeInv, SweepInv, SweepFields
  <2>3. \A s \in Seats \ plugin : s \in sweep.todo \ sweep'.todo => s = t
    BY <2>2
  <2> QED BY <1>2, <2>1, <2>3, ReadHidesNone DEF StallsAreRead
<1> QED BY <1>1, <1>2

-----------------------------------------------------------------------------
(* The tools as TLC runs them: a behaviour moves one of them, and what the *)
(* others would say of themselves stays empty.                             *)

Sweeping == focus \in {"transcripts", "processes"}
CustodyInv ==
  /\ focus \in {"lease", "attempts", "transcripts", "processes"}
  /\ IF focus = "lease" THEN LeaseToolInv ELSE probe = Idle
  /\ IF focus = "attempts" THEN AttemptInv ELSE lines = << >>
  /\ IF Sweeping THEN WedgeInv ELSE sweep = Wedge!NoSweep

LEMMA CustodyStart == CustodyInit => CustodyInv
<1> SUFFICES ASSUME CustodyInit PROVE CustodyInv
  OBVIOUS
<1>1. Init /\ Attempts!Init /\ Wedge!Init /\ focus \in {"lease", "attempts", "transcripts", "processes"}
  BY DEF CustodyInit
<1>2. LeaseToolInv /\ AttemptInv /\ WedgeInv
  BY <1>1, LeaseToolInit, AttemptInit, WedgeInit
<1>3. probe = Idle /\ lines = << >> /\ sweep = Wedge!NoSweep
  BY <1>1 DEF Init, Attempts!Init, Wedge!Init
<1> QED BY <1>1, <1>2, <1>3 DEF CustodyInv

\* What a step of CustodyNext is, and what it leaves alone.
LEMMA CustodyMoves ==
  ASSUME CustodyInv, [CustodyNext]_vars
  PROVE  /\ focus' = focus
         /\ IF focus = "lease" THEN [Next]_leaseVars ELSE probe' = probe
         /\ IF focus = "attempts" THEN [Attempts!Next]_(Attempts!attemptVars) ELSE lines' = lines
         /\ IF Sweeping THEN [Wedge!Next]_(Wedge!sweepVars) ELSE sweep' = sweep
<1>1. CASE UNCHANGED vars
  BY <1>1 DEF vars, leaseOnly, attemptsOnly, sweepOnly, leaseVars, Attempts!attemptVars, Wedge!sweepVars
<1>2. CASE focus' = focus /\ focus = "lease" /\ Next /\ UNCHANGED <<attemptsOnly, sweepOnly>>
  BY <1>2 DEF Sweeping, attemptsOnly, sweepOnly
<1>3. CASE focus' = focus /\ focus = "attempts" /\ Attempts!Next /\ UNCHANGED <<leaseOnly, sweepOnly>>
  BY <1>3 DEF Sweeping, leaseOnly, sweepOnly
<1>4. CASE focus' = focus /\ Sweeping /\ Wedge!Next /\ UNCHANGED <<leaseOnly, attemptsOnly>>
  BY <1>4 DEF Sweeping, leaseOnly, attemptsOnly
<1> QED BY <1>1, <1>2, <1>3, <1>4 DEF CustodyNext, Sweeping

LEMMA WedgeStands ==
  ASSUME WedgeInv, UNCHANGED Wedge!sweepVars
  PROVE  WedgeInv'
BY DEF Wedge!sweepVars, WedgeInv, FleetInv, SweepInv, Known, Joined

LEMMA CustodyStep == CustodyInv /\ [CustodyNext]_vars => CustodyInv'
<1> SUFFICES ASSUME CustodyInv, [CustodyNext]_vars PROVE CustodyInv'
  OBVIOUS
<1>1. /\ focus' = focus /\ (Sweeping' <=> Sweeping)
      /\ focus = "lease" => [Next]_leaseVars
      /\ focus # "lease" => probe' = probe
      /\ focus = "attempts" => [Attempts!Next]_(Attempts!attemptVars)
      /\ focus # "attempts" => lines' = lines
      /\ Sweeping => [Wedge!Next]_(Wedge!sweepVars)
      /\ ~Sweeping => sweep' = sweep
  BY CustodyMoves DEF Sweeping
<1>2. IF focus = "lease" THEN LeaseToolInv' ELSE probe' = Idle
  BY <1>1, LeaseToolStep DEF CustodyInv
<1>3. IF focus = "attempts" THEN AttemptInv' ELSE lines' = << >>
  BY <1>1, AttemptStep DEF CustodyInv
<1>4. IF Sweeping THEN WedgeInv' ELSE sweep' = Wedge!NoSweep
  BY <1>1, WedgeStep, WedgeStands DEF CustodyInv
<1> QED BY <1>1, <1>2, <1>3, <1>4 DEF CustodyInv

\* The inductive invariant of the composition.
THEOREM CustodyInvariant == CustodySpec => []CustodyInv
BY CustodyStart, CustodyStep, PTL DEF CustodySpec

\* live_peers() and self_lease_fresh() never answer without a session that was live
\* in the tree when the directory was listed and still runs.
THEOREM CensusMissesNone == CustodySpec => []NoLivePeerMissed
<1>1. CustodyInv => NoLivePeerMissed
  <2>1. probe = Idle => NoLivePeerMissed
    BY DEF Idle, NoLivePeerMissed
  <2> QED BY <2>1, CensusHolds DEF CustodyInv
<1> QED BY CustodyInvariant, <1>1, PTL

\* classify() calls no session frozen whose newest attempt came back, and none gone
\* that is inside the hook while its runs follow one another; the sweep kills no
\* process that it graded before it is StallAfter - Halfwidth old; and every variable
\* has its type.
THEOREM VerdictsAreAlwaysTrue == CustodySpec => []VerdictsAreTrue
<1>1. ASSUME CustodyInv PROVE VerdictsAreTrue
  <2>1. Attempts!VerdictsAreTrue
    <3>1. lines = << >> => Attempts!Verdict = "unknown"
      BY DEF Attempts!Verdict, Attempts!Records
    <3>2. Attempts!Verdict = "unknown" => Attempts!VerdictsAreTrue
      BY DEF Attempts!VerdictsAreTrue
    <3> QED BY <1>1, <3>1, <3>2, VerdictsHold DEF CustodyInv
  <2>2. Wedge!NoYoungVictim
    <3>1. sweep = Wedge!NoSweep => Wedge!NoYoungVictim
      BY DEF Wedge!NoSweep, Wedge!NoYoungVictim
    <3> QED BY <1>1, <3>1, WedgeHolds DEF CustodyInv
  <2>3. TypesOK
    <3>1. CASE focus = "lease"
      BY <1>1, <3>1 DEF CustodyInv, LeaseToolInv, TypesOK
    <3>2. CASE focus = "attempts"
      BY <1>1, <3>2 DEF CustodyInv, AttemptInv, TypesOK
    <3>3. CASE Sweeping
      BY <1>1, <3>3, WedgeHolds DEF CustodyInv, Sweeping, TypesOK
    <3> QED BY <1>1, <3>1, <3>2, <3>3 DEF CustodyInv, Sweeping
  <2> QED BY <2>1, <2>2, <2>3 DEF VerdictsAreTrue
<1> QED BY CustodyInvariant, <1>1, PTL

\* stalled_sessions() reports a seat only for a call that its whole transcript leaves
\* unanswered, and reports every seat whose call has waited for StallAfter while the
\* tail still holds the call.
THEOREM StallsAreAlwaysExact == CustodySpec => StallsAreExact
<1>1. ASSUME CustodyInv, [CustodyNext]_vars
      PROVE  StallsAreRead
  <2>1. CASE sweep' = sweep
    BY <2>1 DEF StallsAreRead
  <2>2. CASE Sweeping /\ Wedge!Next
    BY <1>1, <2>2, StallStep DEF CustodyInv
  <2> QED BY <1>1, <2>1, <2>2, CustodyMoves DEF Wedge!sweepVars
<1>2. CustodyInv /\ [CustodyNext]_vars =>
        [\A st \in sweep'.stalls \ sweep.stalls :
           \E k \in DOMAIN script[st.seat] :
              /\ Wedge!Waits(st.seat, k)
              /\ script[st.seat][k].ts <= st.since
              /\ sweep.now - st.since >= StallAfter]_(Wedge!sweepVars)
  BY <1>1 DEF StallsAreRead, StallIsReal
<1>3. CustodyInv /\ [CustodyNext]_vars =>
        [\A s \in Seats \ plugin :
           (/\ sweep.pc = "stalls" /\ s \in sweep.todo \ sweep'.todo
            /\ \E k \in DOMAIN script[s] :
                  /\ Wedge!Waits(s, k)
                  /\ Len(script[s]) - k < Window
                  /\ sweep.now - script[s][k].ts >= StallAfter
                  /\ \A j \in DOMAIN script[s] :
                       Wedge!Waits(s, j) => sweep.now - script[s][j].ts <= AbandonAfter)
           => \E st \in sweep'.stalls : st.seat = s]_(Wedge!sweepVars)
  BY <1>1 DEF StallsAreRead, WaitsLong
<1> QED BY CustodyInvariant, <1>2, <1>3, PTL DEF CustodySpec, StallsAreExact, Wedge!NoInventedStall, Wedge!NoStallHidden
=============================================================================
