--------------------------- MODULE Ledgers_proofs ---------------------------
(***************************************************************************)
(* What the tools that grant from, hold in or read a ledger promise, for   *)
(* every value of the constants: any arms, claims, edges, archives and     *)
(* scribes, however they race, fail and die.                               *)
(*                                                                         *)
(* Each tool has an inductive invariant over its own variables; a step of  *)
(* LedgersSpec is a step of one tool and a stutter of the others.  What    *)
(* the promises count cannot be kept by induction as it stands:            *)
(*   - of the cap, every grant needs the slot behind it (CapInv);          *)
(*   - of the legs, rows that are glued to a cut append or hidden in the   *)
(*     header's place, and claims that have been let through (LegInv);     *)
(*   - of the archives, the holes that trouble leaves behind, for a hole   *)
(*     costs a volume only rotations later (RotateInv);                    *)
(*   - of the authorisations, the line of each spend against the line of   *)
(*     its record, for Clean compares lines and not events (AuthInv);      *)
(*   - of the commissions, the rows that scribes have copied but not yet   *)
(*     appended, and the pieces of lines that are there to be glued to     *)
(*     (FleetInv).                                                         *)
(***************************************************************************)
EXTENDS MCLedgers, Sequences, FiniteSetTheorems, TLAPS

\* A step belongs to one tool and leaves the variables of the others alone.
LEMMA StepsApart ==
  ASSUME [LedgersNext]_all
  PROVE  /\ [Next]_vars
         /\ [Legs!Next]_legOnly /\ [Taps!Next]_tapOnly /\ [Rotation!Next]_rotateOnly
         /\ [Auth!Next]_authOnly /\ [Fleet!Next]_fleetOnly
BY DEF LedgersNext, Claiming, all

\* The modules of the tools count with the same operator.
LEMMA CountsAlike ==
  \A S : /\ Legs!Cardinality(S) = Cardinality(S)
         /\ Fleet!Cardinality(S) = Cardinality(S)
         /\ Rotation!Cardinality(S) = Cardinality(S)
         /\ Auth!Cardinality(S) = Cardinality(S)
BY DEF Cardinality, Legs!Cardinality, Fleet!Cardinality, Rotation!Cardinality, Auth!Cardinality

\* Counting one element more, or one less.
LEMMA OneMoreOrLess ==
  ASSUME NEW S, IsFiniteSet(S), NEW x
  PROVE  /\ IsFiniteSet(S \cup {x}) /\ IsFiniteSet(S \ {x})
         /\ Cardinality(S) \in Nat /\ Cardinality(S \ {x}) \in Nat
         /\ x \notin S => Cardinality(S \cup {x}) = Cardinality(S) + 1
         /\ x \in S => Cardinality(S \ {x}) = Cardinality(S) - 1
BY FS_AddElement, FS_RemoveElement, FS_CardinalityType

-----------------------------------------------------------------------------
(* The arms of a run.                                                      *)

\* An arm past its O_EXCL create holds the slot i[a], within its own cap.
Owns(a) == i[a] \in 1 .. MaxCap /\ i[a] <= cap[a] /\ holder[i[a]] = a

\* An arm still in the loop holds nothing, and every slot it went past is taken.
Passed(a) == /\ \A k \in Slots : holder[k] # a
             /\ \A k \in 1 .. i[a] - 1 : holder[k] # NoArm

\* Every slot of a's cap is held by another arm.
Full(a) == \A k \in 1 .. cap[a] : holder[k] \notin {NoArm, a}

SlotInv ==
  \A a \in Arms :
    /\ pc[a] \in {"claiming", "writing"} => cap[a] \in 0 .. MaxCap
    /\ pc[a] = "claiming" => i[a] \in 1 .. cap[a] + 1
    /\ rc[a] # "none" => pc[a] = "done"
    /\ rc[a] = "granted" => cap[a] \in 0 .. MaxCap
    /\ pc[a] = "writing" \/ rc[a] = "granted" => Owns(a)
    /\ pc[a] = "start" => \A k \in Slots : holder[k] # a
    /\ pc[a] = "claiming" => Passed(a)
    /\ rc[a] = "exhausted" => cap[a] \in 0 .. MaxCap /\ Full(a)

CapInv == TypeOK /\ SlotInv

LEMMA CapInit == LedgersInit => CapInv
<1> SUFFICES ASSUME Init PROVE CapInv
  BY DEF LedgersInit
<1> QED BY MaxCapAssumption, ArmsAssumption DEF Init, CapInv, TypeOK, SlotInv, Caps, Codes, Slots

\* A refusal prints a count that is bounded by the slots there are.
LEMMA CountBound == SlotsUsed \in 0 .. MaxCap
<1>1. IsFiniteSet(Slots) /\ Cardinality(Slots) = MaxCap
  BY MaxCapAssumption, FS_Interval DEF Slots
<1>2. Taken \subseteq Slots
  BY DEF Taken
<1> QED BY MaxCapAssumption, <1>1, <1>2, FS_Subset, FS_CardinalityType DEF SlotsUsed

LEMMA TypeStep == CapInv /\ [Next]_vars => TypeOK'
<1> SUFFICES ASSUME CapInv, [Next]_vars PROVE TypeOK'
  OBVIOUS
<1> USE MaxCapAssumption, ArmsAssumption DEF CapInv, TypeOK
<1>1. ASSUME NEW a \in Arms, NEW c \in Caps, Start(a, c) PROVE TypeOK'
  BY <1>1 DEF Start, Slots, Codes
<1>2. ASSUME NEW a \in Arms, NEW c \in Caps, CannotStart(a, c) PROVE TypeOK'
  BY <1>2 DEF CannotStart, Exit, Codes
<1>3. ASSUME NEW a \in Arms, Create(a) PROVE TypeOK'
  BY <1>3 DEF Create
<1>4. ASSUME NEW a \in Arms, TryNext(a) PROVE TypeOK'
  <2>1. i[a] \in 0 .. MaxCap
    BY <1>4 DEF TryNext, Trying, SlotInv
  <2> QED BY <1>4, <2>1 DEF TryNext, Advance
<1>5. ASSUME NEW a \in Arms, OpenFails(a) \/ Grant(a) \/ WriteFails(a) \/ Crash(a) PROVE TypeOK'
  BY <1>5 DEF OpenFails, Grant, WriteFails, Crash, Exit, Codes
<1>6. ASSUME NEW a \in Arms, Refuse(a) PROVE TypeOK'
  <2>1. PICK n \in {SlotsUsed, 0} : used' = [used EXCEPT ![a] = n]
    BY <1>6 DEF Refuse
  <2>2. n \in 0 .. MaxCap
    BY CountBound, <2>1, MaxCapAssumption
  <2> QED BY <1>6, <2>1, <2>2 DEF Refuse, Exit, Codes
<1>7. CASE UNCHANGED vars
  BY <1>7 DEF vars
<1> QED BY <1>1, <1>2, <1>3, <1>4, <1>5, <1>6, <1>7 DEF Next, Step

LEMMA SlotStep == CapInv /\ [Next]_vars => SlotInv'
<1> SUFFICES ASSUME CapInv, [Next]_vars PROVE SlotInv'
  OBVIOUS
<1> USE MaxCapAssumption, ArmsAssumption DEF CapInv, TypeOK, SlotInv
<1>1. ASSUME NEW a \in Arms, NEW c \in Caps, Start(a, c) PROVE SlotInv'
  BY <1>1 DEF Start, Caps, Owns, Passed, Full
<1>2. ASSUME NEW a \in Arms, NEW c \in Caps, CannotStart(a, c) PROVE SlotInv'
  BY <1>2 DEF CannotStart, Exit, Owns, Passed, Full
<1>3. ASSUME NEW a \in Arms, Create(a) PROVE SlotInv'
  <2>1. i[a] \in Slots /\ i[a] <= cap[a] /\ holder[i[a]] = NoArm
    BY <1>3 DEF Create, Trying, Free, Slots
  <2>2. ASSUME NEW b \in Arms, Owns(b), b # a PROVE Owns(b)'
    BY <1>3, <2>1, <2>2 DEF Create, Owns, Slots
  <2>3. ASSUME NEW b \in Arms, Passed(b), b # a, i[b] \in 1 .. cap[b] + 1, cap[b] \in 0 .. MaxCap PROVE Passed(b)'
    BY <1>3, <2>1, <2>3 DEF Create, Passed, Slots
  <2>4. Owns(a)'
    BY <1>3, <2>1 DEF Create, Owns, Slots
  <2>5. ASSUME NEW b \in Arms, Full(b), b # a, cap[b] \in 0 .. MaxCap PROVE Full(b)'
    BY <1>3, <2>1, <2>5 DEF Create, Full, Slots
  <2> QED BY <1>3, <2>1, <2>2, <2>3, <2>4, <2>5 DEF Create, Slots
<1>4. ASSUME NEW a \in Arms, TryNext(a) PROVE SlotInv'
  BY SMTT(30), <1>4 DEF TryNext, Trying, Free, Advance, Owns, Passed, Full, Slots
<1>5. ASSUME NEW a \in Arms, OpenFails(a) \/ WriteFails(a) \/ Crash(a) PROVE SlotInv'
  BY <1>5 DEF OpenFails, WriteFails, Crash, Exit, Owns, Passed, Full
<1>6. ASSUME NEW a \in Arms, Grant(a) PROVE SlotInv'
  BY <1>6 DEF Grant, Exit, Owns, Passed, Full
<1>7. ASSUME NEW a \in Arms, Refuse(a) PROVE SlotInv'
  BY <1>7 DEF Refuse, Exit, Trying, Owns, Passed, Full, Slots
<1>8. CASE UNCHANGED vars
  BY <1>8 DEF vars, Owns, Passed, Full
<1> QED BY <1>1, <1>2, <1>3, <1>4, <1>5, <1>6, <1>7, <1>8 DEF Next, Step

\* The types and the slot behind every grant hold in every reachable state.
THEOREM CapInvariant == LedgersSpec => []CapInv
<1>1. CapInv /\ [Next]_vars => CapInv'
  BY TypeStep, SlotStep DEF CapInv
<1>2. CapInv /\ [LedgersNext]_all => CapInv'
  BY <1>1, StepsApart
<1> QED BY CapInit, <1>2, PTL DEF LedgersSpec

\* The arms granted under a cap of at most c inject into the slots 1 .. c.
LEMMA CapGrants == CapInv => GrantsWithinCap
<1> SUFFICES ASSUME CapInv, NEW c \in 0 .. MaxCap PROVE Cardinality(Granted(c)) <= c
  BY DEF GrantsWithinCap
<1> DEFINE f == [a \in Granted(c) |-> i[a]]
<1>1. \A a \in Granted(c) : a \in Arms /\ i[a] \in 1 .. c /\ holder[i[a]] = a
  BY MaxCapAssumption DEF CapInv, SlotInv, Owns, Granted
<1>2. f \in Injection(Granted(c), 1 .. c)
  BY <1>1 DEF Injection, IsInjective
<1>3. IsFiniteSet(1 .. c) /\ Cardinality(1 .. c) = c
  BY MaxCapAssumption, FS_Interval
<1> QED BY <1>2, <1>3, FS_Injection

\* The cap of or_dispatch_cap.py is hard: at most c arms told a cap of at most
\* c are granted, for every set of arms, every caps and every interleaving.
THEOREM CapIsHard == LedgersSpec => []GrantsWithinCap
BY CapInvariant, CapGrants, PTL

\* A cap hit is never a lost race: the refused arm found every slot of its
\* own cap held by others, and slots are never given back.
THEOREM RefusalIsFact == LedgersSpec => []RefusedMeansFull
<1>1. CapInv => RefusedMeansFull
  BY DEF CapInv, SlotInv, Full, RefusedMeansFull
<1> QED BY CapInvariant, <1>1, PTL

-----------------------------------------------------------------------------
(* The legs of a day.                                                      *)

\* Rows are not lost: a day's claims are rows, but for a row that is glued to what a
\* cut append left, and for the one that stands where the header should be.
Hidden == IF headed \/ file = <<>> THEN 0 ELSE 1
Debt == cuts + Hidden
Loose == IF Legs!Glued THEN 1 ELSE 0
Recorded(d) == legs[d] + Loose <= Cardinality(Legs!Counted(d)) + Debt

\* The claims that have been let through on a day are paid for already.
Appending(d) == {c \in Claims : legPc[c] = "appending" /\ day[c] = d}
Allowed(d) == legs[d] + Cardinality(Appending(d)) <= Cap + Legs!Extra

LegInv ==
  /\ Legs!TypeOK
  /\ headed => file # <<>>
  /\ Cardinality(Legs!Running) <= peak
  /\ \A c \in Legs!Running : day[c] \in 1 .. MaxDay
  /\ \A d \in 1 .. MaxDay : Recorded(d) /\ Allowed(d)

LEMMA FiniteLegs ==
  /\ IsFiniteSet(Legs!Running) /\ Legs!Running \subseteq Claims
  /\ \A d : IsFiniteSet(Appending(d)) /\ Appending(d) \subseteq Legs!Running
  /\ file \in Seq(Legs!Lines) => \A d : IsFiniteSet(Legs!Counted(d))
<1>1. Legs!Running \subseteq Claims /\ \A d : Appending(d) \subseteq Legs!Running
  BY DEF Legs!Running, Appending
<1>2. ASSUME file \in Seq(Legs!Lines) PROVE \A d : IsFiniteSet(Legs!Counted(d))
  <2>1. IsFiniteSet(2 .. Len(file))
    BY <1>2, FS_Interval
  <2> QED BY <2>1, FS_Subset DEF Legs!Counted
<1> QED BY <1>1, <1>2, LegAssumption, FS_Subset

\* append_row() adds a row, unless it is glued.
LEMMA AppendCounts ==
  ASSUME file \in Seq(Legs!Lines), NEW line \in Legs!Lines, file' = Legs!Appended(line), NEW d
  PROVE  /\ file' \in Seq(Legs!Lines) /\ file' # <<>>
         /\ (Legs!Glued' <=> line.open)
         /\ Legs!Glued \/ file = <<>> => Legs!Counted(d)' = Legs!Counted(d)
         /\ ~Legs!Glued /\ file # <<>> /\ line.day = d /\ line.is \in {"row", "long"} =>
              Legs!Counted(d)' = Legs!Counted(d) \cup {Len(file) + 1}
         /\ ~Legs!Glued /\ file # <<>> /\ ~(line.day = d /\ line.is \in {"row", "long"}) =>
              Legs!Counted(d)' = Legs!Counted(d)
         /\ Len(file) + 1 \notin Legs!Counted(d)
<1>1. Len(file) + 1 \notin Legs!Counted(d)
  BY DEF Legs!Counted
<1>2. CASE Legs!Glued
  <2>1. file # <<>> /\ Len(file) \in DOMAIN file /\ Len(file) \in Nat \ {0}
    BY <1>2 DEF Legs!Glued
  <2>2. file' = [file EXCEPT ![Len(file)].open = line.open]
    BY <1>2 DEF Legs!Appended
  <2> DEFINE last == file[Len(file)]
             left == [last EXCEPT !.open = line.open]
  <2>8. left \in Legs!Lines /\ left.day = last.day /\ left.is = last.is /\ left.open = line.open
    <3>1. last \in Legs!Lines
      BY <2>1
    <3> QED BY <3>1 DEF Legs!Lines
  <2>9. file' = [file EXCEPT ![Len(file)] = left]
    BY <2>2
  <2> HIDE DEF left
  <2>3. file' \in Seq(Legs!Lines) /\ Len(file') = Len(file)
    BY <2>1, <2>8, <2>9
  <2>4. \A k \in 1 .. Len(file) : file'[k].day = file[k].day /\ file'[k].is = file[k].is
    BY <2>1, <2>8, <2>9
  <2>5. file'[Len(file)].open = line.open /\ file' # <<>>
    BY <2>1, <2>8, <2>9, <2>3
  <2>6. (Legs!Glued' <=> line.open)
    BY <2>3, <2>5 DEF Legs!Glued
  <2>7. Legs!Counted(d)' = Legs!Counted(d)
    BY <2>3, <2>4, <2>1 DEF Legs!Counted
  <2> QED BY <1>1, <1>2, <2>3, <2>5, <2>6, <2>7
<1>3. CASE ~Legs!Glued
  <2>1. file' = Append(file, line)
    BY <1>3 DEF Legs!Appended
  <2>2. file' \in Seq(Legs!Lines) /\ Len(file') = Len(file) + 1 /\ file' # <<>>
    BY <2>1
  <2>3. file'[Len(file) + 1] = line /\ \A k \in 1 .. Len(file) : file'[k] = file[k]
    BY <2>1
  <2>4. (Legs!Glued' <=> line.open)
    BY <2>2, <2>3 DEF Legs!Glued
  <2>5. Len(file) \in Nat /\ (file = <<>> <=> Len(file) = 0)
    OBVIOUS
  <2>6. \A k : k \in Legs!Counted(d)' <=>
          \/ k \in Legs!Counted(d)
          \/ file # <<>> /\ k = Len(file) + 1 /\ line.day = d /\ line.is \in {"row", "long"}
    <3>1. \A k : k \in Legs!Counted(d)' <=>
            k \in 2 .. Len(file) + 1 /\ file'[k].day = d /\ file'[k].is \in {"row", "long"}
      BY <2>2 DEF Legs!Counted
    <3> QED BY <2>3, <2>5, <3>1 DEF Legs!Counted
  <2>7. /\ file = <<>> \/ ~(line.day = d /\ line.is \in {"row", "long"}) =>
             Legs!Counted(d)' = Legs!Counted(d)
        /\ file # <<>> /\ line.day = d /\ line.is \in {"row", "long"} =>
             Legs!Counted(d)' = Legs!Counted(d) \cup {Len(file) + 1}
    BY <2>6
  <2> QED BY <1>1, <1>3, <2>2, <2>4, <2>7
<1> QED BY <1>2, <1>3

\* What a claim that counts the day has under it, and what it costs to let it go on.
LEMMA RunningHas ==
  ASSUME LegInv, NEW c \in Legs!Running
  PROVE  /\ day[c] \in 1 .. MaxDay /\ peak >= 1
         /\ \A d : Cardinality(Appending(d)) <= peak
<1>1. Cardinality(Legs!Running) <= peak /\ peak \in Nat
  BY DEF LegInv, Legs!TypeOK
<1>2. Cardinality(Legs!Running) \in Nat /\ Cardinality(Legs!Running) # 0
  BY FiniteLegs, FS_CardinalityType, FS_EmptySet
<1>3. \A d : Cardinality(Appending(d)) <= Cardinality(Legs!Running) /\ Cardinality(Appending(d)) \in Nat
  BY FiniteLegs, FS_Subset, FS_CardinalityType
<1> QED BY <1>1, <1>2, <1>3 DEF LegInv

LEMMA LegInit == LedgersInit => LegInv
<1> SUFFICES ASSUME LedgersInit PROVE LegInv
  OBVIOUS
<1> USE LegAssumption DEF LedgersInit, Legs!Init
<1>1. Legs!Running = {} /\ \A d : Appending(d) = {}
  BY DEF Legs!Running, Appending
<1>2. Cardinality({}) = 0
  BY FS_EmptySet
<1>3. Legs!Header \in Legs!Lines
  BY DEF Legs!Header, Legs!Lines
<1>4. file \in Seq(Legs!Lines) /\ (headed => file # <<>>)
  BY <1>3
<1>5. ~Legs!Glued
  BY DEF Legs!Glued, Legs!Header
<1>6. \A d : Cardinality(Legs!Counted(d)) \in Nat
  BY <1>4, FiniteLegs, FS_CardinalityType
<1>7. Legs!TypeOK
  <2>1. Cardinality(Claims) \in Nat
    BY FS_CardinalityType
  <2> QED BY <1>4, <2>1, CountsAlike DEF Legs!TypeOK
<1>8. ASSUME NEW d \in 1 .. MaxDay PROVE Recorded(d) /\ Allowed(d)
  <2>1. Loose = 0 /\ legs[d] = 0 /\ Debt >= 0 /\ Debt \in Nat /\ Legs!Extra \in Nat
    BY <1>5 DEF Loose, Debt, Hidden, Legs!Extra
  <2>2. Cardinality(Legs!Counted(d)) \in Nat /\ Cardinality(Appending(d)) = 0
    BY <1>1, <1>2, <1>6
  <2> QED BY <2>1, <2>2 DEF Recorded, Allowed
<1> QED BY <1>1, <1>2, <1>4, <1>7, <1>8 DEF LegInv

\* The ledger and the day's count stand still while a claim counts or is let through.
LEMMA LegFileStands ==
  ASSUME UNCHANGED <<file, headed, cuts>>
  PROVE  Debt' = Debt /\ Loose' = Loose /\ \A d : Legs!Counted(d)' = Legs!Counted(d)
BY DEF Debt, Hidden, Loose, Legs!Glued, Legs!Counted

LEMMA ClaimStep ==
  ASSUME LegInv, NEW c \in Claims, Legs!Claim(c)
  PROVE  LegInv'
<1> USE LegAssumption DEF LegInv, Legs!TypeOK, Legs!Claim
<1>1. Legs!Running' = Legs!Running \cup {c} /\ c \notin Legs!Running
  BY DEF Legs!Running
<1>2. \A d : Appending(d)' = Appending(d)
  BY DEF Appending
<1>3. /\ Cardinality(Legs!Running \cup {c}) = Cardinality(Legs!Running) + 1
      /\ Cardinality(Legs!Running) \in Nat
  BY <1>1, FiniteLegs, OneMoreOrLess
<1>4. peak' = IF peak > Cardinality(Legs!Running) THEN peak ELSE peak + 1
  BY CountsAlike
<1>5. Cardinality(Legs!Running \cup {c}) <= Cardinality(Claims) /\ Cardinality(Claims) \in Nat
  BY FiniteLegs, FS_Subset, FS_CardinalityType
<1>6. Cardinality(Legs!Running)' <= peak' /\ peak <= peak' /\ peak' \in 0 .. Cardinality(Claims)
  BY <1>1, <1>3, <1>4, <1>5, CountsAlike
<1>7. Legs!TypeOK'
  BY <1>6, CountsAlike
<1>8. \A b \in Legs!Running' : day'[b] \in 1 .. MaxDay
  BY <1>1 DEF Legs!Running
<1>9. ASSUME NEW d \in 1 .. MaxDay PROVE Recorded(d)' /\ Allowed(d)'
  <2>1. Recorded(d)'
    BY LegFileStands DEF Recorded
  <2>2. Legs!Extra <= Legs!Extra' /\ Legs!Extra \in Nat /\ Legs!Extra' \in Nat
    BY <1>6, CountsAlike DEF Legs!Extra
  <2>3. legs[d] \in Nat /\ legs'[d] = legs[d] /\ Cardinality(Appending(d)) \in Nat
    BY FiniteLegs, FS_Subset, FS_CardinalityType
  <2> HIDE DEF Legs!Claim
  <2>4. Allowed(d)'
    BY <1>2, <2>2, <2>3 DEF Allowed
  <2> QED BY <2>1, <2>4
<1> QED BY <1>6, <1>7, <1>8, <1>9

LEMMA CountStep ==
  ASSUME LegInv, NEW c \in Claims, Legs!Count(c)
  PROVE  LegInv'
<1> USE LegAssumption DEF LegInv, Legs!TypeOK, Legs!Count
<1> DEFINE d0 == day[c]
<1>1. c \in Legs!Running /\ Legs!Running' \subseteq Legs!Running
  BY DEF Legs!Running
<1>2. Cardinality(Legs!Running') <= Cardinality(Legs!Running) /\ Cardinality(Legs!Running) \in Nat
      /\ Cardinality(Legs!Running') \in Nat
  BY <1>1, FiniteLegs, FS_Subset, FS_CardinalityType
<1>3. Legs!TypeOK'
  OBVIOUS
<1>4. ASSUME NEW d \in 1 .. MaxDay PROVE Recorded(d)'
  BY LegFileStands DEF Recorded
<1>5. ASSUME NEW d \in 1 .. MaxDay PROVE Allowed(d)'
  <2>1. Legs!Extra' = Legs!Extra /\ legs'[d] = legs[d]
    BY DEF Legs!Extra
  <2>2. CASE legPc'[c] = "refused" \/ d # day[c]
    <3>1. Appending(d)' = Appending(d)
      BY <2>2 DEF Appending
    <3> QED BY <2>1, <3>1 DEF Allowed
  <2>3. CASE legPc'[c] = "appending" /\ d = day[c]
    <3>1. ~(Cardinality(Legs!Counted(d)) >= Cap)
      BY <2>3, CountsAlike DEF Legs!AtCap
    <3>2. legs[d] <= Cardinality(Legs!Counted(d)) + Debt /\ Cardinality(Legs!Counted(d)) \in Nat
      <4>1. Recorded(d) /\ legs[d] \in Nat /\ cuts \in Nat
        OBVIOUS
      <4>2. Loose \in Nat /\ Debt \in Nat
        BY <4>1 DEF Loose, Debt, Hidden
      <4>3. Cardinality(Legs!Counted(d)) \in Nat
        BY FiniteLegs, FS_CardinalityType
      <4> HIDE DEF LegInv, Legs!TypeOK, Legs!Count
      <4> QED BY <4>1, <4>2, <4>3 DEF Recorded
    <3>3. Appending(d)' \subseteq Legs!Running
      BY <1>1, <2>3 DEF Appending, Legs!Running
    <3>4. Cardinality(Appending(d)') <= Cardinality(Legs!Running) /\ Cardinality(Appending(d)') \in Nat
      BY <3>3, FiniteLegs, FS_Subset, FS_CardinalityType
    <3>5. peak >= 1 /\ Cardinality(Legs!Running) <= peak /\ peak \in Nat
      BY <1>1, RunningHas, CountsAlike
    <3>6. Legs!Extra >= Debt + peak - 1 /\ Debt \in Nat /\ Legs!Extra \in Nat
      BY <3>5 DEF Legs!Extra, Debt, Hidden
    <3>7. legs[d] \in Nat
      OBVIOUS
    <3> HIDE DEF LegInv, Legs!TypeOK, Legs!Count
    <3>8. legs[d] + Cardinality(Appending(d)') <= Cap + Legs!Extra
      BY <1>2, <3>1, <3>2, <3>4, <3>5, <3>6, <3>7
    <3> QED BY <2>1, <3>8 DEF Allowed
  <2> QED BY <2>2, <2>3
<1>6. \A b \in Legs!Running' : day'[b] \in 1 .. MaxDay
  BY <1>1
<1>7. Cardinality(Legs!Running') <= peak'
  <2> HIDE DEF Legs!TypeOK
  <2>1. peak' = peak /\ peak \in Int
    BY CountsAlike DEF Legs!TypeOK
  <2> QED BY <1>2, <2>1
<1> QED BY <1>3, <1>4, <1>5, <1>6, <1>7

\* A line that is appended is counted, unless it is glued or hidden by the header's
\* place; and what is glued is not loose any more.
LEMMA AppendPays ==
  ASSUME LegInv, NEW line \in Legs!Lines, file' = Legs!Appended(line), headed' = headed, NEW d
  PROVE  /\ file' \in Seq(Legs!Lines) /\ file' # <<>>
         /\ Loose \in {0, 1} /\ Loose' \in {0, 1} /\ Hidden \in {0, 1} /\ Hidden' \in {0, 1}
         /\ Hidden <= Hidden' /\ (~line.open => Loose' = 0)
         /\ Cardinality(Legs!Counted(d)) \in Nat /\ Cardinality(Legs!Counted(d)') \in Nat
         /\ Cardinality(Legs!Counted(d)) <= Cardinality(Legs!Counted(d)')
         /\ line.day = d /\ line.is \in {"row", "long"} =>
              Cardinality(Legs!Counted(d)) + Hidden + 1
                <= Cardinality(Legs!Counted(d)') + Hidden' + Loose
<1>1. file \in Seq(Legs!Lines) /\ (headed => file # <<>>)
  BY DEF LegInv, Legs!TypeOK
<1>2. IsFiniteSet(Legs!Counted(d))
  BY <1>1, FiniteLegs
<1>3. /\ Cardinality(Legs!Counted(d)) \in Nat
      /\ Cardinality(Legs!Counted(d) \cup {Len(file) + 1}) = Cardinality(Legs!Counted(d)) + 1
  BY <1>1, <1>2, AppendCounts, OneMoreOrLess
<1>4. /\ Loose \in {0, 1} /\ Loose' \in {0, 1} /\ Hidden \in {0, 1} /\ Hidden' \in {0, 1}
      /\ Hidden <= Hidden' /\ (~line.open => Loose' = 0)
      /\ Legs!Glued => Loose = 1
      /\ file = <<>> => Hidden = 0 /\ Hidden' = 1
  BY <1>1, AppendCounts DEF Loose, Hidden
<1>5. CASE Legs!Glued \/ file = <<>>
  <2>1. Legs!Counted(d)' = Legs!Counted(d)
    BY <1>1, <1>5, AppendCounts
  <2> QED BY <1>1, <1>3, <1>4, <1>5, <2>1, AppendCounts
<1>6. CASE ~Legs!Glued /\ file # <<>> /\ line.day = d /\ line.is \in {"row", "long"}
  <2>1. Legs!Counted(d)' = Legs!Counted(d) \cup {Len(file) + 1}
    BY <1>1, <1>6, AppendCounts
  <2> QED BY <1>1, <1>3, <1>4, <2>1, AppendCounts
<1>7. CASE ~Legs!Glued /\ file # <<>> /\ ~(line.day = d /\ line.is \in {"row", "long"})
  <2>1. Legs!Counted(d)' = Legs!Counted(d)
    BY <1>1, <1>7, AppendCounts
  <2> QED BY <1>1, <1>3, <1>4, <1>7, <2>1, AppendCounts
<1> QED BY <1>5, <1>6, <1>7

\* A claim that appends is one of its day, and no more when it is told.
LEMMA EndsAppending ==
  ASSUME LegInv, NEW c \in Claims, legPc[c] = "appending", day' = day,
         NEW p \in {"claimed", "failed"}, legPc' = [legPc EXCEPT ![c] = p]
  PROVE  /\ c \in Legs!Running /\ Legs!Running' \subseteq Legs!Running
         /\ Cardinality(Legs!Running') <= Cardinality(Legs!Running)
         /\ Cardinality(Legs!Running) \in Nat /\ Cardinality(Legs!Running') \in Nat
         /\ \A d : /\ Cardinality(Appending(d)) \in Nat /\ Cardinality(Appending(d)') \in Nat
                   /\ Cardinality(Appending(d)') <= Cardinality(Appending(d))
                   /\ d = day[c] => Cardinality(Appending(d)') = Cardinality(Appending(d)) - 1
<1>1. legPc \in [Claims -> {"start", "counting", "appending", "claimed", "refused", "failed"}]
  BY DEF LegInv, Legs!TypeOK
<1>2. c \in Legs!Running /\ Legs!Running' \subseteq Legs!Running
  BY <1>1 DEF Legs!Running
<1>3. \A d : Appending(d)' = Appending(d) \ {c}
  BY <1>1 DEF Appending
<1>4. \A d : d = day[c] => c \in Appending(d)
  BY DEF Appending
<1>5. \A d : /\ IsFiniteSet(Appending(d)) /\ Cardinality(Appending(d)) \in Nat
             /\ Cardinality(Appending(d) \ {c}) \in Nat
             /\ c \in Appending(d) => Cardinality(Appending(d) \ {c}) = Cardinality(Appending(d)) - 1
             /\ c \notin Appending(d) => Appending(d) \ {c} = Appending(d)
  BY FiniteLegs, OneMoreOrLess
<1>6. /\ Cardinality(Legs!Running') <= Cardinality(Legs!Running)
      /\ Cardinality(Legs!Running) \in Nat /\ Cardinality(Legs!Running') \in Nat
  BY <1>2, FiniteLegs, FS_Subset, FS_CardinalityType
<1>7. \A d : /\ Cardinality(Appending(d)') \in Nat /\ Cardinality(Appending(d)) \in Nat
             /\ Cardinality(Appending(d)') <= Cardinality(Appending(d))
  BY <1>3, <1>5
<1> QED BY <1>2, <1>3, <1>4, <1>5, <1>6, <1>7

LEMMA WriteStep ==
  ASSUME LegInv, NEW c \in Claims, Legs!Write(c)
  PROVE  LegInv'
<1> DEFINE line == Legs!Row(day[c])
<1>1. c \in Legs!Running /\ day[c] \in 1 .. MaxDay
  BY DEF LegInv, Legs!Running, Legs!Write
<1>2. line \in Legs!Lines /\ line.day = day[c] /\ line.is = "row" /\ ~line.open
  BY <1>1, LegAssumption DEF Legs!Row, Legs!Lines
<1>3. file' = Legs!Appended(line) /\ headed' = headed
  BY DEF Legs!Write
<1> HIDE DEF line
<1>4. legs' = [legs EXCEPT ![day[c]] = legs[day[c]] + 1] /\ legs \in [1 .. MaxDay -> Nat]
      /\ legs' \in [1 .. MaxDay -> Nat]
  BY <1>1 DEF Legs!Write, LegInv, Legs!TypeOK
<1>5. /\ cuts' = cuts /\ cuts \in Nat /\ peak \in Nat /\ peak' = peak
      /\ Legs!Extra' = Legs!Extra /\ Legs!Extra \in Nat
  BY LegAssumption DEF Legs!Write, LegInv, Legs!TypeOK, Legs!Extra
<1>6. Legs!TypeOK'
  BY <1>2, <1>3, <1>4, AppendPays, CountsAlike DEF LegInv, Legs!TypeOK, Legs!Write
<1>7. ASSUME NEW d \in 1 .. MaxDay PROVE Recorded(d)'
  <2>1. legs[d] + Loose <= Cardinality(Legs!Counted(d)) + (cuts + Hidden) /\ legs[d] \in Nat
    BY <1>4 DEF LegInv, Recorded, Debt
  <2>2. legs'[d] = IF d = day[c] THEN legs[d] + 1 ELSE legs[d]
    BY <1>1, <1>4
  <2>3. legs'[d] + Loose' <= Cardinality(Legs!Counted(d)') + (cuts + Hidden')
    <3>1. /\ Loose \in {0, 1} /\ Loose' = 0 /\ Hidden \in {0, 1} /\ Hidden' \in {0, 1}
          /\ Hidden <= Hidden'
          /\ Cardinality(Legs!Counted(d)) \in Nat /\ Cardinality(Legs!Counted(d)') \in Nat
          /\ Cardinality(Legs!Counted(d)) <= Cardinality(Legs!Counted(d)')
      BY <1>2, <1>3, AppendPays
    <3>2. d = day[c] => Cardinality(Legs!Counted(d)) + Hidden + 1
                          <= Cardinality(Legs!Counted(d)') + Hidden' + Loose
      BY <1>2, <1>3, AppendPays
    <3> QED BY <1>5, <2>1, <2>2, <3>1, <3>2
  <2> QED BY <1>5, <2>3 DEF Recorded, Debt
<1>8. \A d : /\ Cardinality(Appending(d)) \in Nat /\ Cardinality(Appending(d)') \in Nat
             /\ Cardinality(Appending(d)') <= Cardinality(Appending(d))
             /\ d = day[c] => Cardinality(Appending(d)') = Cardinality(Appending(d)) - 1
  BY EndsAppending DEF Legs!Write
<1>9. ASSUME NEW d \in 1 .. MaxDay PROVE Allowed(d)'
  <2>1. legs[d] + Cardinality(Appending(d)) <= Cap + Legs!Extra /\ legs[d] \in Nat
    BY <1>4 DEF LegInv, Allowed
  <2>2. legs'[d] = IF d = day[c] THEN legs[d] + 1 ELSE legs[d]
    BY <1>1, <1>4
  <2>3. legs'[d] + Cardinality(Appending(d)') <= Cap + Legs!Extra
    BY <1>5, <1>8, <2>1, <2>2, LegAssumption
  <2> QED BY <1>5, <2>3 DEF Allowed
<1>10. /\ Legs!Running' \subseteq Legs!Running
       /\ Cardinality(Legs!Running') <= Cardinality(Legs!Running)
       /\ Cardinality(Legs!Running) \in Nat /\ Cardinality(Legs!Running') \in Nat
  BY EndsAppending DEF Legs!Write
<1>11. \A b \in Legs!Running' : day'[b] \in 1 .. MaxDay
  BY <1>10 DEF LegInv, Legs!Write
<1>12. Cardinality(Legs!Running') <= peak'
  <2>1. Cardinality(Legs!Running) <= peak
    BY DEF LegInv
  <2> QED BY <1>5, <1>10, <2>1
<1> QED BY <1>2, <1>3, <1>6, <1>7, <1>9, <1>11, <1>12, AppendPays DEF LegInv

LEMMA WriteCutStep ==
  ASSUME LegInv, NEW c \in Claims, NEW part \in {"short", "long"}, Legs!WriteCut(c, part)
  PROVE  LegInv'
<1> DEFINE line == [day |-> day[c], is |-> part, open |-> TRUE]
<1>1. c \in Legs!Running /\ day[c] \in 1 .. MaxDay
  BY DEF LegInv, Legs!Running, Legs!WriteCut
<1>2. line \in Legs!Lines
  BY <1>1, LegAssumption DEF Legs!Lines
<1>3. file' = Legs!Appended(line) /\ headed' = headed
  BY DEF Legs!WriteCut
<1> HIDE DEF line
<1>4. legs' = legs /\ legs \in [1 .. MaxDay -> Nat]
  BY DEF Legs!WriteCut, LegInv, Legs!TypeOK
<1>5. /\ cuts' = cuts + 1 /\ cuts \in Nat /\ cuts' \in 0 .. MaxCuts /\ peak \in Nat /\ peak' = peak
      /\ Legs!Extra' = Legs!Extra + 1 /\ Legs!Extra \in Nat
  BY LegAssumption DEF Legs!WriteCut, LegInv, Legs!TypeOK, Legs!Extra
<1>6. Legs!TypeOK'
  BY <1>2, <1>3, <1>4, <1>5, AppendPays, CountsAlike DEF LegInv, Legs!TypeOK, Legs!WriteCut
<1>7. ASSUME NEW d \in 1 .. MaxDay PROVE Recorded(d)'
  <2>1. legs[d] + Loose <= Cardinality(Legs!Counted(d)) + (cuts + Hidden) /\ legs[d] \in Nat
    BY <1>4 DEF LegInv, Recorded, Debt
  <2>2. legs[d] + Loose' <= Cardinality(Legs!Counted(d)') + (cuts + 1 + Hidden')
    BY SMTT(30), <1>2, <1>3, <1>5, <2>1, AppendPays
  <2> QED BY <1>4, <1>5, <2>2 DEF Recorded, Debt
<1>8. \A d : /\ Cardinality(Appending(d)) \in Nat /\ Cardinality(Appending(d)') \in Nat
             /\ Cardinality(Appending(d)') <= Cardinality(Appending(d))
  BY EndsAppending DEF Legs!WriteCut
<1>9. ASSUME NEW d \in 1 .. MaxDay PROVE Allowed(d)'
  <2>1. legs[d] + Cardinality(Appending(d)) <= Cap + Legs!Extra /\ legs[d] \in Nat
    BY <1>4 DEF LegInv, Allowed
  <2>2. legs[d] + Cardinality(Appending(d)') <= Cap + (Legs!Extra + 1)
    BY <1>5, <1>8, <2>1, LegAssumption
  <2> QED BY <1>4, <1>5, <2>2 DEF Allowed
<1>10. /\ Legs!Running' \subseteq Legs!Running
       /\ Cardinality(Legs!Running') <= Cardinality(Legs!Running)
       /\ Cardinality(Legs!Running) \in Nat /\ Cardinality(Legs!Running') \in Nat
  BY EndsAppending DEF Legs!WriteCut
<1>11. \A b \in Legs!Running' : day'[b] \in 1 .. MaxDay
  BY <1>10 DEF LegInv, Legs!WriteCut
<1>12. Cardinality(Legs!Running') <= peak'
  <2>1. Cardinality(Legs!Running) <= peak
    BY DEF LegInv
  <2> QED BY <1>5, <1>10, <2>1
<1> QED BY <1>2, <1>3, <1>6, <1>7, <1>9, <1>11, <1>12, AppendPays DEF LegInv

\* Nothing of the ledger changes but today.
LEMMA NothingAppended ==
  ASSUME LegInv, UNCHANGED <<file, headed, legPc, day, cuts, legs, peak>>, today' \in 1 .. MaxDay
  PROVE  LegInv'
<1>1. Legs!TypeOK'
  BY CountsAlike DEF LegInv, Legs!TypeOK
<1>2. Legs!Running' = Legs!Running /\ \A d : Appending(d)' = Appending(d)
  BY DEF Legs!Running, Appending
<1>3. Legs!Extra' = Legs!Extra
  BY DEF Legs!Extra
<1>4. \A d \in 1 .. MaxDay : Recorded(d)' /\ Allowed(d)'
  BY <1>2, <1>3, LegFileStands DEF LegInv, Recorded, Allowed
<1> QED BY <1>1, <1>2, <1>4 DEF LegInv

THEOREM LegInvariant == LedgersSpec => []LegInv
<1>1. ASSUME LegInv, [Legs!Next]_legOnly PROVE LegInv'
  <2>1. CASE \E c \in Claims : Legs!Claim(c) \/ Legs!Count(c) \/ Legs!Write(c)
    BY <1>1, <2>1, ClaimStep, CountStep, WriteStep
  <2>2. CASE \E c \in Claims, part \in {"short", "long"} : Legs!WriteCut(c, part)
    BY <1>1, <2>2, WriteCutStep
  <2>3. CASE Legs!Midnight
    BY <1>1, <2>3, NothingAppended, LegAssumption DEF Legs!Midnight, LegInv, Legs!TypeOK
  <2>4. CASE UNCHANGED legOnly
    BY <1>1, <2>4, NothingAppended DEF legOnly, LegInv, Legs!TypeOK
  <2> QED BY <1>1, <2>1, <2>2, <2>3, <2>4 DEF Legs!Next
<1>2. LegInv /\ [LedgersNext]_all => LegInv'
  BY <1>1, StepsApart
<1> QED BY LegInit, <1>2, PTL DEF LedgersSpec

\* codex_leg_ledger.py: a UTC day takes at most CAP legs, and one more for each append
\* that was cut, for a missing header, and for each claim that ever ran beside another,
\* for any set of claims, cap and number of days.
THEOREM OverspendBound == LedgersSpec => []OverspendIsBounded
<1>1. LegInv => OverspendIsBounded
  <2> SUFFICES ASSUME LegInv, NEW d \in 1 .. MaxDay PROVE legs[d] <= Cap + Legs!Extra
    BY DEF OverspendIsBounded, Legs!OverspendIsBounded, LegInv
  <2>1. legs[d] + Cardinality(Appending(d)) <= Cap + Legs!Extra
    BY DEF LegInv, Allowed
  <2>2. Cardinality(Appending(d)) \in Nat /\ legs[d] \in Nat /\ Legs!Extra \in Nat
    BY FiniteLegs, FS_CardinalityType, LegAssumption DEF LegInv, Legs!TypeOK, Legs!Extra
  <2> QED BY <2>1, <2>2, LegAssumption
<1> QED BY LegInvariant, <1>1, PTL

-----------------------------------------------------------------------------
(* The taps on watchers.                                                   *)

\* A log has no token that its watcher did not write, and every token its watcher ever
\* wrote that did not go with a log that was taken away.
LogsAreWhole ==
  \A e \in Edges : \A t \in 1 .. MaxRound :
    /\ <<e, t>> \in reported \ taken => t \in obs[e]
    /\ t \in obs[e] => <<e, t>> \in reported

\* What is decided, and what is written down, as a race is one.
RacesAreReports ==
  /\ at.status = "closed" => at.key \in reported
  /\ \A k \in Taps!Keys : record[k] = "closed" => k \in reported

RoundInv ==
  /\ Taps!TypeOK
  /\ tapPc \in {"probing", "holding"} => round >= 1
  /\ tapPc = "resolving" => round < MaxRound
  /\ RacesAreReports

TapInv == LogsAreWhole /\ RoundInv

LEMMA TapInit == LedgersInit => TapInv
BY TapAssumption DEF LedgersInit, Taps!Init, TapInv, RoundInv, Taps!TypeOK, Taps!Keys, Taps!Nowhere,
     LogsAreWhole, RacesAreReports

\* What the round knows of a log is what its watcher wrote.
LEMMA LoggedIsReported ==
  ASSUME TapInv, NEW k \in Taps!Keys
  PROVE  /\ Taps!Logged(k) => k \in reported
         /\ k \in reported \ taken => Taps!Logged(k)
<1>1. PICK e \in Edges, t \in 1 .. MaxRound : k = <<e, t>>
  BY DEF Taps!Keys
<1> QED BY <1>1 DEF TapInv, LogsAreWhole, Taps!Logged

LEMMA WatcherStep ==
  ASSUME TapInv, NEW e \in Edges, Taps!Vanish(e) \/ \E t \in 1 .. MaxRound : Taps!Observe(e, t)
  PROVE  TapInv'
<1> USE DEF TapInv, RoundInv, Taps!TypeOK
<1>1. CASE Taps!Vanish(e)
  <2>1. Taps!TypeOK'
    BY <1>1 DEF Taps!Vanish, Taps!Keys
  <2>2. LogsAreWhole'
    BY <1>1 DEF Taps!Vanish, LogsAreWhole
  <2> QED BY <1>1, <2>1, <2>2 DEF Taps!Vanish, RacesAreReports
<1>2. ASSUME NEW t \in 1 .. MaxRound, Taps!Observe(e, t) PROVE TapInv'
  <2>1. <<e, t>> \in Taps!Keys
    BY DEF Taps!Keys
  <2>2. Taps!TypeOK'
    BY <1>2, <2>1 DEF Taps!Observe
  <2>3. LogsAreWhole'
    BY <1>2 DEF Taps!Observe, LogsAreWhole
  <2>4. RacesAreReports'
    BY <1>2 DEF Taps!Observe, RacesAreReports
  <2> QED BY <1>2, <2>2, <2>3, <2>4 DEF Taps!Observe
<1> QED BY <1>1, <1>2

\* The steps of a round leave the logs alone.
LEMMA RoundStep ==
  ASSUME TapInv, Taps!Turn \/ Taps!Die
  PROVE  TapInv'
<1>1. UNCHANGED <<obs, log, reported, taken>>
  BY DEF Taps!history, Taps!Turn, Taps!Die, Taps!Begin, Taps!Skip, Taps!Look, Taps!Truncate, Taps!Rewrite,
    Taps!Deliver, Taps!Hold, Taps!Held, Taps!EndRound
<1>2. LogsAreWhole'
  BY <1>1 DEF TapInv, LogsAreWhole
<1>3. RoundInv'
  <2> USE TapAssumption DEF TapInv, RoundInv, Taps!TypeOK, RacesAreReports, Taps!history
  <2>1. CASE Taps!Begin \/ Taps!EndRound
    BY <2>1 DEF Taps!Begin, Taps!EndRound
  <2>2. ASSUME NEW k \in Taps!Keys, Taps!Skip(k) PROVE RoundInv'
    BY <2>2 DEF Taps!Skip
  <2>3. ASSUME NEW k \in Taps!Keys, Taps!Look(k) PROVE RoundInv'
    <3>1. Taps!Logged(k) => k \in reported
      BY LoggedIsReported
    <3> QED BY <2>3, <3>1 DEF Taps!Look
  <2>4. CASE Taps!Truncate \/ Taps!Rewrite
    BY <2>4 DEF Taps!Truncate, Taps!Rewrite, Taps!Nowhere
  <2>5. CASE Taps!Deliver
    BY <2>5 DEF Taps!Deliver
  <2>6. ASSUME NEW e \in Edges, Taps!Hold(e) PROVE RoundInv'
    BY <2>6 DEF Taps!Hold, Taps!Keys
  <2>7. CASE Taps!Held
    BY <2>7 DEF Taps!Held, Taps!Nowhere
  <2>8. CASE Taps!Die
    BY <2>8 DEF Taps!Die, Taps!Nowhere
  <2> QED BY <2>1, <2>2, <2>3, <2>4, <2>5, <2>6, <2>7, <2>8 DEF Taps!Turn
<1> QED BY <1>2, <1>3 DEF TapInv

\* A tap is fired by resolve(), of a held record whose log is there and has no token.
LEMMA FiredIsSilent ==
  ASSUME TapInv, [Taps!Next]_tapOnly, NEW k \in Taps!Keys, k \in fire' \ fire
  PROVE  log[k[1]] = "there" /\ k \notin reported \ taken
<1>1. PICK x \in Taps!Keys : Taps!Look(x)
  BY DEF Taps!Next, tapOnly, Taps!Turn, Taps!Begin, Taps!Skip, Taps!Truncate, Taps!Rewrite,
    Taps!Deliver, Taps!Hold, Taps!Held, Taps!EndRound, Taps!Die, Taps!Vanish, Taps!Observe
<1>2. k = x /\ ~Taps!Logged(k) /\ Taps!CanTell(k[1])
  BY <1>1 DEF Taps!Look
<1> QED BY <1>2, LoggedIsReported DEF Taps!CanTell

LEMMA TapNext ==
  ASSUME TapInv, [Taps!Next]_tapOnly
  PROVE  TapInv'
<1>1. CASE UNCHANGED tapOnly
  BY <1>1 DEF tapOnly, TapInv, RoundInv, Taps!TypeOK, LogsAreWhole, RacesAreReports
<1> QED BY <1>1, WatcherStep, RoundStep DEF Taps!Next

\* The step above, for the specification.
THEOREM TapInvariant == LedgersSpec => []TapInv
<1>1. TapInv /\ [LedgersNext]_all => TapInv'
  BY TapNext, StepsApart
<1> QED BY TapInit, <1>1, PTL DEF LedgersSpec

\* tapledger.py: no tap is fired on a watcher while its log is gone, nor on one that wrote
\* the token, unless that went with a log that was taken away and begun again; and a record
\* is closed only if its own watcher did write it, for all edges, rounds and troubles.
THEOREM TapsAreEvidence == LedgersSpec => VerdictIsEvidence
<1>1. ASSUME TapInv, [LedgersNext]_all
      PROVE  [\A k \in Taps!Keys :
                /\ k \in fire' \ fire => log[k[1]] = "there" /\ k \notin reported \ taken
                /\ record'[k] = "closed" => k \in reported]_(Taps!vars)
  <2>1. [Taps!Next]_tapOnly
    BY <1>1, StepsApart
  <2>2. \A k \in Taps!Keys : k \in fire' \ fire => log[k[1]] = "there" /\ k \notin reported \ taken
    BY <1>1, <2>1, FiredIsSilent
  <2>3. ASSUME NEW k \in Taps!Keys, record'[k] = "closed", record' # record PROVE k \in reported
    <3>1. k \in reported'
      BY <1>1, <2>1, <2>3, TapNext DEF TapInv, RoundInv, RacesAreReports
    <3>2. reported' = reported
      BY <2>1, <2>3 DEF Taps!history, Taps!Next, tapOnly, Taps!Turn, Taps!Begin, Taps!Skip, Taps!Look,
        Taps!Truncate, Taps!Rewrite, Taps!Deliver, Taps!Hold, Taps!Held, Taps!EndRound, Taps!Die,
        Taps!Vanish, Taps!Observe
    <3> QED BY <3>1, <3>2
  <2>4. ASSUME NEW k \in Taps!Keys, record'[k] = "closed", record' = record PROVE k \in reported
    BY <1>1, <2>4 DEF TapInv, RoundInv, RacesAreReports
  <2> QED BY <2>2, <2>3, <2>4
<1> QED BY <1>1, TapInvariant, PTL DEF LedgersSpec, VerdictIsEvidence, Taps!VerdictIsEvidence

-----------------------------------------------------------------------------
(* Rotations.                                                              *)

Kept == {volume[k] : k \in 1 .. Archives}
Finished == IF volume[0] = Rotation!None THEN begun ELSE begun - 1
Window(f) == {v \in 1 .. f : v > f - Archives}

\* Of the volumes that should be kept, those that are not: now, and once this rotation
\* will have finished the newest one.
Lost == Window(Finished) \ Kept
LostAhead == (Window(begun) \ {begun}) \ Kept

\* The empty archives below one that is not; the one that was just emptied to be filled
\* again is none of them.
Holes == {k \in 1 .. Archives :
            /\ k # next + 1 /\ volume[k] = Rotation!None
            /\ \E j \in k + 1 .. Archives : volume[j] # Rotation!None}
Spare == IF volume[next + 1] = Rotation!None THEN 0 ELSE 1

Ordered ==
  \A j, k \in 0 .. Archives :
    j < k /\ volume[j] # Rotation!None /\ volume[k] # Rotation!None => volume[j] > volume[k]

\* Of the live log: it is the volume begun last, and only a large one is rotated.
LiveLog ==
  /\ volume[0] # Rotation!None => volume[0] = begun
  /\ \A k \in 0 .. Archives : volume[k] <= begun
  /\ large => volume[0] # Rotation!None
  /\ next # Rotation!Idle => large

\* What trouble has cost; while the archives move up, the one that is in the way of
\* the next is as good as lost.
Costs ==
  /\ Cardinality(Holes) <= trouble
  /\ next >= Archives => Cardinality(Lost) <= trouble
  /\ next < Archives => Cardinality(LostAhead) + Spare <= trouble

RotateInv == Rotation!TypeOK /\ Ordered /\ LiveLog /\ Costs

LEMMA FiniteRotation ==
  ASSUME Rotation!TypeOK
  PROVE  /\ IsFiniteSet(Holes) /\ IsFiniteSet(Lost) /\ IsFiniteSet(LostAhead)
         /\ Cardinality(Holes) \in Nat /\ Cardinality(Lost) \in Nat /\ Cardinality(LostAhead) \in Nat
<1>1. begun \in Nat /\ Finished \in Int /\ Archives \in Nat
  BY RotateAssumption DEF Rotation!TypeOK, Finished
<1>2. IsFiniteSet(1 .. Archives) /\ IsFiniteSet(1 .. begun) /\ IsFiniteSet(1 .. Finished)
  BY <1>1, FS_Interval
<1>3. Holes \subseteq 1 .. Archives /\ Lost \subseteq 1 .. Finished /\ LostAhead \subseteq 1 .. begun
  BY DEF Holes, Lost, LostAhead, Window
<1> QED BY <1>2, <1>3, FS_Subset, FS_CardinalityType

\* A set that has grown by one element at most, and one in which an element took the
\* place of another.
LEMMA AtMostOneMore ==
  ASSUME NEW S, IsFiniteSet(S), NEW T, NEW x, T \subseteq S \cup {x}
  PROVE  IsFiniteSet(T) /\ Cardinality(T) \in Nat /\ Cardinality(T) <= Cardinality(S) + 1
<1>1. Cardinality(S) \in Nat
  BY FS_CardinalityType
<1>2. IsFiniteSet(S \cup {x})
  BY OneMoreOrLess
<1>3. Cardinality(S \cup {x}) = Cardinality(S) \/ Cardinality(S \cup {x}) = Cardinality(S) + 1
  <2>1. CASE x \in S
    <3>1. S \cup {x} = S
      BY <2>1
    <3> QED BY <3>1
  <2>2. CASE x \notin S
    BY <2>2, OneMoreOrLess
  <2> QED BY <2>1, <2>2
<1>4. IsFiniteSet(T) /\ Cardinality(T) <= Cardinality(S \cup {x})
  BY <1>2, FS_Subset
<1>5. Cardinality(T) \in Nat
  BY <1>4, FS_CardinalityType
<1> QED BY <1>1, <1>3, <1>4, <1>5

LEMMA OneForAnother ==
  ASSUME NEW S, IsFiniteSet(S), NEW T, NEW x \in S, NEW y, T \subseteq (S \ {x}) \cup {y}
  PROVE  IsFiniteSet(T) /\ Cardinality(T) \in Nat /\ Cardinality(T) <= Cardinality(S)
<1>1. IsFiniteSet(S \ {x}) /\ Cardinality(S \ {x}) = Cardinality(S) - 1 /\ Cardinality(S) \in Nat
  BY OneMoreOrLess
<1>2. IsFiniteSet(T) /\ Cardinality(T) \in Nat /\ Cardinality(T) <= Cardinality(S \ {x}) + 1
  BY <1>1, AtMostOneMore
<1> QED BY <1>1, <1>2

LEMMA RotateInit == LedgersInit => RotateInv
<1> SUFFICES ASSUME LedgersInit PROVE RotateInv
  OBVIOUS
<1> USE RotateAssumption DEF Rotation!None, Rotation!Files, Rotation!Idle
<1>0. /\ volume = [k \in 0 .. Archives |-> 0] /\ large = FALSE /\ begun = 0
      /\ next = Archives + 1 /\ trouble = 0
  BY DEF LedgersInit, Rotation!Init
<1>1. Rotation!TypeOK
  <2>1. /\ 0 \in 0 .. MaxVolumes /\ 0 \in 0 .. MaxTrouble /\ Archives + 1 \in 0 .. Archives + 1
        /\ [k \in 0 .. Archives |-> 0] \in [0 .. Archives -> 0 .. MaxVolumes]
    OBVIOUS
  <2> QED BY <1>0, <2>1 DEF Rotation!TypeOK
<1>2. Ordered /\ LiveLog
  BY <1>0 DEF Ordered, LiveLog
<1>3. Holes = {} /\ Lost = {} /\ next = Archives + 1 /\ trouble = 0
  BY <1>0 DEF Holes, Lost, Window, Finished
<1>4. Cardinality({}) = 0
  BY FS_EmptySet
<1> QED BY <1>1, <1>2, <1>3, <1>4 DEF RotateInv, Costs

LEMMA GrowStep ==
  ASSUME RotateInv, Rotation!Grow
  PROVE  RotateInv'
<1> USE RotateAssumption DEF RotateInv, Rotation!TypeOK, Rotation!Files, Rotation!Idle, Rotation!None
<1>1. /\ next = Archives + 1 /\ next' = next /\ trouble' = trouble
      /\ volume' = [volume EXCEPT ![0] = begun'] /\ large' \in BOOLEAN
      /\ volume[0] = 0 => begun' = begun + 1 /\ begun < MaxVolumes
      /\ volume[0] # 0 => begun' = begun /\ volume[0] = begun
  BY DEF Rotation!Grow, LiveLog
<1>0. begun \in Nat /\ begun' \in 0 .. MaxVolumes /\ begun' # 0 /\ volume[0] \in Nat
  BY <1>1
<1>2. volume' \in [0 .. Archives -> 0 .. MaxVolumes] /\ volume'[0] = begun'
      /\ \A k \in 1 .. Archives : volume'[k] = volume[k]
  BY <1>0, <1>1
<1>3. Rotation!TypeOK'
  BY <1>0, <1>1, <1>2
<1>4. Ordered' /\ LiveLog'
  BY <1>0, <1>1, <1>2 DEF Ordered, LiveLog
<1>5. Holes' = Holes
  BY <1>1, <1>2 DEF Holes
<1>6. Lost' = Lost
  <2>1. Kept' = Kept
    BY <1>2 DEF Kept
  <2>2. Finished' = Finished
    <3> HIDE DEF Rotation!TypeOK, RotateInv
    <3>1. CASE volume[0] = 0
      BY <3>1, <1>0, <1>1, <1>2 DEF Finished
    <3>2. CASE volume[0] # 0
      BY <3>2, <1>0, <1>1, <1>2 DEF Finished
    <3> QED BY <3>1, <3>2
  <2> QED BY <2>1, <2>2 DEF Lost, Window
<1>7. Costs'
  BY <1>1, <1>5, <1>6 DEF Costs
<1> QED BY <1>3, <1>4, <1>7

\* While a log is rotated it is the volume begun last, and is there.
LEMMA LiveIsNewest ==
  ASSUME RotateInv, next # Rotation!Idle
  PROVE  /\ volume[0] = begun /\ begun \in 1 .. MaxVolumes /\ Finished = begun - 1
         /\ \A k \in 1 .. Archives : volume[k] \in 0 .. begun - 1
         /\ LostAhead \subseteq Lost /\ Lost \subseteq LostAhead \cup {begun - Archives}
<1> USE RotateAssumption DEF Rotation!Files, Rotation!Idle, Rotation!None
<1>1. volume \in [0 .. Archives -> 0 .. MaxVolumes] /\ begun \in 0 .. MaxVolumes
  BY DEF RotateInv, Rotation!TypeOK
<1>2. volume[0] = begun /\ volume[0] # 0
  BY DEF RotateInv, LiveLog
<1>3. Finished = begun - 1
  BY <1>2 DEF Finished
<1>4. \A k \in 1 .. Archives : volume[k] \in 0 .. begun - 1
  <2> SUFFICES ASSUME NEW k \in 1 .. Archives PROVE volume[k] \in 0 .. begun - 1
    OBVIOUS
  <2>1. volume[k] # 0 => volume[0] > volume[k]
    BY <1>2 DEF RotateInv, Ordered
  <2> QED BY <1>1, <1>2, <2>1
<1>5. \A v : v \in Window(begun) \ {begun} <=> v \in 1 .. begun - 1 /\ v > begun - Archives
  BY <1>1 DEF Window
<1>6. \A v : v \in Window(Finished) <=> v \in 1 .. begun - 1 /\ v > begun - 1 - Archives
  BY <1>3 DEF Window
<1>7. LostAhead \subseteq Lost /\ Lost \subseteq LostAhead \cup {begun - Archives}
  BY SMTT(30), <1>1, <1>5, <1>6 DEF Lost, LostAhead
<1> QED BY <1>1, <1>2, <1>3, <1>4, <1>7

LEMMA BeginStep ==
  ASSUME RotateInv, Rotation!Rotate
  PROVE  RotateInv'
<1> USE RotateAssumption DEF Rotation!Rotate, Rotation!Idle
<1>1. Rotation!TypeOK' /\ Ordered'
  BY DEF RotateInv, Rotation!TypeOK, Ordered
<1>2. LiveLog'
  BY DEF RotateInv, LiveLog
<1>3. Holes' = Holes
  BY DEF Holes
<1>4. Lost' = Lost
  BY DEF Lost, Window, Finished, Kept
<1>5. Costs'
  BY <1>3, <1>4 DEF RotateInv, Costs
<1> QED BY <1>1, <1>2, <1>5 DEF RotateInv

\* A rotation that ends half way has cost one volume and left one hole at most.
LEMMA StopStep ==
  ASSUME RotateInv, next # Rotation!Idle, next' = Rotation!Idle, UNCHANGED <<volume, large, begun>>,
         trouble < MaxTrouble, trouble' = trouble + 1
  PROVE  RotateInv'
<1> USE RotateAssumption DEF Rotation!Idle
<1>0. trouble \in Nat /\ next \in 0 .. Archives + 1 /\ Rotation!TypeOK
  BY DEF RotateInv, Rotation!TypeOK
<1>1. Rotation!TypeOK' /\ Ordered'
  BY DEF RotateInv, Rotation!TypeOK, Ordered
<1>2. LiveLog'
  BY DEF RotateInv, LiveLog
<1>3. Cardinality(Holes') <= trouble'
  <2>1. Holes' \subseteq Holes \cup {next + 1}
    BY <1>0 DEF Holes
  <2>2. Cardinality(Holes') <= Cardinality(Holes) + 1 /\ Cardinality(Holes') \in Nat
    BY <1>0, <2>1, FiniteRotation, AtMostOneMore
  <2>3. Cardinality(Holes) <= trouble /\ Cardinality(Holes) \in Nat
    BY <1>0, FiniteRotation DEF RotateInv, Costs
  <2> QED BY <1>0, <2>2, <2>3
<1>4. Lost' = Lost
  BY DEF Lost, Window, Finished, Kept
<1>5. Cardinality(Lost) <= trouble'
  <2>1. Cardinality(Lost) <= Cardinality(LostAhead) + 1 /\ Cardinality(Lost) \in Nat
        /\ Cardinality(LostAhead) \in Nat
    BY <1>0, LiveIsNewest, FiniteRotation, AtMostOneMore
  <2>2. next >= Archives => Cardinality(Lost) <= trouble
    BY DEF RotateInv, Costs
  <2>3. next < Archives => Cardinality(LostAhead) + Spare <= trouble
    BY DEF RotateInv, Costs
  <2>4. Spare \in {0, 1}
    BY DEF Spare
  <2> QED BY <1>0, <2>1, <2>2, <2>3, <2>4
<1>6. Costs'
  BY <1>3, <1>4, <1>5 DEF Costs
<1> QED BY <1>1, <1>2, <1>6 DEF RotateInv

LEMMA FinishStep ==
  ASSUME RotateInv, Rotation!Finish
  PROVE  RotateInv'
<1> USE RotateAssumption DEF Rotation!Files, Rotation!Idle, Rotation!None
<1>0. /\ next = 0 /\ next' = Archives + 1 /\ begun' = begun /\ Archives \in Nat
      /\ volume \in [0 .. Archives -> 0 .. MaxVolumes] /\ begun \in 1 .. MaxVolumes
      /\ volume[0] = begun /\ \A k \in 1 .. Archives : volume[k] \in 0 .. begun - 1
      /\ Rotation!TypeOK /\ trouble \in 0 .. MaxTrouble
  BY LiveIsNewest DEF Rotation!Finish, RotateInv, Rotation!TypeOK
<1>1. CASE UNCHANGED <<volume, large>> /\ trouble < MaxTrouble /\ trouble' = trouble + 1
  BY <1>0, <1>1, StopStep
<1>2. CASE Archives = 0 /\ volume' = [volume EXCEPT ![0] = 0] /\ trouble' = trouble /\ large' = FALSE
  <2>1. Rotation!TypeOK' /\ Ordered' /\ LiveLog'
    <3>1. large' \in BOOLEAN /\ ~large'
      BY <1>2
    <3>2. volume' \in [0 .. Archives -> 0 .. MaxVolumes] /\ volume'[0] = 0
      BY <1>0, <1>2
    <3>3. Rotation!TypeOK'
      BY <1>0, <1>2, <3>1, <3>2 DEF Rotation!TypeOK
    <3>4. Ordered' /\ LiveLog'
      BY <1>0, <1>2, <3>1, <3>2 DEF Ordered, LiveLog
    <3> QED BY <3>3, <3>4
  <2>2. Holes' = {} /\ Lost' = {}
    BY <1>0, <1>2 DEF Holes, Lost, Window, Finished
  <2>3. Costs'
    BY <1>0, <1>2, <2>2, FS_EmptySet DEF Costs
  <2> QED BY <2>1, <2>3 DEF RotateInv
<1>3. CASE /\ Archives > 0 /\ trouble' = trouble /\ large' = FALSE
           /\ volume' = [volume EXCEPT ![1] = volume[0], ![0] = 0]
  <2>1. /\ volume' \in [0 .. Archives -> 0 .. MaxVolumes] /\ volume'[0] = 0 /\ volume'[1] = begun
        /\ \A k \in 2 .. Archives : volume'[k] = volume[k]
    BY <1>0, <1>3
  <2>2. Rotation!TypeOK'
    <3>1. large' \in BOOLEAN
      BY <1>3
    <3>2. trouble' \in 0 .. MaxTrouble /\ next' \in 0 .. Archives + 1 /\ begun' \in 0 .. MaxVolumes
      BY <1>0, <1>3
    <3> QED BY <2>1, <3>1, <3>2 DEF Rotation!TypeOK
  <2>3. Ordered' /\ LiveLog'
    BY SMTT(30), <1>0, <1>3, <2>1 DEF RotateInv, Ordered, LiveLog
  <2>4. Holes' \subseteq Holes
    BY <1>0, <2>1 DEF Holes
  <2>5. Cardinality(Holes') <= trouble'
    <3>1. Cardinality(Holes') <= Cardinality(Holes) /\ Cardinality(Holes') \in Nat /\ Cardinality(Holes) \in Nat
      BY <1>0, <2>4, FiniteRotation, FS_Subset, FS_CardinalityType
    <3> QED BY <1>0, <1>3, <3>1 DEF RotateInv, Costs
  <2>6. Lost' = Window(begun) \ Kept'
    BY <1>0, <2>1 DEF Lost, Finished, Window
  <2>7. begun \in Kept' /\ Kept \ {volume[1]} \subseteq Kept'
    <3>1. begun \in Kept'
      BY <1>0, <1>3, <2>1 DEF Kept
    <3>2. ASSUME NEW v \in Kept \ {volume[1]} PROVE v \in Kept'
      <4>1. PICK k \in 1 .. Archives : v = volume[k]
        BY DEF Kept
      <4>2. k \in 2 .. Archives /\ v = volume'[k]
        BY <1>0, <2>1, <4>1
      <4> QED BY <4>1, <4>2 DEF Kept
    <3> QED BY <3>1, <3>2
  <2>8. Lost' \subseteq LostAhead \cup {volume[1]}
    BY <2>6, <2>7 DEF LostAhead
  <2>9. 0 \notin Lost'
    BY <2>6 DEF Window
  <2>10. Cardinality(Lost') <= Cardinality(LostAhead) + Spare /\ Cardinality(Lost') \in Nat
    <3>1. CASE volume[1] = 0
      <4>1. Lost' \subseteq LostAhead /\ Spare = 0
        BY <1>0, <2>8, <2>9, <3>1 DEF Spare
      <4> QED BY <1>0, <4>1, FiniteRotation, FS_Subset, FS_CardinalityType
    <3>2. CASE volume[1] # 0
      <4>1. Spare = 1
        BY <1>0, <3>2 DEF Spare
      <4> QED BY <1>0, <2>8, <4>1, FiniteRotation, AtMostOneMore
    <3> QED BY <3>1, <3>2
  <2>11. Costs'
    <3>1. Cardinality(LostAhead) + Spare <= trouble /\ Cardinality(LostAhead) \in Nat /\ Spare \in {0, 1}
      BY <1>0, <1>3, FiniteRotation DEF RotateInv, Costs, Spare
    <3>2. Cardinality(Lost') <= trouble'
      BY <1>0, <1>3, <2>10, <3>1
    <3> QED BY <1>0, <2>5, <3>2 DEF Costs
  <2> QED BY <2>2, <2>3, <2>11 DEF RotateInv
<1>4. \/ large' = large /\ Rotation!Fails
      \/ /\ large' = FALSE
         /\ Rotation!Works(IF Archives = 0 THEN [volume EXCEPT ![0] = 0] ELSE Rotation!Moved(0, 1))
  BY DEF Rotation!Finish
<1>5. Rotation!Moved(0, 1) = [volume EXCEPT ![1] = volume[0], ![0] = 0]
  BY <1>0 DEF Rotation!Moved
<1>6. CASE large' = large /\ Rotation!Fails
  BY <1>0, <1>1, <1>6 DEF Rotation!Fails
<1>7. CASE /\ large' = FALSE
           /\ Rotation!Works(IF Archives = 0 THEN [volume EXCEPT ![0] = 0] ELSE Rotation!Moved(0, 1))
  <2>1. CASE Archives = 0
    BY <1>2, <1>7, <2>1 DEF Rotation!Works
  <2>2. CASE Archives > 0
    <3>1. Archives # 0
      BY <2>2
    <3>2. Rotation!Works(Rotation!Moved(0, 1)) /\ large' = FALSE
      BY <1>7, <3>1
    <3>3. volume' = [volume EXCEPT ![1] = volume[0], ![0] = 0] /\ trouble' = trouble
      BY <1>5, <3>2 DEF Rotation!Works
    <3> QED BY <1>3, <2>2, <3>2, <3>3
  <2> QED BY <2>1, <2>2
<1> QED BY <1>4, <1>6, <1>7

LEMMA FailedMoveStep ==
  ASSUME RotateInv, next \in 1 .. Archives, next' = next - 1, volume[next] # Rotation!None,
         UNCHANGED <<volume, large, begun>>, trouble < MaxTrouble, trouble' = trouble + 1
  PROVE  RotateInv'
<1> USE RotateAssumption DEF Rotation!Files, Rotation!Idle, Rotation!None
<1>0. trouble \in Nat /\ Archives \in Nat /\ Rotation!TypeOK
  BY DEF RotateInv, Rotation!TypeOK
<1>1. Rotation!TypeOK' /\ Ordered' /\ LiveLog'
  BY DEF RotateInv, Rotation!TypeOK, Ordered, LiveLog
<1>2. Holes' \subseteq Holes \cup {next + 1} /\ LostAhead' = LostAhead /\ Spare' = 1
  BY DEF Holes, LostAhead, Window, Kept, Spare
<1>3. Cardinality(Holes') <= Cardinality(Holes) + 1 /\ Cardinality(Holes') \in Nat
  BY <1>0, <1>2, FiniteRotation, AtMostOneMore
<1>4. /\ Cardinality(Holes) <= trouble /\ Cardinality(Holes) \in Nat
      /\ Cardinality(LostAhead) <= trouble /\ Cardinality(LostAhead) \in Nat
  <2>1. CASE next = Archives
    <3>1. Cardinality(LostAhead) <= Cardinality(Lost) /\ Cardinality(Lost) <= trouble
      BY <1>0, <2>1, LiveIsNewest, FiniteRotation, FS_Subset DEF RotateInv, Costs
    <3> QED BY <1>0, <3>1, FiniteRotation DEF RotateInv, Costs
  <2>2. CASE next < Archives
    <3>1. Cardinality(LostAhead) + Spare <= trouble /\ Spare \in {0, 1}
      BY <2>2 DEF RotateInv, Costs, Spare
    <3> QED BY <1>0, <3>1, FiniteRotation DEF RotateInv, Costs
  <2> QED BY <2>1, <2>2
<1>5. Costs'
  BY <1>0, <1>2, <1>3, <1>4 DEF Costs
<1> QED BY <1>1, <1>5 DEF RotateInv

\* Nothing to move: the hole moves down.
LEMMA NoMoveStep ==
  ASSUME RotateInv, next \in 1 .. Archives, next < Archives, next' = next - 1,
         volume[next] = Rotation!None, UNCHANGED <<volume, large, begun, trouble>>
  PROVE  RotateInv'
<1> USE RotateAssumption DEF Rotation!Files, Rotation!Idle, Rotation!None
<1>0. trouble \in Nat /\ Archives \in Nat /\ Rotation!TypeOK
  BY DEF RotateInv, Rotation!TypeOK
<1>1. Rotation!TypeOK' /\ Ordered' /\ LiveLog'
  BY DEF RotateInv, Rotation!TypeOK, Ordered, LiveLog
<1>2. LostAhead' = LostAhead /\ Spare' = 0
  BY DEF LostAhead, Window, Kept, Spare
<1>3. Cardinality(Holes') <= Cardinality(Holes) /\ Cardinality(Holes') \in Nat
  <2>1. \A k \in Holes' : k # next /\ (k # next + 1 => k \in Holes)
    BY DEF Holes
  <2>2. next + 1 \in Holes' => next \in Holes
    BY DEF Holes
  <2>3. CASE next \in Holes
    <3>1. Holes' \subseteq (Holes \ {next}) \cup {next + 1}
      BY <2>1
    <3> QED BY <1>0, <2>3, <3>1, FiniteRotation, OneForAnother
  <2>4. CASE next \notin Holes
    <3>1. Holes' \subseteq Holes
      BY <2>1, <2>2, <2>4
    <3> QED BY <1>0, <3>1, FiniteRotation, FS_Subset, FS_CardinalityType
  <2> QED BY <2>3, <2>4
<1>4. Cardinality(Holes) <= trouble /\ Cardinality(LostAhead) + Spare <= trouble /\ Spare \in {0, 1}
  BY DEF RotateInv, Costs, Spare
<1>5. Cardinality(Holes) \in Nat /\ Cardinality(LostAhead) \in Nat
  BY <1>0, FiniteRotation
<1>6. Costs'
  BY <1>0, <1>2, <1>3, <1>4, <1>5 DEF Costs
<1> QED BY <1>1, <1>6 DEF RotateInv

LEMMA MoveStep ==
  ASSUME RotateInv, next \in 1 .. Archives, next < Archives, next' = next - 1,
         volume[next] # Rotation!None, UNCHANGED <<large, begun, trouble>>,
         volume' = [volume EXCEPT ![next + 1] = volume[next], ![next] = Rotation!None]
  PROVE  RotateInv'
<1> USE RotateAssumption DEF Rotation!Files, Rotation!Idle, Rotation!None
<1>0. /\ trouble \in Nat /\ Archives \in Nat /\ Rotation!TypeOK
      /\ volume \in [0 .. Archives -> 0 .. MaxVolumes] /\ next \in Nat /\ next # 0
  BY DEF RotateInv, Rotation!TypeOK
<1>1. /\ volume' \in [0 .. Archives -> 0 .. MaxVolumes] /\ volume'[next] = 0
      /\ volume'[next + 1] = volume[next]
      /\ \A k \in 0 .. Archives : k \notin {next, next + 1} => volume'[k] = volume[k]
  BY SMTT(30), <1>0
<1>2. Rotation!TypeOK'
  BY <1>0, <1>1 DEF Rotation!TypeOK
<1>3. Ordered' /\ LiveLog'
  <2>1. Ordered'
    <3> SUFFICES ASSUME NEW j \in 0 .. Archives, NEW k \in 0 .. Archives, j < k,
                        volume'[j] # Rotation!None, volume'[k] # Rotation!None
                 PROVE  volume'[j] > volume'[k]
      BY DEF Ordered
    <3>1. \A a, b \in 0 .. Archives :
            a < b /\ volume[a] # Rotation!None /\ volume[b] # Rotation!None => volume[a] > volume[b]
      BY DEF RotateInv, Ordered
    <3>2. j # next /\ k # next
      BY <1>1
    <3>3. CASE j = next + 1
      <4>1. k \notin {next, next + 1} /\ next < k /\ next \in 0 .. Archives
        BY <1>0, <3>3
      <4> QED BY <1>1, <3>1, <3>3, <4>1
    <3>4. CASE k = next + 1
      <4>1. j \notin {next, next + 1} /\ j < next /\ next \in 0 .. Archives
        BY <1>0, <3>2, <3>4
      <4> QED BY <1>1, <3>1, <3>4, <4>1
    <3>5. CASE j # next + 1 /\ k # next + 1
      BY <1>1, <3>1, <3>2, <3>5
    <3> QED BY <3>3, <3>4, <3>5
  <2>2. LiveLog'
    BY <1>0, <1>1 DEF RotateInv, LiveLog
  <2> QED BY <2>1, <2>2
<1>4. Holes' \subseteq Holes /\ Spare' = 0
  BY <1>0, <1>1 DEF Holes, Spare
<1>5. Kept \ {volume[next + 1]} \subseteq Kept'
  <2> SUFFICES ASSUME NEW v \in Kept \ {volume[next + 1]} PROVE v \in Kept'
    OBVIOUS
  <2>1. PICK k \in 1 .. Archives : v = volume[k]
    BY DEF Kept
  <2>2. CASE k = next
    BY <1>0, <1>1, <2>1, <2>2 DEF Kept
  <2>3. CASE k # next
    BY <1>0, <1>1, <2>1, <2>3 DEF Kept
  <2> QED BY <2>2, <2>3
<1>6. LostAhead' \subseteq LostAhead \cup {volume[next + 1]} /\ 0 \notin LostAhead'
  BY <1>5 DEF LostAhead, Window
<1>7. Cardinality(LostAhead') <= Cardinality(LostAhead) + Spare /\ Cardinality(LostAhead') \in Nat
  <2>1. CASE volume[next + 1] = 0
    <3>1. LostAhead' \subseteq LostAhead /\ Spare = 0
      BY <1>6, <2>1 DEF Spare
    <3>2. Cardinality(LostAhead') <= Cardinality(LostAhead) /\ Cardinality(LostAhead') \in Nat
      BY <1>0, <3>1, FiniteRotation, FS_Subset, FS_CardinalityType
    <3> QED BY <1>0, <3>1, <3>2, FiniteRotation
  <2>2. CASE volume[next + 1] # 0
    <3>1. Spare = 1
      BY <2>2 DEF Spare
    <3> QED BY <1>0, <1>6, <3>1, FiniteRotation, AtMostOneMore
  <2> QED BY <2>1, <2>2
<1>8. Cardinality(Holes') <= Cardinality(Holes) /\ Cardinality(Holes') \in Nat /\ Cardinality(Holes) \in Nat
  BY <1>0, <1>4, FiniteRotation, FS_Subset, FS_CardinalityType
<1>9. Cardinality(Holes) <= trouble /\ Cardinality(LostAhead) + Spare <= trouble /\ Spare \in {0, 1}
      /\ Cardinality(LostAhead) \in Nat
  BY <1>0, FiniteRotation DEF RotateInv, Costs, Spare
<1>10. Costs'
  BY <1>0, <1>4, <1>7, <1>8, <1>9 DEF Costs
<1> QED BY <1>2, <1>3, <1>10 DEF RotateInv

\* While fewer volumes were begun than there are archives, those that are lost have
\* left a hole each, and an oldest archive in use has one hole more below it.
LEMMA LostLeaveHoles ==
  ASSUME RotateInv, next = Archives, Archives > 0, volume[Archives] # Rotation!None, begun <= Archives
  PROVE  Cardinality(Lost) + 1 <= Cardinality(Holes)
<1> USE RotateAssumption DEF Rotation!Files, Rotation!Idle, Rotation!None
<1> DEFINE Used == {k \in 1 .. Archives : volume[k] # 0}
           Whole == Kept \ {0}
           f == [k \in Used |-> volume[k]]
<1>0. /\ Archives \in Nat \ {0} /\ Rotation!TypeOK /\ begun \in 1 .. MaxVolumes
      /\ Finished = begun - 1 /\ \A k \in 1 .. Archives : volume[k] \in 0 .. begun - 1
  BY LiveIsNewest DEF RotateInv, Rotation!TypeOK
<1>1. Holes \cup Used = 1 .. Archives /\ Holes \cap Used = {}
  BY <1>0 DEF Holes
<1>2. Cardinality(1 .. Archives) = Archives /\ IsFiniteSet(1 .. Archives)
  BY <1>0, FS_Interval
<1>3. IsFiniteSet(Used) /\ Cardinality(Used) \in Nat
  BY <1>2, FS_Subset, FS_CardinalityType
<1>4. Cardinality(Holes) + Cardinality(Used) = Archives
  <2>1. Cardinality(Holes \cup Used) = Cardinality(Holes) + Cardinality(Used) - Cardinality(Holes \cap Used)
    BY <1>0, <1>3, FiniteRotation, FS_Union
  <2>2. Cardinality(Holes) \in Nat
    BY <1>0, FiniteRotation
  <2>3. Cardinality(Holes \cup Used) = Archives /\ Cardinality(Holes \cap Used) = 0
    BY <1>1, <1>2, FS_EmptySet
  <2> HIDE DEF Used
  <2> QED BY <1>0, <1>3, <2>1, <2>2, <2>3
<1>5. Whole \subseteq 1 .. begun - 1 /\ 1 .. begun - 1 = Window(Finished)
  BY <1>0 DEF Kept, Window
<1>6. IsFiniteSet(1 .. begun - 1) /\ Cardinality(1 .. begun - 1) = begun - 1
  BY <1>0, FS_Interval
<1>7. Cardinality(Used) <= Cardinality(Whole) /\ Cardinality(Whole) \in Nat /\ IsFiniteSet(Whole)
  <2>1. IsFiniteSet(Whole) /\ Cardinality(Whole) \in Nat
    BY <1>5, <1>6, FS_Subset, FS_CardinalityType
  <2>2. \A k \in Used : volume[k] \in Whole
    BY DEF Kept
  <2>3. \A j, k \in Used : volume[j] = volume[k] => j = k
    <3> SUFFICES ASSUME NEW j \in Used, NEW k \in Used, j < k PROVE volume[j] # volume[k]
      BY <1>0
    <3>1. volume[j] > volume[k]
      BY <1>0 DEF RotateInv, Ordered
    <3> QED BY <1>0, <3>1
  <2>4. f \in Injection(Used, Whole)
    BY <2>2, <2>3 DEF Injection, IsInjective
  <2> QED BY <2>1, <2>4, FS_Injection
<1>8. Cardinality(Lost) = begun - 1 - Cardinality(Whole)
  <2>1. Lost = (1 .. begun - 1) \ Whole
    <3>1. 0 \notin Window(Finished)
      BY DEF Window
    <3> QED BY <1>5, <3>1 DEF Lost
  <2>2. (1 .. begun - 1) \cap Whole = Whole
    BY <1>5
  <2> HIDE DEF Whole
  <2> DEFINE V == 1 .. begun - 1
  <2>3. IsFiniteSet(V) /\ Cardinality(V) = begun - 1 /\ Lost = V \ Whole /\ V \cap Whole = Whole
    BY <1>6, <2>1, <2>2
  <2> HIDE DEF V
  <2>4. Cardinality(V \ Whole) = Cardinality(V) - Cardinality(V \cap Whole)
    BY <2>3, FS_Difference
  <2> QED BY <2>3, <2>4
<1>9. Cardinality(Holes) \in Nat /\ Cardinality(Lost) \in Nat
  BY <1>0, FiniteRotation
<1> HIDE DEF Used, Whole, f
<1> QED BY <1>0, <1>3, <1>4, <1>7, <1>8, <1>9

LEMMA RemoveStep ==
  ASSUME RotateInv, Archives > 0, next = Archives, next' = Archives - 1,
         UNCHANGED <<large, begun, trouble>>, volume' = [volume EXCEPT ![Archives] = Rotation!None]
  PROVE  RotateInv'
<1> USE RotateAssumption DEF Rotation!Files, Rotation!Idle, Rotation!None
<1> DEFINE oldest == volume[Archives]
<1>0. /\ trouble \in Nat /\ Archives \in Nat \ {0} /\ Rotation!TypeOK /\ begun \in 1 .. MaxVolumes
      /\ volume \in [0 .. Archives -> 0 .. MaxVolumes] /\ Finished = begun - 1
      /\ \A k \in 1 .. Archives : volume[k] \in 0 .. begun - 1
  BY LiveIsNewest DEF RotateInv, Rotation!TypeOK
<1>1. /\ volume' \in [0 .. Archives -> 0 .. MaxVolumes] /\ volume'[Archives] = 0
      /\ \A k \in 0 .. Archives : k # Archives => volume'[k] = volume[k]
  BY <1>0
<1>2. Rotation!TypeOK'
  BY <1>0, <1>1 DEF Rotation!TypeOK
<1>3. Ordered' /\ LiveLog'
  BY <1>0, <1>1 DEF RotateInv, Ordered, LiveLog
<1>4. Holes' \subseteq Holes /\ Spare' = 0
  BY <1>0, <1>1 DEF Holes, Spare
<1>5. Kept \ {oldest} \subseteq Kept'
  <2> SUFFICES ASSUME NEW v \in Kept \ {oldest} PROVE v \in Kept'
    OBVIOUS
  <2>1. PICK k \in 1 .. Archives : v = volume[k]
    BY DEF Kept
  <2> QED BY <1>0, <1>1, <2>1 DEF Kept
<1>6. LostAhead' \subseteq LostAhead \cup {oldest} /\ 0 \notin LostAhead'
      /\ \A v \in LostAhead' : v \in 1 .. begun - 1 /\ v > begun - Archives
  BY <1>0, <1>5 DEF LostAhead, Window
<1>7. LostAhead \subseteq Lost /\ IsFiniteSet(Lost) /\ Cardinality(Lost) \in Nat /\ Cardinality(Lost) <= trouble
  BY <1>0, LiveIsNewest, FiniteRotation DEF RotateInv, Costs
<1>8. Cardinality(Holes) <= trouble /\ Cardinality(Holes) \in Nat
  BY <1>0, FiniteRotation DEF RotateInv, Costs
<1>9. Cardinality(LostAhead') <= trouble /\ Cardinality(LostAhead') \in Nat
  <2>1. CASE oldest \notin LostAhead'
    <3>1. LostAhead' \subseteq Lost
      BY <1>6, <1>7, <2>1
    <3> QED BY <1>0, <1>7, <3>1, FS_Subset, FS_CardinalityType
  <2>2. CASE oldest \in LostAhead' /\ begun > Archives
    <3>1. begun - Archives \in Lost
      <4>1. begun - Archives \in Window(Finished)
        BY <1>0, <2>2 DEF Window
      <4>2. ASSUME NEW k \in 1 .. Archives PROVE volume[k] # begun - Archives
        <5>1. oldest # 0 /\ oldest > begun - Archives
          BY <1>6, <2>2
        <5>2. k # Archives /\ volume[k] # 0 => volume[k] > oldest
          BY <1>0, <5>1 DEF RotateInv, Ordered
        <5> QED BY <1>0, <2>2, <5>1, <5>2
      <4> QED BY <4>1, <4>2 DEF Lost, Kept
    <3>2. LostAhead' \subseteq (Lost \ {begun - Archives}) \cup {oldest}
      <4>1. begun - Archives \notin LostAhead'
        BY <1>0, <1>6
      <4> QED BY <1>6, <1>7, <4>1
    <3>3. Cardinality(LostAhead') <= Cardinality(Lost) /\ Cardinality(LostAhead') \in Nat
      BY <1>7, <3>1, <3>2, OneForAnother
    <3> QED BY <1>0, <1>7, <3>3
  <2>3. CASE oldest \in LostAhead' /\ begun <= Archives
    <3>1. Cardinality(Lost) + 1 <= Cardinality(Holes)
      BY <1>6, <2>3, LostLeaveHoles
    <3>2. LostAhead' \subseteq Lost \cup {oldest}
      BY <1>6, <1>7
    <3>3. Cardinality(LostAhead') <= Cardinality(Lost) + 1 /\ Cardinality(LostAhead') \in Nat
      BY <1>7, <3>2, AtMostOneMore
    <3> QED BY <1>0, <1>7, <1>8, <3>1, <3>3
  <2> QED BY <1>0, <2>1, <2>2, <2>3
<1>10. Cardinality(Holes') <= Cardinality(Holes) /\ Cardinality(Holes') \in Nat
  BY <1>0, <1>4, FiniteRotation, FS_Subset, FS_CardinalityType
<1>11. Costs'
  BY <1>0, <1>4, <1>8, <1>9, <1>10 DEF Costs
<1> QED BY <1>2, <1>3, <1>11 DEF RotateInv

THEOREM RotateInvariant == LedgersSpec => []RotateInv
<1>1. ASSUME RotateInv, [Rotation!Next]_rotateOnly PROVE RotateInv'
  <2> USE RotateAssumption DEF Rotation!Idle, Rotation!NextStep
  <2>0. next \in 0 .. Archives + 1 /\ Archives \in Nat
    BY <1>1 DEF RotateInv, Rotation!TypeOK
  <2>1. CASE Rotation!Grow
    BY <1>1, <2>1, GrowStep
  <2>2. CASE Rotation!Rotate
    BY <1>1, <2>2, BeginStep
  <2>3. CASE Rotation!RemoveOldest
    <3>1. CASE volume[Archives] # Rotation!None /\ Rotation!Fails
      BY <1>1, <2>0, <2>3, <3>1, FailedMoveStep DEF Rotation!RemoveOldest, Rotation!Fails
    <3>2. CASE Rotation!Works([volume EXCEPT ![Archives] = Rotation!None])
      BY <1>1, <2>0, <2>3, <3>2, RemoveStep DEF Rotation!RemoveOldest, Rotation!Works
    <3> QED BY <2>3, <3>1, <3>2 DEF Rotation!RemoveOldest
  <2>4. ASSUME NEW n \in 1 .. Archives, Rotation!Shift(n) PROVE RotateInv'
    <3>0. next = n /\ n < Archives /\ next' = n - 1 /\ UNCHANGED <<large, begun>>
      BY <2>4 DEF Rotation!Shift
    <3>1. CASE volume[n] # Rotation!None /\ Rotation!Fails
      BY <1>1, <2>0, <3>0, <3>1, FailedMoveStep DEF Rotation!Fails
    <3>2. CASE Rotation!Works(Rotation!Moved(n, n + 1)) /\ volume[n] = Rotation!None
      BY <1>1, <2>0, <3>0, <3>2, NoMoveStep DEF Rotation!Works, Rotation!Moved
    <3>3. CASE Rotation!Works(Rotation!Moved(n, n + 1)) /\ volume[n] # Rotation!None
      BY <1>1, <2>0, <3>0, <3>3, MoveStep DEF Rotation!Works, Rotation!Moved
    <3> QED BY <2>4, <3>1, <3>2, <3>3 DEF Rotation!Shift
  <2>5. CASE Rotation!Finish
    BY <1>1, <2>5, FinishStep
  <2>6. CASE Rotation!Die
    BY <1>1, <2>6, StopStep DEF Rotation!Die
  <2>7. CASE UNCHANGED rotateOnly
    <3>1. Rotation!TypeOK' /\ Ordered' /\ LiveLog'
      BY <1>1, <2>7 DEF rotateOnly, RotateInv, Rotation!TypeOK, Ordered, LiveLog
    <3>2. Costs'
      BY <1>1, <2>7 DEF rotateOnly, RotateInv, Costs, Holes, Lost, LostAhead, Kept, Window, Finished, Spare
    <3> QED BY <3>1, <3>2 DEF RotateInv
  <2> QED BY <1>1, <2>1, <2>2, <2>3, <2>4, <2>5, <2>6, <2>7 DEF Rotation!Next
<1>2. RotateInv /\ [LedgersNext]_all => RotateInv'
  BY <1>1, StepsApart
<1> QED BY RotateInit, <1>2, PTL DEF LedgersSpec

\* rotate_log.py: between rotations the archives are in order, and of the newest volumes,
\* as many as archives are kept, each operation that failed and each rotation that ended
\* half way has cost at most one, for any number of archives and volumes.
THEOREM TroubleIsBounded == LedgersSpec => []TroubleCostsOneArchive
<1>1. RotateInv => TroubleCostsOneArchive
  <2> SUFFICES ASSUME RotateInv PROVE TroubleCostsOneArchive
    OBVIOUS
  <2>1. {v \in 1 .. Finished : v > Finished - Archives} \ {volume[k] : k \in 1 .. Archives} = Lost
    BY DEF Lost, Window, Kept
  <2>2. next = Rotation!Idle => Rotation!Cardinality(Lost) <= trouble
    BY CountsAlike, RotateAssumption DEF RotateInv, Costs, Rotation!Idle
  <2>3. Ordered /\ Rotation!TypeOK
    BY DEF RotateInv
  <2> QED BY <2>1, <2>2, <2>3
    DEF TroubleCostsOneArchive, Rotation!TroubleCostsOneArchive, Ordered, Finished, Rotation!Files
<1> QED BY RotateInvariant, <1>1, PTL

-----------------------------------------------------------------------------
(* The ledger of commissions.                                              *)

FleetRows == [id : Commissions \cup {Heading, Garbled}, has : SUBSET Columns, from : Nat,
              cols : Nat \ {0}, ended : BOOLEAN]
FleetPcs == {"idle", "looking", "creating", "heading", "appending"}
Last == lines[Len(lines)]

FleetTypes ==
  /\ Fleet!TypeOK /\ lines \in Seq(FleetRows) /\ row \in [Scribes -> FleetRows]
  /\ \A s \in Fleet!Running : row[s].id \in Commissions /\ row[s].cols = Width /\ row[s].ended
  /\ Cardinality(Fleet!Running) <= crowd

\* A row that was reported ends a line of its own for good: it is unread because it is
\* the first line, or because it was glued to a piece; and each piece that is there to be
\* glued to, or was, is from a scribe that ended half way.
Strays == {t \in told : t.line # 1 /\ ~Fleet!Read(t)}
Dangling == IF Fleet!OpenEnded THEN 1 ELSE 0
ToldEnds ==
  \A t \in told : /\ t.line \in 1 .. Len(lines) /\ lines[t.line].ended
                  /\ t.line = 1 => lines[1] # Fleet!Header
                  /\ \A u \in told : u.line = t.line => u = t
Tally == IsFiniteSet(told) /\ ToldEnds /\ Cardinality(Strays) + Dangling <= deaths

\* Nothing but headers is in the ledger that nobody told, until a scribe dies.
WrittenIsTold ==
  deaths = 0 =>
    \A k \in 1 .. Len(lines) :
      lines[k].ended /\ (lines[k].id = Heading \/ \E t \in told : t.id = lines[k].id)

\* A scribe that never met another finds the ledger as it left it.
OneByOne ==
  crowd <= 1 /\ deaths = 0 =>
    /\ lines # <<>> => lines[1] = Fleet!Header
    /\ \A k \in 2 .. Len(lines) : lines[k].id # Heading
    /\ ~exists => lines = <<>>
    /\ \A s \in Scribes : /\ fleetPc[s] = "creating" => ~exists
                          /\ fleetPc[s] = "heading" => exists /\ lines = <<>>
                          /\ fleetPc[s] = "appending" => lines # <<>>
    /\ exists /\ (\A s \in Scribes : fleetPc[s] # "heading") => lines # <<>>

\* r supersedes the row of f it was copied from, if any, in a ledger of n lines, and
\* the latest of its commission unless more than one of at most p scribes ran.
Supersedes(r, f, n, p) ==
  r.from # 0 =>
    /\ r.from \in 2 .. n /\ f[r.from].id = r.id
    /\ f[r.from].cols = Width /\ f[r.from].ended
    /\ \E col \in Columns : r.has \ {col} = f[r.from].has \ {col}
    /\ p <= 1 => \A j \in 1 .. n : r.from < j /\ f[j].cols = Width => f[j].id # r.id

FleetInv ==
  /\ FleetTypes /\ Tally /\ WrittenIsTold /\ OneByOne
  /\ \A k \in 2 .. Len(lines) : Supersedes(lines[k], lines, k - 1, crowd)
  /\ \A s \in Fleet!Running : Supersedes(row[s], lines, Len(lines), crowd)

LEMMA HeaderIsRow ==
  /\ Fleet!Header \in FleetRows /\ Fleet!Header.id = Heading /\ Fleet!Header.from = 0
  /\ Fleet!Header.cols = Width /\ Fleet!Header.ended
BY FleetAssumption DEF Fleet!Header, Fleet!Row, FleetRows

LEMMA FleetInit == LedgersInit => FleetInv
<1> SUFFICES ASSUME LedgersInit PROVE FleetInv
  OBVIOUS
<1>1. /\ exists \in BOOLEAN /\ lines = (IF exists THEN <<Fleet!Header>> ELSE <<>>)
      /\ fleetPc = [s \in Scribes |-> "idle"] /\ row = [s \in Scribes |-> Fleet!Header]
      /\ told = {} /\ crowd = 0 /\ deaths = 0
  BY DEF LedgersInit, Fleet!Init
<1>3. Fleet!Running = {}
  BY <1>1 DEF Fleet!Running
<1>4. lines \in Seq(FleetRows) /\ Len(lines) <= 1 /\ (\A k \in 1 .. Len(lines) : lines[k] = Fleet!Header)
      /\ (lines = <<>> <=> ~exists) /\ Len(lines) \in Nat
  BY <1>1, HeaderIsRow
<1>5. FleetTypes
  BY <1>1, <1>3, <1>4, HeaderIsRow, FS_EmptySet, FleetAssumption DEF FleetTypes, Fleet!TypeOK, FleetRows
<1>6. Tally /\ WrittenIsTold
  <2>1. ~Fleet!OpenEnded
    BY <1>4, HeaderIsRow DEF Fleet!OpenEnded
  <2>2. Strays = {}
    BY <1>1 DEF Strays
  <2> QED BY <1>1, <1>4, <2>1, <2>2, HeaderIsRow, FS_EmptySet DEF Tally, ToldEnds, Dangling, WrittenIsTold
<1>7. OneByOne
  BY <1>1, <1>4 DEF OneByOne
<1> QED BY <1>3, <1>4, <1>5, <1>6, <1>7 DEF FleetInv

LEMMA FiniteScribes ==
  IsFiniteSet(Fleet!Running) /\ Fleet!Running \subseteq Scribes /\ Cardinality(Fleet!Running) \in Nat
<1>1. Fleet!Running \subseteq Scribes
  BY DEF Fleet!Running
<1> QED BY <1>1, FleetAssumption, FS_Subset, FS_CardinalityType

\* Scribes that run at once have been counted.
LEMMA TwoMakeACrowd ==
  ASSUME FleetTypes, crowd <= 1, NEW s \in Fleet!Running, NEW o \in Fleet!Running
  PROVE  s = o
<1> SUFFICES ASSUME s # o PROVE FALSE
  OBVIOUS
<1>1. /\ IsFiniteSet(Fleet!Running \ {s}) /\ Cardinality(Fleet!Running \ {s}) = Cardinality(Fleet!Running) - 1
      /\ Cardinality(Fleet!Running \ {s}) \in Nat
  BY FiniteScribes, OneMoreOrLess
<1>2. Cardinality(Fleet!Running \ {s}) # 0
  BY <1>1, FS_EmptySet
<1>3. Cardinality(Fleet!Running) <= crowd /\ crowd \in Nat /\ Cardinality(Fleet!Running) \in Nat
  BY FiniteScribes DEF FleetTypes, Fleet!TypeOK
<1> QED BY <1>1, <1>2, <1>3

\* A piece of a line, and a line that was glued to one, are lines.
LEMMA PieceIsRow ==
  ASSUME NEW r \in FleetRows, NEW p \in Fleet!Pieces(r)
  PROVE  p \in FleetRows /\ p.from = 0 /\ ~p.ended
<1>1. PICK n \in 1 .. Width, h \in SUBSET r.has :
        p = [id |-> IF n = 1 THEN Garbled ELSE r.id, has |-> h, from |-> 0, cols |-> n, ended |-> FALSE]
  BY DEF Fleet!Pieces
<1> QED BY <1>1, FleetAssumption DEF FleetRows

LEMMA GluedIsRow ==
  ASSUME NEW l \in FleetRows, NEW r \in FleetRows, NEW x \in Fleet!Glued(l, r)
  PROVE  /\ x \in FleetRows /\ x.from = 0 /\ x.ended = r.ended /\ x.cols = l.cols + r.cols - 1
         /\ x.id = IF l.cols = 1 THEN Garbled ELSE l.id
<1> DEFINE Hs == IF l.cols = 1 THEN {r.has} ELSE SUBSET Columns
<1>1. PICK h \in Hs : x = [id |-> IF l.cols = 1 THEN Garbled ELSE l.id, has |-> h, from |-> 0,
                           cols |-> l.cols + r.cols - 1, ended |-> r.ended]
  BY DEF Fleet!Glued
<1>2. h \subseteq Columns
  BY DEF FleetRows
<1>3. l.cols + r.cols - 1 \in Nat \ {0}
  BY DEF FleetRows
<1>4. l.id \in Commissions \cup {Heading, Garbled} /\ r.ended \in BOOLEAN
  BY DEF FleetRows
<1> HIDE DEF Hs
<1> QED BY <1>1, <1>2, <1>3, <1>4 DEF FleetRows

\* What an append leaves as it was, and what the last line is then.
Fresh(r) == ~Fleet!OpenEnded /\ Len(lines') = Len(lines) + 1 /\ Last' = r
GluedTo(r) ==
  /\ Fleet!OpenEnded /\ Len(lines') = Len(lines) /\ Len(lines) # 0 /\ ~Last.ended
  /\ Last'.from = 0 /\ Last'.cols = Last.cols + r.cols - 1
  /\ Last'.id = IF Last.cols = 1 THEN Garbled ELSE Last.id

LEMMA LineAppended ==
  ASSUME lines \in Seq(FleetRows), NEW r \in FleetRows, Fleet!Appends(r)
  PROVE  /\ lines' \in Seq(FleetRows) /\ lines' # <<>> /\ Len(lines) \in Nat /\ Len(lines') \in Nat \ {0}
         /\ Last' \in FleetRows /\ Last'.ended = r.ended /\ (Fleet!OpenEnded' <=> ~r.ended)
         /\ Fresh(r) \/ GluedTo(r)
         /\ \A k \in 1 .. Len(lines') - 1 : k \in 1 .. Len(lines) /\ lines'[k] = lines[k]
         /\ \A k \in 1 .. Len(lines) : lines[k].ended \/ Fresh(r) => k \in 1 .. Len(lines') - 1
<1>1. CASE ~Fleet!OpenEnded
  <2>1. lines' = Append(lines, r)
    BY <1>1 DEF Fleet!Appends
  <2>2. /\ lines' \in Seq(FleetRows) /\ lines' # <<>> /\ Len(lines) \in Nat /\ Len(lines') = Len(lines) + 1
        /\ lines'[Len(lines')] = r /\ \A k \in 1 .. Len(lines) : lines'[k] = lines[k]
    BY <2>1
  <2> QED BY <1>1, <2>2 DEF Fresh, Last, Fleet!OpenEnded
<1>2. CASE Fleet!OpenEnded
  <2>1. lines # <<>> /\ ~lines[Len(lines)].ended
    BY <1>2 DEF Fleet!OpenEnded
  <2>2. Len(lines) \in Nat \ {0} /\ lines[Len(lines)] \in FleetRows
    BY <2>1
  <2>3. PICK x \in Fleet!Glued(lines[Len(lines)], r) : lines' = [lines EXCEPT ![Len(lines)] = x]
    BY <1>2 DEF Fleet!Appends
  <2>4. x \in FleetRows /\ x.from = 0 /\ x.ended = r.ended
        /\ x.cols = lines[Len(lines)].cols + r.cols - 1
        /\ x.id = IF lines[Len(lines)].cols = 1 THEN Garbled ELSE lines[Len(lines)].id
    BY <2>2, GluedIsRow
  <2>5. /\ lines' \in Seq(FleetRows) /\ Len(lines') = Len(lines) /\ lines'[Len(lines)] = x
        /\ \A k \in 1 .. Len(lines) - 1 : lines'[k] = lines[k]
    BY <2>2, <2>3, <2>4
  <2>6. lines' # <<>>
    BY <2>2, <2>5
  <2> QED BY <1>2, <2>1, <2>2, <2>4, <2>5, <2>6 DEF Fresh, GluedTo, Last, Fleet!OpenEnded
<1> QED BY <1>1, <1>2

\* A line that was appended supersedes what the row did that it was.
LEMMA LineSupersedes ==
  ASSUME FleetInv, NEW r \in FleetRows, Fleet!Appends(r), crowd' = crowd,
         Supersedes(r, lines, Len(lines), crowd)
  PROVE  \A k \in 2 .. Len(lines') : Supersedes(lines'[k], lines', k - 1, crowd')
<1>1. lines \in Seq(FleetRows)
  BY DEF FleetInv, FleetTypes
<1>2. /\ Len(lines) \in Nat /\ Len(lines') \in Nat \ {0}
      /\ Fresh(r) \/ GluedTo(r)
      /\ \A k \in 1 .. Len(lines') - 1 : k \in 1 .. Len(lines) /\ lines'[k] = lines[k]
      /\ \A k \in 1 .. Len(lines) : lines[k].ended \/ Fresh(r) => k \in 1 .. Len(lines') - 1
  BY <1>1, LineAppended
<1> SUFFICES ASSUME NEW k \in 2 .. Len(lines') PROVE Supersedes(lines'[k], lines', k - 1, crowd')
  OBVIOUS
<1>3. CASE k # Len(lines')
  <2>1. k \in 2 .. Len(lines) /\ lines'[k] = lines[k]
    BY <1>2, <1>3
  <2>2. Supersedes(lines[k], lines, k - 1, crowd)
    BY <2>1 DEF FleetInv
  <2>3. \A j \in 1 .. k - 1 : lines'[j] = lines[j]
    BY <1>2
  <2> QED BY <2>1, <2>2, <2>3 DEF Supersedes
<1>4. CASE k = Len(lines') /\ Fresh(r)
  <2>1. lines'[k] = r /\ k - 1 = Len(lines) /\ \A j \in 1 .. Len(lines) : lines'[j] = lines[j]
    BY <1>2, <1>4 DEF Fresh, Last
  <2> QED BY <2>1 DEF Supersedes
<1>5. CASE k = Len(lines') /\ GluedTo(r)
  BY <1>5 DEF GluedTo, Last, Supersedes
<1> QED BY <1>2, <1>3, <1>4, <1>5

\* The rows that were reported before are read as they were.
LEMMA ReadAsBefore ==
  ASSUME lines \in Seq(FleetRows), ToldEnds, NEW r \in FleetRows, Fleet!Appends(r), NEW t \in told
  PROVE  /\ Fleet!Read(t)' = Fleet!Read(t) /\ t.line \in 1 .. Len(lines') - 1
         /\ lines'[t.line] = lines[t.line] /\ lines'[1] = lines[1]
<1>1. t.line \in 1 .. Len(lines) /\ lines[t.line].ended
  BY DEF ToldEnds
<1>2. /\ Len(lines) \in Nat /\ Len(lines') \in Nat \ {0}
      /\ \A k \in 1 .. Len(lines') - 1 : k \in 1 .. Len(lines) /\ lines'[k] = lines[k]
      /\ t.line \in 1 .. Len(lines') - 1
  BY <1>1, LineAppended
<1>3. lines'[t.line] = lines[t.line] /\ lines'[1] = lines[1]
  BY <1>2
<1> QED BY <1>1, <1>2, <1>3 DEF Fleet!Read, Fleet!Rows

\* A line that nobody was told of leaves the tally, but for its own missing end.
LEMMA UntoldLine ==
  ASSUME FleetInv, NEW r \in FleetRows, Fleet!Appends(r), UNCHANGED told, deaths' \in Nat,
         deaths' >= deaths + (IF r.ended THEN 0 ELSE 1)
  PROVE  Tally'
<1>1. lines \in Seq(FleetRows) /\ Tally /\ ToldEnds /\ deaths \in Nat
  BY FleetAssumption DEF FleetInv, FleetTypes, Tally, Fleet!TypeOK
<1>2. ToldEnds'
  <2> SUFFICES ASSUME NEW t \in told
               PROVE  /\ t.line \in 1 .. Len(lines') /\ lines'[t.line].ended
                      /\ t.line = 1 => lines'[1] # Fleet!Header
                      /\ \A u \in told : u.line = t.line => u = t
    BY DEF ToldEnds
  <2>1. t.line \in 1 .. Len(lines') - 1 /\ lines'[t.line] = lines[t.line] /\ lines'[1] = lines[1]
    BY <1>1, ReadAsBefore
  <2>2. Len(lines') \in Nat
    BY <1>1, LineAppended
  <2> QED BY <1>1, <2>1, <2>2 DEF ToldEnds
<1>3. Strays' = Strays
  <2>1. \A t \in told : Fleet!Read(t)' = Fleet!Read(t)
    BY <1>1, ReadAsBefore
  <2> QED BY <2>1 DEF Strays
<1>4. Dangling' = IF r.ended THEN 0 ELSE 1
  BY <1>1, LineAppended DEF Dangling
<1>5. Cardinality(Strays) \in Nat /\ Cardinality(Strays) <= deaths
  <2>1. IsFiniteSet(Strays)
    BY <1>1, FS_Subset DEF Tally, Strays
  <2> QED BY <1>1, <2>1, FS_CardinalityType DEF Tally, Dangling
<1> QED BY <1>1, <1>2, <1>3, <1>4, <1>5 DEF Tally

\* A row that is reported is a stray only if it was glued to a piece.
LEMMA ToldLine ==
  ASSUME FleetInv, NEW r \in FleetRows, Fleet!Appends(r), UNCHANGED deaths,
         r.id \in Commissions, r.cols = Width, r.ended,
         told' = told \cup {Fleet!Told(r, Len(lines'))}
  PROVE  Tally'
<1>0. PICK n, new : n = Len(lines') /\ new = Fleet!Told(r, n)
  OBVIOUS
<1>1. lines \in Seq(FleetRows) /\ Tally /\ ToldEnds /\ deaths \in Nat
  BY FleetAssumption DEF FleetInv, FleetTypes, Tally, Fleet!TypeOK
<1>2. /\ n \in Nat \ {0} /\ Last' \in FleetRows /\ Last'.ended /\ ~Fleet!OpenEnded'
      /\ (Fresh(r) \/ GluedTo(r)) /\ Len(lines) \in Nat
  BY <1>0, <1>1, LineAppended
<1>3. new.line = n /\ new.id = r.id /\ new.has = r.has /\ told' = told \cup {new}
  BY <1>0 DEF Fleet!Told
<1>4. \A t \in told : /\ Fleet!Read(t)' = Fleet!Read(t) /\ t.line \in 1 .. n - 1
                      /\ lines'[t.line] = lines[t.line] /\ lines'[1] = lines[1]
  BY <1>0, <1>1, ReadAsBefore
<1>5. n = 1 => lines'[1] # Fleet!Header
  <2> SUFFICES ASSUME n = 1, Last' = Fleet!Header PROVE FALSE
    BY <1>0 DEF Last
  <2>1. CASE Fresh(r)
    BY <2>1, HeaderIsRow, FleetAssumption DEF Fresh
  <2>2. CASE GluedTo(r)
    <3>1. Last \in FleetRows
      BY <1>0, <1>1, <1>2, <2>2 DEF GluedTo, Last
    <3>2. Last.cols \in Nat \ {0} /\ Last.cols = 1
      BY <2>2, <3>1, HeaderIsRow, FleetAssumption DEF GluedTo, FleetRows
    <3> QED BY <2>2, <3>2, HeaderIsRow, FleetAssumption DEF GluedTo
  <2> QED BY <1>2, <2>1, <2>2
<1>6. ToldEnds'
  <2> SUFFICES ASSUME NEW t \in told'
               PROVE  /\ t.line \in 1 .. n /\ lines'[t.line].ended
                      /\ t.line = 1 => lines'[1] # Fleet!Header
                      /\ \A u \in told' : u.line = t.line => u = t
    BY <1>0 DEF ToldEnds
  <2>1. CASE t = new
    BY <1>0, <1>2, <1>3, <1>4, <1>5, <2>1 DEF Last
  <2>2. CASE t \in told
    BY <1>1, <1>2, <1>3, <1>4, <2>2 DEF ToldEnds
  <2> QED BY <1>3, <2>1, <2>2
<1>7. IsFiniteSet(told') /\ IsFiniteSet(Strays) /\ IsFiniteSet(Strays')
  <2>1. IsFiniteSet(told')
    BY <1>1, <1>3, FS_AddElement DEF Tally
  <2> QED BY <1>1, <2>1, FS_Subset DEF Tally, Strays
<1>8. Strays' \subseteq Strays \cup {new}
  <2> SUFFICES ASSUME NEW t \in told, t.line # 1, ~Fleet!Read(t)' PROVE t \in Strays
    BY <1>3 DEF Strays
  <2> QED BY <1>4 DEF Strays
<1>9. Dangling' = 0
  BY <1>2 DEF Dangling
<1>10. CASE Fresh(r)
  <2>1. Strays' \subseteq Strays
    <3>1. n # 1 => Fleet!Read(new)'
      BY <1>0, <1>2, <1>3, <1>10 DEF Fresh, Last, Fleet!Read, Fleet!Rows
    <3>2. new \notin Strays'
      BY <1>3, <3>1 DEF Strays
    <3> QED BY <1>8, <3>2
  <2>2. Cardinality(Strays') <= Cardinality(Strays) /\ Cardinality(Strays') \in Nat
        /\ Cardinality(Strays) \in Nat
    BY <1>7, <2>1, FS_Subset, FS_CardinalityType
  <2>3. Cardinality(Strays) <= deaths
    BY <1>1, <2>2 DEF Tally, Dangling
  <2> QED BY <1>1, <1>6, <1>7, <1>9, <2>2, <2>3 DEF Tally
<1>11. CASE GluedTo(r)
  <2>1. Cardinality(Strays) + 1 <= deaths
    BY <1>1, <1>11 DEF GluedTo, Tally, Dangling
  <2>2. /\ IsFiniteSet(Strays \cup {new}) /\ Cardinality(Strays \cup {new}) <= Cardinality(Strays) + 1
        /\ Cardinality(Strays) \in Nat
    <3>1. CASE new \in Strays
      <4>1. Strays \cup {new} = Strays
        BY <3>1
      <4>2. Cardinality(Strays) \in Nat /\ IsFiniteSet(Strays)
        BY <1>7, FS_CardinalityType
      <4>3. Cardinality(Strays) <= Cardinality(Strays) + 1
        BY <4>2
      <4> QED BY <4>1, <4>2, <4>3
    <3>2. CASE new \notin Strays
      <4>1. /\ IsFiniteSet(Strays \cup {new}) /\ Cardinality(Strays) \in Nat
            /\ Cardinality(Strays \cup {new}) = Cardinality(Strays) + 1
        BY <1>7, <3>2, OneMoreOrLess
      <4>2. Cardinality(Strays) + 1 <= Cardinality(Strays) + 1
        BY <4>1
      <4> QED BY <4>1, <4>2
    <3> QED BY <3>1, <3>2
  <2>3. Cardinality(Strays') <= Cardinality(Strays \cup {new}) /\ Cardinality(Strays') \in Nat
        /\ Cardinality(Strays \cup {new}) \in Nat
    BY <1>7, <1>8, <2>2, FS_Subset, FS_CardinalityType
  <2> QED BY <1>1, <1>6, <1>7, <1>9, <2>1, <2>2, <2>3 DEF Tally
<1> QED BY <1>2, <1>10, <1>11

\* The ledger and what was told of it stand still.
LEMMA LedgerStands ==
  ASSUME FleetInv, UNCHANGED <<lines, told>>, deaths' \in Nat, deaths' >= deaths
  PROVE  Tally' /\ WrittenIsTold'
<1>1. Tally /\ deaths \in Nat /\ (deaths' = 0 => deaths = 0)
  BY FleetAssumption DEF FleetInv, FleetTypes, Fleet!TypeOK
<1>2. Strays' = Strays /\ Dangling' = Dangling /\ ToldEnds' = ToldEnds
  BY DEF Strays, Dangling, ToldEnds, Fleet!Read, Fleet!Rows, Fleet!OpenEnded
<1>3. Cardinality(Strays) \in Nat /\ Dangling \in Nat
  <2>1. IsFiniteSet(Strays)
    BY <1>1, FS_Subset DEF Tally, Strays
  <2> QED BY <2>1, FS_CardinalityType DEF Dangling
<1>4. Tally'
  BY <1>1, <1>2, <1>3 DEF Tally
<1> QED BY <1>1, <1>4 DEF FleetInv, WrittenIsTold

LEMMA RunsStep ==
  ASSUME FleetInv, NEW s \in Scribes, NEW r \in FleetRows,
         r.id \in Commissions, r.cols = Width, r.ended,
         Supersedes(r, lines, Len(lines), 0), Fleet!Runs(s, r)
  PROVE  FleetInv'
<1>1. /\ fleetPc[s] = "idle" /\ fleetPc' = [fleetPc EXCEPT ![s] = "looking"]
      /\ row' = [row EXCEPT ![s] = r] /\ UNCHANGED <<exists, lines, told, deaths>>
      /\ crowd' = IF crowd > Cardinality(Fleet!Running) THEN crowd ELSE crowd + 1
  BY CountsAlike DEF Fleet!Runs, Fleet!ledger, Fleet!history
<1>2. /\ fleetPc \in [Scribes -> FleetPcs]
      /\ crowd \in Nat /\ lines \in Seq(FleetRows) /\ row \in [Scribes -> FleetRows]
      /\ Cardinality(Fleet!Running) <= crowd /\ Cardinality(Fleet!Running) \in Nat
      /\ deaths \in Nat
  BY FiniteScribes, FleetAssumption DEF FleetInv, FleetTypes, Fleet!TypeOK, FleetPcs
<1>3. Fleet!Running' = Fleet!Running \cup {s} /\ s \notin Fleet!Running
  BY <1>1, <1>2 DEF Fleet!Running, FleetPcs
<1>4. Cardinality(Fleet!Running \cup {s}) = Cardinality(Fleet!Running) + 1
  BY <1>3, FiniteScribes, OneMoreOrLess
<1>5. Cardinality(Fleet!Running') <= crowd' /\ crowd <= crowd' /\ crowd' \in Nat
  BY <1>1, <1>2, <1>3, <1>4
<1>6. FleetTypes'
  <2>1. Fleet!TypeOK'
    BY <1>1, <1>2, <1>5 DEF FleetInv, FleetTypes, Fleet!TypeOK, FleetPcs
  <2>2. \A o \in Fleet!Running' : row'[o].id \in Commissions /\ row'[o].cols = Width /\ row'[o].ended
    BY <1>1, <1>2, <1>3, FiniteScribes DEF FleetInv, FleetTypes
  <2> QED BY <1>1, <1>2, <1>5, <2>1, <2>2 DEF FleetTypes
<1>7. Tally' /\ WrittenIsTold'
  BY <1>1, <1>2, LedgerStands
<1>8. OneByOne'
  <2> SUFFICES ASSUME crowd' <= 1, deaths' = 0 PROVE OneByOne'
    BY DEF OneByOne
  <2>1. crowd <= 1 /\ deaths = 0
    BY <1>1, <1>2, <1>5
  <2>2. /\ \A o \in Scribes : \A p \in {"creating", "heading", "appending"} :
             fleetPc'[o] = p => fleetPc[o] = p
        /\ \A o \in Scribes : fleetPc[o] = "heading" => fleetPc'[o] = "heading"
    BY <1>1, <1>2
  <2> QED BY <1>1, <2>1, <2>2 DEF FleetInv, OneByOne
<1>9. \A k \in 2 .. Len(lines) : Supersedes(lines[k], lines, k - 1, crowd')
  <2> SUFFICES ASSUME NEW k \in 2 .. Len(lines) PROVE Supersedes(lines[k], lines, k - 1, crowd')
    OBVIOUS
  <2>1. Supersedes(lines[k], lines, k - 1, crowd)
    BY DEF FleetInv
  <2>2. crowd' <= 1 => crowd <= 1
    BY <1>2, <1>5
  <2> QED BY <2>1, <2>2 DEF Supersedes
<1>10. ASSUME NEW o \in Fleet!Running' PROVE Supersedes(row'[o], lines, Len(lines), crowd')
  <2>1. CASE o = s
    <3>1. row'[o] = r
      BY <1>1, <1>2, <2>1
    <3> QED BY <3>1 DEF Supersedes
  <2>2. CASE o # s
    <3>1. row'[o] = row[o] /\ o \in Fleet!Running
      BY <1>1, <1>2, <1>3, <2>2
    <3>2. Supersedes(row[o], lines, Len(lines), crowd)
      BY <3>1 DEF FleetInv
    <3>3. crowd' <= 1 => crowd <= 1
      BY <1>2, <1>5
    <3> QED BY <3>1, <3>2, <3>3 DEF Supersedes
  <2> QED BY <2>1, <2>2
<1> QED BY <1>1, <1>6, <1>7, <1>8, <1>9, <1>10 DEF FleetInv

\* A scribe that goes on, or ends, is not one more.
LEMMA GoesOn ==
  ASSUME FleetInv, NEW s \in Scribes, NEW from, NEW to, from # "idle", Fleet!Goes(s, from, to),
         to \in FleetPcs
  PROVE  /\ s \in Fleet!Running /\ Fleet!Running' \subseteq Fleet!Running
         /\ fleetPc' \in [Scribes -> FleetPcs]
         /\ fleetPc[s] = from /\ fleetPc'[s] = to
         /\ \A o \in Scribes : o # s => fleetPc'[o] = fleetPc[o]
         /\ to = "idle" => s \notin Fleet!Running'
         /\ Cardinality(Fleet!Running') <= crowd' /\ crowd' = crowd /\ row' = row
<1>1. /\ fleetPc \in [Scribes -> FleetPcs]
      /\ crowd \in Nat /\ Cardinality(Fleet!Running) <= crowd
      /\ fleetPc[s] = from /\ fleetPc' = [fleetPc EXCEPT ![s] = to] /\ crowd' = crowd /\ row' = row
  BY DEF FleetInv, FleetTypes, Fleet!TypeOK, Fleet!Goes, FleetPcs
<1>2. s \in Fleet!Running /\ Fleet!Running' \subseteq Fleet!Running
  BY <1>1 DEF Fleet!Running
<1>3. Cardinality(Fleet!Running') <= Cardinality(Fleet!Running) /\ Cardinality(Fleet!Running') \in Nat
      /\ Cardinality(Fleet!Running) \in Nat
  BY <1>2, FiniteScribes, FS_Subset, FS_CardinalityType
<1>4. Cardinality(Fleet!Running') <= crowd'
  BY <1>1, <1>3
<1>5. to = "idle" => s \notin Fleet!Running'
  BY <1>1 DEF Fleet!Running
<1> QED BY <1>1, <1>2, <1>4, <1>5

LEMMA QuietStep ==
  ASSUME FleetInv, NEW s \in Scribes, NEW from, NEW to, from # "idle", Fleet!Goes(s, from, to),
         to \in FleetPcs,
         UNCHANGED <<lines, told>>, exists' \in BOOLEAN, deaths' \in 0 .. MaxDeaths,
         deaths' >= deaths, OneByOne'
  PROVE  FleetInv'
<1>1. /\ Fleet!Running' \subseteq Fleet!Running
      /\ fleetPc' \in [Scribes -> FleetPcs]
      /\ Cardinality(Fleet!Running') <= crowd' /\ crowd' = crowd /\ row' = row
  BY GoesOn
<1>2. FleetTypes'
  <2>1. Fleet!TypeOK'
    BY <1>1 DEF FleetInv, FleetTypes, Fleet!TypeOK, FleetPcs
  <2> QED BY <1>1, <2>1 DEF FleetInv, FleetTypes
<1>3. Tally' /\ WrittenIsTold'
  <2>1. deaths' \in Nat
    BY FleetAssumption
  <2> QED BY <2>1, LedgerStands
<1> QED BY <1>1, <1>2, <1>3 DEF FleetInv

\* A scribe that ends has died more than none.
LEMMA DeathCounts ==
  ASSUME FleetInv, NEW s \in Scribes, Fleet!Dies(s)
  PROVE  /\ deaths' \in 0 .. MaxDeaths /\ deaths' = deaths + 1 /\ deaths \in Nat
         /\ deaths' # 0 /\ OneByOne' /\ WrittenIsTold'
<1>1. deaths \in 0 .. MaxDeaths /\ deaths < MaxDeaths /\ deaths' = deaths + 1
  BY DEF FleetInv, FleetTypes, Fleet!TypeOK, Fleet!Dies
<1>2. deaths' \in 0 .. MaxDeaths /\ deaths' # 0 /\ deaths \in Nat
  BY <1>1, FleetAssumption
<1> QED BY <1>1, <1>2 DEF OneByOne, WrittenIsTold

LEMMA EnsureStep ==
  ASSUME FleetInv, NEW s \in Scribes, Fleet!Look(s) \/ Fleet!Create(s) \/ Fleet!Die(s)
  PROVE  FleetInv'
<1>0. exists \in BOOLEAN /\ deaths \in 0 .. MaxDeaths /\ deaths <= deaths /\ FleetTypes /\ crowd \in Nat
  BY FleetAssumption DEF FleetInv, FleetTypes, Fleet!TypeOK
<1>1. CASE Fleet!Look(s)
  <2> DEFINE to == IF exists THEN "appending" ELSE "creating"
  <2>1. Fleet!Goes(s, "looking", to) /\ UNCHANGED <<exists, lines, told, deaths>>
    BY <1>1 DEF Fleet!Look, Fleet!ledger, Fleet!history
  <2>0. to \in FleetPcs
    BY DEF FleetPcs
  <2>2. /\ s \in Fleet!Running /\ fleetPc[s] = "looking" /\ fleetPc'[s] = to /\ crowd' = crowd
        /\ \A o \in Scribes : o # s => fleetPc'[o] = fleetPc[o]
    BY <2>0, <2>1, GoesOn
  <2>3. OneByOne'
    <3> SUFFICES ASSUME crowd' <= 1, deaths' = 0 PROVE OneByOne'
      BY DEF OneByOne
    <3>1. crowd <= 1 /\ deaths = 0
      BY <2>1, <2>2
    <3>2. \A o \in Scribes : fleetPc[o] = "heading" => o = s
      BY <1>0, <2>2, <3>1, TwoMakeACrowd DEF Fleet!Running
    <3>3. exists => lines # <<>>
      BY <2>2, <3>1, <3>2 DEF FleetInv, OneByOne
    <3> QED BY <2>1, <2>2, <3>1, <3>3 DEF FleetInv, OneByOne
  <2> QED BY <1>0, <2>0, <2>1, <2>3, QuietStep
<1>2. CASE Fleet!Create(s)
  <2>1. Fleet!Goes(s, "creating", "heading") /\ UNCHANGED <<lines, told, deaths>> /\ exists' = TRUE
    BY <1>2 DEF Fleet!Create, Fleet!history
  <2>0. "heading" \in FleetPcs
    BY DEF FleetPcs
  <2>2. /\ s \in Fleet!Running /\ fleetPc[s] = "creating" /\ fleetPc'[s] = "heading" /\ crowd' = crowd
        /\ \A o \in Scribes : o # s => fleetPc'[o] = fleetPc[o]
    BY <2>0, <2>1, GoesOn
  <2>3. OneByOne'
    <3> SUFFICES ASSUME crowd' <= 1, deaths' = 0 PROVE OneByOne'
      BY DEF OneByOne
    <3>1. crowd <= 1 /\ deaths = 0
      BY <2>1, <2>2
    <3>2. \A o \in Scribes : fleetPc[o] # "idle" => o = s
      BY <1>0, <2>2, <3>1, TwoMakeACrowd DEF Fleet!Running
    <3>3. lines = <<>>
      BY <2>2, <3>1 DEF FleetInv, OneByOne
    <3> QED BY <2>1, <2>2, <3>1, <3>2, <3>3 DEF FleetInv, OneByOne
  <2> QED BY <1>0, <2>0, <2>1, <2>3, QuietStep
<1>3. CASE Fleet!Die(s)
  <2>1. /\ Fleet!Goes(s, fleetPc[s], "idle") /\ fleetPc[s] # "idle"
        /\ UNCHANGED <<exists, lines, told>> /\ Fleet!Dies(s)
    BY <1>3 DEF Fleet!Die, Fleet!Dies
  <2>2. deaths' \in 0 .. MaxDeaths /\ deaths' >= deaths /\ OneByOne'
    BY <2>1, DeathCounts
  <2>3. "idle" \in FleetPcs
    BY DEF FleetPcs
  <2> QED BY <1>0, <2>1, <2>2, <2>3, QuietStep
<1> QED BY <1>1, <1>2, <1>3

\* A line is appended by the scribe s that goes from `from` to `to`: its own row, and
\* then it is done, or the header, or a piece of either.
LEMMA LineStep ==
  ASSUME FleetInv, NEW s \in Scribes, NEW from, NEW to, from # "idle", Fleet!Goes(s, from, to),
         to \in FleetPcs, exists' \in BOOLEAN, deaths' \in 0 .. MaxDeaths,
         NEW r \in FleetRows, Fleet!Appends(r), Supersedes(r, lines, Len(lines), crowd),
         to = "idle" \/ r = Fleet!Header,
         told' \subseteq told \cup {Fleet!Told(r, Len(lines'))},
         told' # told => r.id \in Commissions,
         Tally', OneByOne', WrittenIsTold'
  PROVE  FleetInv'
<1>1. /\ s \in Fleet!Running /\ Fleet!Running' \subseteq Fleet!Running
      /\ fleetPc' \in [Scribes -> FleetPcs]
      /\ to = "idle" => s \notin Fleet!Running'
      /\ Cardinality(Fleet!Running') <= crowd' /\ crowd' = crowd /\ row' = row
  BY GoesOn
<1>2. /\ Fleet!TypeOK /\ lines \in Seq(FleetRows) /\ row \in [Scribes -> FleetRows]
      /\ \A o \in Fleet!Running : row[o].id \in Commissions /\ row[o].cols = Width /\ row[o].ended
      /\ told \subseteq [line : Nat, id : Commissions, has : SUBSET Columns]
      /\ crowd \in Nat /\ FleetTypes
  BY DEF FleetInv, FleetTypes, Fleet!TypeOK
<1>3. /\ lines' \in Seq(FleetRows) /\ lines' # <<>> /\ Len(lines) \in Nat /\ Len(lines') \in Nat \ {0}
      /\ Fresh(r) \/ GluedTo(r)
      /\ \A k \in 1 .. Len(lines') - 1 : k \in 1 .. Len(lines) /\ lines'[k] = lines[k]
      /\ \A k \in 1 .. Len(lines) : lines[k].ended \/ Fresh(r) => k \in 1 .. Len(lines') - 1
  BY <1>2, LineAppended
<1>4. FleetTypes'
  <2>1. told' \subseteq [line : Nat, id : Commissions, has : SUBSET Columns]
    <3>1. r.has \subseteq Columns
      BY DEF FleetRows
    <3>2. r.id \in Commissions => Fleet!Told(r, Len(lines')) \in [line : Nat, id : Commissions, has : SUBSET Columns]
      BY <1>3, <3>1 DEF Fleet!Told
    <3> QED BY <1>2, <3>2
  <2>2. Fleet!TypeOK'
    BY <1>1, <1>2, <1>3, <2>1 DEF Fleet!TypeOK, FleetRows, FleetPcs
  <2> QED BY <1>1, <1>2, <1>3, <2>2 DEF FleetTypes
<1>5. \A k \in 2 .. Len(lines') : Supersedes(lines'[k], lines', k - 1, crowd')
  BY <1>1, LineSupersedes
<1>6. ASSUME NEW o \in Fleet!Running' PROVE Supersedes(row'[o], lines', Len(lines'), crowd')
  <2>1. /\ Supersedes(row[o], lines, Len(lines), crowd) /\ row[o].id \in Commissions
        /\ row[o].from \in Nat /\ row'[o] = row[o]
    <3>1. o \in Fleet!Running /\ o \in Scribes
      BY <1>1, FiniteScribes
    <3> QED BY <1>1, <1>2, <3>1 DEF FleetInv, FleetRows
  <2> DEFINE f == row[o].from
  <2> SUFFICES ASSUME f # 0
               PROVE  /\ f \in 2 .. Len(lines') /\ lines'[f].id = row[o].id
                      /\ lines'[f].cols = Width /\ lines'[f].ended
                      /\ \E col \in Columns : row[o].has \ {col} = lines'[f].has \ {col}
                      /\ crowd <= 1 => \A j \in 1 .. Len(lines') :
                                         f < j /\ lines'[j].cols = Width => lines'[j].id # row[o].id
    BY <1>1, <2>1 DEF Supersedes
  <2>2. /\ f \in 2 .. Len(lines) /\ lines[f].id = row[o].id
        /\ lines[f].cols = Width /\ lines[f].ended
        /\ \E col \in Columns : row[o].has \ {col} = lines[f].has \ {col}
        /\ crowd <= 1 => \A j \in 1 .. Len(lines) :
                           f < j /\ lines[j].cols = Width => lines[j].id # row[o].id
    BY <2>1 DEF Supersedes
  <2>3. f \in 2 .. Len(lines') /\ lines'[f] = lines[f]
    BY <1>3, <2>2
  <2>4. ASSUME crowd <= 1, NEW j \in 1 .. Len(lines'), f < j, lines'[j].cols = Width
        PROVE  lines'[j].id # row[o].id
    <3>1. CASE j # Len(lines')
      <4>1. j \in 1 .. Len(lines) /\ lines'[j] = lines[j]
        BY <1>3, <3>1
      <4> QED BY <2>2, <2>4, <4>1
    <3>2. CASE j = Len(lines')
      <4>1. r = Fleet!Header
        <5>1. s \in Fleet!Running /\ o \in Fleet!Running
          BY <1>1
        <5>2. s = o
          BY <1>2, <2>4, <5>1, TwoMakeACrowd
        <5> QED BY <1>1, <5>2
      <4>2. CASE Fresh(r)
        BY <2>1, <3>2, <4>1, <4>2, HeaderIsRow, FleetAssumption DEF Fresh, Last
      <4>3. CASE GluedTo(r)
        <5>1. Last \in FleetRows
          BY <1>2, <1>3, <4>3 DEF GluedTo, Last
        <5>2. Last.cols = 1
          BY <2>4, <3>2, <4>1, <4>3, <5>1, HeaderIsRow, FleetAssumption DEF GluedTo, FleetRows, Last
        <5> QED BY <2>1, <3>2, <4>3, <5>2, FleetAssumption DEF GluedTo, Last
      <4> QED BY <1>3, <4>2, <4>3
    <3> QED BY <3>1, <3>2
  <2> QED BY <2>2, <2>3, <2>4
<1> QED BY <1>4, <1>5, <1>6 DEF FleetInv

LEMMA HeaderStep ==
  ASSUME FleetInv, NEW s \in Scribes, Fleet!WriteHeader(s)
  PROVE  FleetInv'
<1> DEFINE r == Fleet!Header
<1>1. /\ Fleet!Goes(s, "heading", "appending") /\ Fleet!Appends(r)
      /\ UNCHANGED <<exists, told, deaths>>
  BY DEF Fleet!WriteHeader, Fleet!history
<1>2. r \in FleetRows /\ r.id = Heading /\ r.from = 0 /\ r.ended
  BY HeaderIsRow
<1>3. /\ lines \in Seq(FleetRows) /\ FleetTypes /\ OneByOne /\ WrittenIsTold
      /\ exists \in BOOLEAN /\ deaths \in 0 .. MaxDeaths
  BY DEF FleetInv, FleetTypes, Fleet!TypeOK
<1>4. "appending" \in FleetPcs
  BY DEF FleetPcs
<1>5. /\ s \in Fleet!Running /\ fleetPc[s] = "heading" /\ fleetPc'[s] = "appending" /\ crowd' = crowd
      /\ \A o \in Scribes : o # s => fleetPc'[o] = fleetPc[o]
  BY <1>1, <1>4, GoesOn
<1>6. /\ lines' \in Seq(FleetRows) /\ lines' # <<>> /\ Len(lines) \in Nat /\ Len(lines') \in Nat \ {0}
      /\ Fresh(r) \/ GluedTo(r)
      /\ \A k \in 1 .. Len(lines') - 1 : k \in 1 .. Len(lines) /\ lines'[k] = lines[k]
  BY <1>1, <1>2, <1>3, LineAppended
<1>7. deaths = 0 => Fresh(r)
  BY <1>3, <1>6 DEF WrittenIsTold, GluedTo, Last
<1>8. WrittenIsTold'
  <2> SUFFICES ASSUME deaths' = 0, NEW k \in 1 .. Len(lines')
               PROVE  lines'[k].ended /\ (lines'[k].id = Heading \/ \E t \in told : t.id = lines'[k].id)
    BY <1>1 DEF WrittenIsTold
  <2>1. CASE k = Len(lines')
    BY <1>1, <1>2, <1>7, <2>1 DEF Fresh, Last
  <2>2. CASE k # Len(lines')
    <3>1. k \in 1 .. Len(lines) /\ lines'[k] = lines[k]
      BY <1>6, <2>2
    <3> QED BY <1>1, <1>3, <3>1 DEF WrittenIsTold
  <2> QED BY <2>1, <2>2
<1>9. OneByOne'
  <2> SUFFICES ASSUME crowd' <= 1, deaths' = 0 PROVE OneByOne'
    BY DEF OneByOne
  <2>1. crowd <= 1 /\ deaths = 0
    BY <1>1, <1>5
  <2>2. \A o \in Scribes : fleetPc[o] # "idle" => o = s
    BY <1>3, <1>5, <2>1, TwoMakeACrowd DEF Fleet!Running
  <2>3. lines = <<>> /\ exists
    BY <1>3, <1>5, <2>1 DEF OneByOne
  <2>5. Len(lines') = 1 /\ lines'[1] = Fleet!Header /\ lines' # <<>>
    BY <1>6, <1>7, <2>1, <2>3 DEF Fresh, Last
  <2> QED BY <1>1, <1>5, <2>2, <2>3, <2>5 DEF OneByOne
<1>10. Supersedes(r, lines, Len(lines), crowd)
  BY <1>2 DEF Supersedes
<1>11. Tally'
  <2>1. deaths' \in Nat /\ deaths' >= deaths + (IF r.ended THEN 0 ELSE 1)
    BY <1>1, <1>2, <1>3, FleetAssumption
  <2> QED BY <1>1, <1>2, <2>1, UntoldLine
<1> HIDE DEF r
<1>12. r = Fleet!Header
  BY DEF r
<1> QED BY <1>1, <1>2, <1>3, <1>4, <1>8, <1>9, <1>10, <1>11, <1>12, LineStep

LEMMA AppendRowStep ==
  ASSUME FleetInv, NEW s \in Scribes, Fleet!AppendRow(s)
  PROVE  FleetInv'
<1> DEFINE r == row[s]
<1>1. /\ Fleet!Goes(s, "appending", "idle") /\ Fleet!Appends(r)
      /\ told' = told \cup {Fleet!Told(r, Len(lines'))} /\ UNCHANGED <<exists, deaths>>
  BY DEF Fleet!AppendRow
<1>2. "idle" \in FleetPcs
  BY DEF FleetPcs
<1>3. /\ s \in Fleet!Running /\ fleetPc[s] = "appending" /\ fleetPc'[s] = "idle" /\ crowd' = crowd
      /\ \A o \in Scribes : o # s => fleetPc'[o] = fleetPc[o]
  BY <1>1, <1>2, GoesOn
<1>4. /\ lines \in Seq(FleetRows) /\ FleetTypes /\ OneByOne /\ WrittenIsTold /\ r \in FleetRows
      /\ r.id \in Commissions /\ r.id # Heading /\ r.cols = Width /\ r.ended
      /\ exists \in BOOLEAN /\ deaths \in 0 .. MaxDeaths
  BY <1>3, FleetAssumption DEF FleetInv, FleetTypes, Fleet!TypeOK
<1>5. /\ lines' \in Seq(FleetRows) /\ lines' # <<>> /\ Len(lines) \in Nat /\ Len(lines') \in Nat \ {0}
      /\ Fresh(r) \/ GluedTo(r)
      /\ \A k \in 1 .. Len(lines') - 1 : k \in 1 .. Len(lines) /\ lines'[k] = lines[k]
  BY <1>1, <1>4, LineAppended
<1>6. deaths = 0 => Fresh(r)
  BY <1>4, <1>5 DEF WrittenIsTold, GluedTo, Last
<1>7. WrittenIsTold'
  <2> SUFFICES ASSUME deaths' = 0, NEW k \in 1 .. Len(lines')
               PROVE  lines'[k].ended /\ (lines'[k].id = Heading \/ \E t \in told' : t.id = lines'[k].id)
    BY DEF WrittenIsTold
  <2>1. CASE k = Len(lines')
    <3>1. lines'[k] = r
      BY <1>1, <1>6, <2>1 DEF Fresh, Last
    <3>2. Fleet!Told(r, Len(lines')).id = r.id
      BY DEF Fleet!Told
    <3> QED BY <1>1, <1>4, <3>1, <3>2
  <2>2. CASE k # Len(lines')
    <3>1. k \in 1 .. Len(lines) /\ lines'[k] = lines[k]
      BY <1>5, <2>2
    <3> QED BY <1>1, <1>4, <3>1 DEF WrittenIsTold
  <2> QED BY <2>1, <2>2
<1>8. OneByOne'
  <2> SUFFICES ASSUME crowd' <= 1, deaths' = 0 PROVE OneByOne'
    BY DEF OneByOne
  <2>1. crowd <= 1 /\ deaths = 0
    BY <1>1, <1>3
  <2>2. \A o \in Scribes : fleetPc[o] # "idle" => o = s
    BY <1>3, <1>4, <2>1, TwoMakeACrowd DEF Fleet!Running
  <2>3. lines # <<>> /\ exists
    BY <1>3, <1>4, <2>1 DEF OneByOne
  <2>4. Len(lines') = Len(lines) + 1 /\ Len(lines) # 0 /\ lines'[Len(lines')] = r
    BY <1>4, <1>6, <2>1, <2>3 DEF Fresh, Last
  <2>5. lines'[1] = Fleet!Header
    BY <1>4, <1>5, <2>1, <2>3, <2>4 DEF OneByOne
  <2>6. ASSUME NEW k \in 2 .. Len(lines') PROVE lines'[k].id # Heading
    <3>1. CASE k = Len(lines')
      BY <1>4, <2>4, <3>1
    <3>2. CASE k # Len(lines')
      <4>1. k \in 2 .. Len(lines) /\ lines'[k] = lines[k]
        BY <1>5, <3>2
      <4> QED BY <1>4, <2>1, <4>1 DEF OneByOne
    <3> QED BY <3>1, <3>2
  <2> QED BY <1>1, <1>3, <1>5, <2>2, <2>3, <2>5, <2>6 DEF OneByOne
<1>9. Supersedes(r, lines, Len(lines), crowd)
  BY <1>3 DEF FleetInv
<1>10. Tally'
  BY <1>1, <1>4, ToldLine
<1> HIDE DEF r
<1> QED BY <1>1, <1>2, <1>4, <1>7, <1>8, <1>9, <1>10, LineStep

LEMMA DieWritingStep ==
  ASSUME FleetInv, NEW s \in Scribes, Fleet!DieWriting(s)
  PROVE  FleetInv'
<1> DEFINE l == IF fleetPc[s] = "heading" THEN Fleet!Header ELSE row[s]
<1>1. /\ fleetPc[s] \in {"heading", "appending"} /\ Fleet!Dies(s)
      /\ \E p \in Fleet!Pieces(l) \cup {l} : Fleet!Appends(p)
  BY DEF Fleet!DieWriting
<1>2. fleetPc[s] # "idle" /\ Fleet!Goes(s, fleetPc[s], "idle") /\ UNCHANGED <<exists, told>>
  BY <1>1 DEF Fleet!Dies
<1>3. "idle" \in FleetPcs
  BY DEF FleetPcs
<1>4. s \in Fleet!Running
  BY <1>2, <1>3, GoesOn
<1>5. exists \in BOOLEAN /\ row[s] \in FleetRows /\ Supersedes(row[s], lines, Len(lines), crowd)
  BY <1>4 DEF FleetInv, FleetTypes, Fleet!TypeOK
<1>6. l \in FleetRows /\ Supersedes(l, lines, Len(lines), crowd)
  BY <1>5, HeaderIsRow DEF Supersedes
<1> HIDE DEF l
<1>7. PICK p \in Fleet!Pieces(l) \cup {l} : Fleet!Appends(p)
  BY <1>1
<1>8. p \in FleetRows /\ Supersedes(p, lines, Len(lines), crowd)
  <2>1. CASE p = l
    BY <1>6, <2>1
  <2>2. CASE p \in Fleet!Pieces(l)
    BY <1>6, <2>2, PieceIsRow DEF Supersedes
  <2> QED BY <2>1, <2>2
<1>9. /\ deaths' \in 0 .. MaxDeaths /\ deaths' = deaths + 1 /\ deaths \in Nat
      /\ OneByOne' /\ WrittenIsTold'
  BY <1>1, DeathCounts
<1>10. Tally'
  <2>1. deaths' \in Nat /\ deaths' >= deaths + (IF p.ended THEN 0 ELSE 1)
    BY <1>9
  <2> QED BY <1>2, <1>7, <1>8, <2>1, UntoldLine
<1>11. told' = told /\ told' \subseteq told \cup {Fleet!Told(p, Len(lines'))} /\ exists' \in BOOLEAN
  BY <1>2, <1>5
<1> DEFINE from == fleetPc[s]
<1>12. from # "idle" /\ Fleet!Goes(s, from, "idle")
  BY <1>2
<1> HIDE DEF from
<1> QED BY <1>3, <1>7, <1>8, <1>9, <1>10, <1>11, <1>12, LineStep

LEMMA CommandStep ==
  ASSUME FleetInv, NEW s \in Scribes, NEW c \in Commissions,
         Fleet!Open(s, c) \/ \E col \in Columns : Fleet!Set(s, c, col)
  PROVE  FleetInv'
<1>1. CASE Fleet!Open(s, c)
  <2> DEFINE r == Fleet!Row(c, {}, 0)
  <2>1. /\ r \in FleetRows /\ r.id \in Commissions /\ r.cols = Width /\ r.ended
        /\ Supersedes(r, lines, Len(lines), 0)
    BY FleetAssumption DEF Fleet!Row, FleetRows, Supersedes
  <2>2. Fleet!Runs(s, r)
    BY <1>1 DEF Fleet!Open
  <2> HIDE DEF r
  <2> QED BY <2>1, <2>2, RunsStep
<1>2. ASSUME NEW col \in Columns, Fleet!Set(s, c, col) PROVE FleetInv'
  <2>1. PICK k \in Fleet!Latest(c) :
          LET from == IF lines[k].ended THEN k ELSE 0 IN
          \/ Fleet!Runs(s, Fleet!Row(c, lines[k].has \cup {col}, from))
          \/ Fleet!Runs(s, Fleet!Row(c, lines[k].has \ {col}, from))
    BY <1>2 DEF Fleet!Set
  <2>2. /\ k \in 2 .. Len(lines) /\ lines[k].id = c /\ lines[k].cols = Width
        /\ \A j \in 2 .. Len(lines) : lines[j].cols = Width /\ lines[j].id = c => j <= k
    BY DEF Fleet!Latest, Fleet!Rows
  <2>3. lines \in Seq(FleetRows) /\ lines[k] \in FleetRows /\ lines[k].has \subseteq Columns
        /\ k \in Nat \ {0} /\ Len(lines) \in Nat
    <3>1. lines \in Seq(FleetRows)
      BY DEF FleetInv, FleetTypes
    <3>2. lines[k] \in FleetRows
      BY <2>2, <3>1
    <3> QED BY <2>2, <3>1, <3>2 DEF FleetRows
  <2>4. \A j \in 1 .. Len(lines) : k < j /\ lines[j].cols = Width => lines[j].id # c
    BY <2>2, <2>3
  <2> DEFINE from == IF lines[k].ended THEN k ELSE 0
  <2>5. ASSUME NEW has \in {lines[k].has \cup {col}, lines[k].has \ {col}},
               Fleet!Runs(s, Fleet!Row(c, has, from))
        PROVE  FleetInv'
    <3> DEFINE r == Fleet!Row(c, has, from)
    <3>1. has \subseteq Columns /\ has \ {col} = lines[k].has \ {col}
      BY <2>3
    <3>2. /\ r \in FleetRows /\ r.id = c /\ r.has = has /\ r.from = from /\ r.cols = Width /\ r.ended
      BY <2>3, <3>1, FleetAssumption DEF Fleet!Row, FleetRows
    <3>3. Fleet!Runs(s, r)
      BY <2>5
    <3> HIDE DEF r
    <3>4. Supersedes(r, lines, Len(lines), 0)
      BY <2>2, <2>4, <3>1, <3>2 DEF Supersedes
    <3> QED BY <3>2, <3>3, <3>4, RunsStep
  <2> QED BY <2>1, <2>5
<1> QED BY <1>1, <1>2

THEOREM FleetInvariant == LedgersSpec => []FleetInv
<1>1. ASSUME FleetInv, [Fleet!Next]_fleetOnly PROVE FleetInv'
  <2>1. CASE Fleet!Next
    <3>1. PICK s \in Scribes :
            \/ \E c \in Commissions : Fleet!Open(s, c) \/ \E col \in Columns : Fleet!Set(s, c, col)
            \/ Fleet!Look(s) \/ Fleet!Create(s) \/ Fleet!WriteHeader(s)
            \/ Fleet!AppendRow(s) \/ Fleet!Die(s) \/ Fleet!DieWriting(s)
      BY <2>1 DEF Fleet!Next
    <3> QED BY <1>1, <3>1, CommandStep, EnsureStep, HeaderStep, AppendRowStep, DieWritingStep
  <2>2. CASE UNCHANGED fleetOnly
    <3>1. Fleet!Running' = Fleet!Running
      BY <2>2 DEF fleetOnly, Fleet!Running
    <3>2. FleetTypes'
      BY <1>1, <2>2, <3>1 DEF fleetOnly, FleetInv, FleetTypes, Fleet!TypeOK
    <3>3. Tally' /\ WrittenIsTold' /\ OneByOne'
      <4>1. UNCHANGED <<lines, told>> /\ deaths' \in Nat /\ deaths' >= deaths
        BY <1>1, <2>2, FleetAssumption DEF fleetOnly, FleetInv, FleetTypes, Fleet!TypeOK
      <4> QED BY <1>1, <2>2, <4>1, LedgerStands DEF fleetOnly, FleetInv, OneByOne
    <3> QED BY <1>1, <2>2, <3>1, <3>2, <3>3 DEF fleetOnly, FleetInv
  <2> QED BY <1>1, <2>1, <2>2
<1>2. FleetInv /\ [LedgersNext]_all => FleetInv'
  BY <1>1, StepsApart
<1> QED BY FleetInit, <1>2, PTL DEF LedgersSpec

LEMMA FleetKept == FleetInv => Fleet!TypeOK /\ Fleet!LedgerIsKept
<1> SUFFICES ASSUME FleetInv PROVE Fleet!TypeOK /\ Fleet!LedgerIsKept
  OBVIOUS
<1>1. Fleet!TypeOK /\ lines \in Seq(FleetRows)
  BY DEF FleetInv, FleetTypes
<1>2. Fleet!RowsAreRead
  <2> DEFINE First == {t \in told : t.line = 1}
  <2>1. Fleet!Unread \subseteq Strays \cup First
    BY DEF Fleet!Unread, Strays
  <2>2. IsFiniteSet(told) /\ IsFiniteSet(Strays) /\ ToldEnds /\ deaths \in Nat
    BY <1>1, FS_Subset, FleetAssumption DEF FleetInv, Tally, Strays, Fleet!TypeOK
  <2>3. Cardinality(Strays) \in Nat /\ Cardinality(Strays) <= deaths
    BY <2>2, FS_CardinalityType DEF FleetInv, Tally, Dangling
  <2>4. CASE First = {}
    <3>1. IsFiniteSet(Fleet!Unread) /\ Cardinality(Fleet!Unread) <= Cardinality(Strays)
          /\ Cardinality(Fleet!Unread) \in Nat
      BY <2>1, <2>2, <2>4, FS_Subset, FS_CardinalityType
    <3> QED BY <2>2, <2>3, <3>1, CountsAlike DEF Fleet!RowsAreRead
  <2>5. CASE First # {}
    <3>1. PICK t \in told : t.line = 1
      BY <2>5
    <3>2. First = {t}
      BY <2>2, <3>1 DEF ToldEnds
    <3>3. Fleet!Headless
      BY <1>1, <2>2, <3>1 DEF ToldEnds, Fleet!Headless
    <3>4. t \notin Strays
      BY <3>1 DEF Strays
    <3>5. IsFiniteSet(Strays \cup {t}) /\ Cardinality(Strays \cup {t}) = Cardinality(Strays) + 1
      BY <2>2, <3>4, OneMoreOrLess
    <3>6. Cardinality(Fleet!Unread) <= Cardinality(Strays) + 1 /\ Cardinality(Fleet!Unread) \in Nat
      BY <2>1, <3>2, <3>5, FS_Subset, FS_CardinalityType
    <3> QED BY <2>2, <2>3, <3>3, <3>6, CountsAlike DEF Fleet!RowsAreRead
  <2> QED BY <2>4, <2>5
<1>3. Fleet!HeaderIsFirst
  <2> SUFFICES ASSUME crowd <= 1, deaths = 0
               PROVE  /\ ~Fleet!Headless
                      /\ \A k \in Fleet!OpenRows : \E t \in told : t.id = lines[k].id
    BY DEF Fleet!HeaderIsFirst
  <2>1. ASSUME NEW k \in Fleet!OpenRows PROVE \E t \in told : t.id = lines[k].id
    <3>1. k \in 2 .. Len(lines) /\ k \in 1 .. Len(lines)
      BY <1>1 DEF Fleet!OpenRows, Fleet!Reported, Fleet!Rows
    <3> QED BY <3>1 DEF FleetInv, WrittenIsTold, OneByOne
  <2> QED BY <2>1 DEF FleetInv, OneByOne, Fleet!Headless
<1>4. Fleet!OneFieldChanges
  <2> SUFFICES ASSUME NEW k \in 2 .. Len(lines), lines[k].from # 0
               PROVE  LET old == lines[k].from IN
                      /\ old \in Fleet!Rows /\ old < k /\ lines[old].id = lines[k].id
                      /\ \E col \in Columns : lines[k].has \ {col} = lines[old].has \ {col}
                      /\ crowd <= 1 => \A j \in Fleet!Rows : old < j /\ j < k => lines[j].id # lines[k].id
    BY DEF Fleet!OneFieldChanges
  <2>1. Supersedes(lines[k], lines, k - 1, crowd)
    BY DEF FleetInv
  <2>2. Len(lines) \in Nat
    BY <1>1
  <2> QED BY <1>1, <2>1, <2>2 DEF Supersedes, Fleet!Rows
<1> QED BY <1>1, <1>2, <1>3, <1>4 DEF Fleet!LedgerIsKept

-----------------------------------------------------------------------------
(* The logs of authorisations.                                             *)

Ids == Auth!Relays \cup Auth!Directs
Marks(S) == UNION {[X -> Nat] : X \in SUBSET S}
Curs == Grants \cup {NoId}
Blocks == Auth!Relays \cup {NoId, Auth!Pending}
Spendings == SUBSET (Ids \X Nat)
Readings ==
  [cur : Curs, in : Blocks, n : Nat, scope : Marks(Grants), relays : SUBSET Auth!Relays,
   received : Marks(Auth!Relays), spends : Spendings]
Reading(cur, in, n, scope, relays, received, spends) ==
  [cur |-> cur, in |-> in, n |-> n, scope |-> scope, relays |-> relays,
   received |-> received, spends |-> spends]

LEMMA FieldsOfReading ==
  ASSUME NEW d \in Readings
  PROVE  /\ d.cur \in Curs /\ d.in \in Blocks /\ d.n \in Nat
         /\ d.scope \in Marks(Grants) /\ d.received \in Marks(Auth!Relays)
         /\ d.relays \in SUBSET Auth!Relays /\ d.spends \in Spendings
         /\ d = Reading(d.cur, d.in, d.n, d.scope, d.relays, d.received, d.spends)
BY DEF Readings, Reading

LEMMA ReadingMade ==
  ASSUME NEW cur \in Curs, NEW in \in Blocks, NEW n \in Nat, NEW scope \in Marks(Grants),
         NEW relays \in SUBSET Auth!Relays, NEW received \in Marks(Auth!Relays),
         NEW spends \in Spendings
  PROVE  Reading(cur, in, n, scope, relays, received, spends) \in Readings
BY DEF Readings, Reading

\* f with the value y at x.
Marked(f, x, y, g) ==
  /\ DOMAIN g = DOMAIN f \cup {x} /\ g[x] = y
  /\ \A z \in DOMAIN f : z # x => g[z] = f[z]

LEMMA MarkMade ==
  ASSUME NEW S, NEW f \in Marks(S), NEW x \in S, NEW y \in Nat
  PROVE  Auth!With(f, x, y) \in Marks(S) /\ Marked(f, x, y, Auth!With(f, x, y))
<1>1. PICK X \in SUBSET S : f \in [X -> Nat]
  BY DEF Marks
<1> DEFINE g == Auth!With(f, x, y)
<1>2. g = [z \in X \cup {x} |-> IF z = x THEN y ELSE f[z]]
  BY <1>1 DEF Auth!With
<1>3. g \in [X \cup {x} -> Nat] /\ X \cup {x} \in SUBSET S
  BY <1>1, <1>2
<1>4. g \in Marks(S)
  BY <1>3 DEF Marks
<1> QED BY <1>1, <1>2, <1>4 DEF Marked

\* What one line does to a reading.
LEMMA LineRead ==
  ASSUME NEW d \in Readings, NEW l, NEW new, new = Auth!ReadLine(d, l)
  PROVE
    /\ l.is = "head" =>
         new = Reading(NoId, Auth!Pending, d.n + 1, d.scope, d.relays, d.received, d.spends)
    /\ l.is = "grant" =>
         new = Reading(l.of, NoId, d.n + 1, Auth!With(d.scope, l.of, 1), d.relays, d.received, d.spends)
    /\ l.is = "heading" =>
         new = Reading(d.cur, NoId, d.n + 1, d.scope, d.relays, d.received, d.spends)
    /\ l.is = "scope" /\ d.cur # NoId =>
         new = Reading(d.cur, d.in, d.n + 1, Auth!With(d.scope, d.cur, l.of), d.relays, d.received, d.spends)
    /\ l.is = "relay" =>
         new = Reading(d.cur, d.in, d.n + 1, d.scope, d.relays \cup {l.of}, d.received, d.spends)
    /\ l.is = "id" /\ d.in # NoId =>
         new = Reading(d.cur, l.of, d.n + 1, d.scope, d.relays, Auth!With(d.received, l.of, 0), d.spends)
    /\ l.is = "source" /\ d.in = NoId =>
         new = Reading(d.cur, d.in, d.n + 1, d.scope, d.relays, d.received, d.spends)
    /\ l.is = "source" /\ d.in \notin {NoId, Auth!Pending} =>
         new = Reading(d.cur, d.in, d.n + 1, d.scope, d.relays, Auth!With(d.received, d.in, d.n + 1), d.spends)
    /\ l.is = "consumed" =>
         new = Reading(d.cur, d.in, d.n + 1, d.scope, d.relays, d.received, d.spends \cup {<<l.of, d.n + 1>>})
<1>1. ASSUME l.is = "head"
      PROVE  new = Reading(NoId, Auth!Pending, d.n + 1, d.scope, d.relays, d.received, d.spends)
  <2>1. new = [d EXCEPT !.n = d.n + 1, !.cur = NoId, !.in = Auth!Pending]
    BY <1>1 DEF Auth!ReadLine, Auth!Closed, Readings
  <2> QED BY <2>1 DEF Readings, Reading
<1>2. ASSUME l.is = "grant"
      PROVE  new = Reading(l.of, NoId, d.n + 1, Auth!With(d.scope, l.of, 1), d.relays, d.received, d.spends)
  <2>1. new = [d EXCEPT !.n = d.n + 1, !.cur = l.of, !.in = NoId, !.scope = Auth!With(d.scope, l.of, 1)]
    BY <1>2 DEF Auth!ReadLine, Auth!Closed, Readings
  <2> QED BY <2>1 DEF Readings, Reading
<1>3. ASSUME l.is = "heading"
      PROVE  new = Reading(d.cur, NoId, d.n + 1, d.scope, d.relays, d.received, d.spends)
  <2>1. new = [d EXCEPT !.n = d.n + 1, !.in = NoId]
    BY <1>3 DEF Auth!ReadLine, Auth!Closed, Readings
  <2> QED BY <2>1 DEF Readings, Reading
<1>4. ASSUME l.is = "scope", d.cur # NoId
      PROVE  new = Reading(d.cur, d.in, d.n + 1, Auth!With(d.scope, d.cur, l.of), d.relays, d.received, d.spends)
  <2>1. new = [d EXCEPT !.n = d.n + 1, !.scope = Auth!With(d.scope, d.cur, l.of)]
    BY <1>4 DEF Auth!ReadLine, Auth!Closed, Readings
  <2> QED BY <2>1 DEF Readings, Reading
<1>5. ASSUME l.is = "relay"
      PROVE  new = Reading(d.cur, d.in, d.n + 1, d.scope, d.relays \cup {l.of}, d.received, d.spends)
  <2>1. new = [d EXCEPT !.n = d.n + 1, !.relays = d.relays \cup {l.of}]
    BY <1>5 DEF Auth!ReadLine, Auth!Closed, Readings
  <2> QED BY <2>1 DEF Readings, Reading
<1>6. ASSUME l.is = "id", d.in # NoId
      PROVE  new = Reading(d.cur, l.of, d.n + 1, d.scope, d.relays, Auth!With(d.received, l.of, 0), d.spends)
  <2>1. new = [d EXCEPT !.n = d.n + 1, !.in = l.of, !.received = Auth!With(d.received, l.of, 0)]
    BY <1>6 DEF Auth!ReadLine, Auth!Closed, Readings
  <2> QED BY <2>1 DEF Readings, Reading
<1>7. ASSUME l.is = "source", d.in = NoId
      PROVE  new = Reading(d.cur, d.in, d.n + 1, d.scope, d.relays, d.received, d.spends)
  <2>1. new = [d EXCEPT !.n = d.n + 1]
    BY <1>7 DEF Auth!ReadLine, Auth!Closed, Readings
  <2> QED BY <2>1 DEF Readings, Reading
<1>8. ASSUME l.is = "source", d.in \notin {NoId, Auth!Pending}
      PROVE  new = Reading(d.cur, d.in, d.n + 1, d.scope, d.relays, Auth!With(d.received, d.in, d.n + 1), d.spends)
  <2>1. new = [d EXCEPT !.n = d.n + 1, !.received = Auth!With(d.received, d.in, d.n + 1)]
    BY <1>8 DEF Auth!ReadLine, Auth!Closed, Readings
  <2> QED BY <2>1 DEF Readings, Reading
<1>9. ASSUME l.is = "consumed"
      PROVE  new = Reading(d.cur, d.in, d.n + 1, d.scope, d.relays, d.received, d.spends \cup {<<l.of, d.n + 1>>})
  <2>1. new = [d EXCEPT !.n = d.n + 1, !.spends = d.spends \cup {<<l.of, d.n + 1>>}]
    BY <1>9 DEF Auth!ReadLine, Auth!Closed, Readings
  <2> QED BY <2>1 DEF Readings, Reading
<1> QED BY <1>1, <1>2, <1>3, <1>4, <1>5, <1>6, <1>7, <1>8, <1>9
LEMMA ReadingHas ==
  ASSUME NEW cur, NEW in, NEW n, NEW scope, NEW relays, NEW received, NEW spends,
         NEW d, d = Reading(cur, in, n, scope, relays, received, spends)
  PROVE  /\ d.cur = cur /\ d.in = in /\ d.n = n /\ d.scope = scope /\ d.relays = relays
         /\ d.received = received /\ d.spends = spends
BY DEF Reading

\* The same, of the lines of an event.
GrantsRead(d, e, new) ==
  /\ new \in Readings /\ new.n = d.n + 2
  /\ new.relays = d.relays /\ new.received = d.received /\ new.spends = d.spends
  /\ Marked(d.scope, e.of, e.scope, new.scope)
LEMMA GrantRead ==
  ASSUME NEW d \in Readings, NEW e \in Auth!Events, e.is = "grant",
         NEW new, new = Auth!ReadEvent(d, e)
  PROVE  GrantsRead(d, e, new)
<1>1. e.of \in Grants /\ e.scope \in Nat /\ e.of # NoId /\ 1 \in Nat
  BY AuthAssumption DEF Auth!Events
<1>2. PICK k, l : k = Auth!Line("grant", e.of) /\ l = Auth!Line("scope", e.scope)
  OBVIOUS
<1>3. k.is = "grant" /\ k.of = e.of /\ l.is = "scope" /\ l.of = e.scope
  BY <1>2 DEF Auth!Line
<1>4. PICK mid : mid = Auth!ReadLine(d, k)
  OBVIOUS
<1>5. new = Auth!ReadLine(mid, l)
  BY <1>2, <1>4 DEF Auth!ReadEvent
<1>6. PICK s : s = Auth!With(d.scope, e.of, 1)
  OBVIOUS
<1>7. s \in Marks(Grants) /\ Marked(d.scope, e.of, 1, s)
  BY <1>1, <1>6, MarkMade, FieldsOfReading
<1>8. mid = Reading(e.of, NoId, d.n + 1, s, d.relays, d.received, d.spends)
  BY <1>3, <1>4, <1>6, LineRead
<1>9. /\ mid.cur = e.of /\ mid.n = d.n + 1 /\ mid.scope = s
      /\ mid.relays = d.relays /\ mid.received = d.received /\ mid.spends = d.spends
  BY <1>8, ReadingHas
<1>10. mid \in Readings
  <2>1. e.of \in Curs /\ NoId \in Blocks /\ d.n + 1 \in Nat
    BY <1>1, FieldsOfReading DEF Curs, Blocks
  <2> QED BY <1>7, <1>8, <2>1, FieldsOfReading, ReadingMade
<1>11. PICK t : t = Auth!With(s, e.of, e.scope)
  OBVIOUS
<1>12. t \in Marks(Grants) /\ Marked(s, e.of, e.scope, t)
  BY <1>1, <1>7, <1>11, MarkMade
<1>13. new = Reading(mid.cur, mid.in, mid.n + 1, t, mid.relays, mid.received, mid.spends)
  BY <1>1, <1>3, <1>5, <1>9, <1>10, <1>11, LineRead
<1>14. /\ new.n = mid.n + 1 /\ new.scope = t
       /\ new.relays = d.relays /\ new.received = d.received /\ new.spends = d.spends
  BY <1>9, <1>13, ReadingHas
<1>15. new \in Readings
  <2>1. mid.n + 1 \in Nat
    BY <1>10, FieldsOfReading
  <2> QED BY <1>10, <1>12, <1>13, <2>1, FieldsOfReading, ReadingMade
<1>16. new.n = d.n + 2
  BY <1>9, <1>14, FieldsOfReading
<1>17. Marked(d.scope, e.of, e.scope, t)
  BY <1>7, <1>12 DEF Marked
<1> QED BY <1>14, <1>15, <1>16, <1>17 DEF GrantsRead

RelaysRead(d, e, new) ==
  /\ new \in Readings /\ new.n = d.n + 1 /\ new.relays = d.relays \cup {e.of}
  /\ new.scope = d.scope /\ new.received = d.received /\ new.spends = d.spends
LEMMA RelayRead ==
  ASSUME NEW d \in Readings, NEW e \in Auth!Events, e.is = "relay",
         NEW new, new = Auth!ReadEvent(d, e)
  PROVE  RelaysRead(d, e, new)
<1>1. e.of \in Auth!Relays
  BY DEF Auth!Events
<1>2. PICK l : l = Auth!Line("relay", e.of)
  OBVIOUS
<1>3. l.is = "relay" /\ l.of = e.of
  BY <1>2 DEF Auth!Line
<1>4. new = Auth!ReadLine(d, l)
  BY <1>2 DEF Auth!ReadEvent
<1>5. PICK p : p = d.relays \cup {e.of}
  OBVIOUS
<1>6. new = Reading(d.cur, d.in, d.n + 1, d.scope, p, d.received, d.spends)
  BY <1>3, <1>4, <1>5, LineRead
<1>7. new \in Readings
  <2>1. d.n + 1 \in Nat /\ p \in SUBSET Auth!Relays
    BY <1>1, <1>5, FieldsOfReading
  <2> QED BY <1>6, <2>1, FieldsOfReading, ReadingMade
<1> QED BY <1>5, <1>6, <1>7, ReadingHas DEF RelaysRead

SpendsRead(d, e, new) ==
  /\ new \in Readings /\ new.n = d.n + 1 /\ new.spends = d.spends \cup {<<e.of, d.n + 1>>}
  /\ new.scope = d.scope /\ new.received = d.received /\ new.relays = d.relays
LEMMA SpendRead ==
  ASSUME NEW d \in Readings, NEW e \in Auth!Events, e.is = "consumed",
         NEW new, new = Auth!ReadEvent(d, e)
  PROVE  SpendsRead(d, e, new)
<1>1. e.of \in Ids
  BY DEF Auth!Events, Ids
<1>2. PICK l : l = Auth!Line("consumed", e.of)
  OBVIOUS
<1>3. l.is = "consumed" /\ l.of = e.of
  BY <1>2 DEF Auth!Line
<1>4. new = Auth!ReadLine(d, l)
  BY <1>2 DEF Auth!ReadEvent
<1>5. PICK t : t = d.spends \cup {<<e.of, d.n + 1>>}
  OBVIOUS
<1>6. new = Reading(d.cur, d.in, d.n + 1, d.scope, d.relays, d.received, t)
  BY <1>3, <1>4, <1>5, LineRead
<1>7. new \in Readings
  <2>1. d.n + 1 \in Nat /\ d.spends \in SUBSET (Ids \X Nat)
    BY FieldsOfReading DEF Spendings
  <2>2. t \in Spendings
    BY <1>1, <1>5, <2>1 DEF Spendings
  <2> QED BY <1>6, <2>1, <2>2, FieldsOfReading, ReadingMade
<1> QED BY <1>5, <1>6, <1>7, ReadingHas DEF SpendsRead

StrayRead(d, new) ==
  /\ new \in Readings /\ new.n = d.n + 2 /\ new.spends = d.spends
  /\ new.scope = d.scope /\ new.received = d.received /\ new.relays = d.relays
LEMMA StraysRead ==
  ASSUME NEW d \in Readings, NEW e \in Auth!Events, e.is = "stray",
         NEW new, new = Auth!ReadEvent(d, e)
  PROVE  StrayRead(d, new)
<1>1. PICK k, l : k = Auth!Line("heading", NoId) /\ l = Auth!Line("source", NoId)
  OBVIOUS
<1>2. k.is = "heading" /\ l.is = "source"
  BY <1>1 DEF Auth!Line
<1>3. PICK mid : mid = Auth!ReadLine(d, k)
  OBVIOUS
<1>4. new = Auth!ReadLine(mid, l)
  BY <1>1, <1>3 DEF Auth!ReadEvent
<1>5. mid = Reading(d.cur, NoId, d.n + 1, d.scope, d.relays, d.received, d.spends)
  BY <1>2, <1>3, LineRead
<1>6. /\ mid.n = d.n + 1 /\ mid.in = NoId /\ mid.spends = d.spends
      /\ mid.scope = d.scope /\ mid.received = d.received /\ mid.relays = d.relays
  BY <1>5, ReadingHas
<1>7. mid \in Readings
  <2>1. d.n + 1 \in Nat /\ NoId \in Blocks
    BY FieldsOfReading DEF Blocks
  <2> QED BY <1>5, <2>1, FieldsOfReading, ReadingMade
<1>8. new = Reading(mid.cur, mid.in, mid.n + 1, mid.scope, mid.relays, mid.received, mid.spends)
  BY <1>2, <1>4, <1>6, <1>7, LineRead
<1>9. /\ new.n = mid.n + 1 /\ new.spends = d.spends
      /\ new.scope = d.scope /\ new.received = d.received /\ new.relays = d.relays
  BY <1>6, <1>8, ReadingHas
<1>10. new \in Readings
  <2>1. mid.n + 1 \in Nat
    BY <1>7, FieldsOfReading
  <2> QED BY <1>7, <1>8, <2>1, FieldsOfReading, ReadingMade
<1>11. new.n = d.n + 2
  BY <1>6, <1>9, FieldsOfReading
<1> QED BY <1>9, <1>10, <1>11 DEF StrayRead

\* A record of a relay, with its source: and without.
BlockRead(d, id, new) ==
  /\ new \in Readings /\ new.n = d.n + 2 /\ new.in = id
  /\ new.scope = d.scope /\ new.spends = d.spends /\ new.relays = d.relays
  /\ Marked(d.received, id, 0, new.received)
LEMMA BlocksRead ==
  ASSUME NEW d \in Readings, NEW id \in Auth!Relays, NEW new,
         new = Auth!ReadLine(Auth!ReadLine(d, Auth!Line("head", NoId)), Auth!Line("id", id))
  PROVE  BlockRead(d, id, new)
<1>1. PICK k, l : k = Auth!Line("head", NoId) /\ l = Auth!Line("id", id)
  OBVIOUS
<1>2. k.is = "head" /\ l.is = "id" /\ l.of = id
  BY <1>1 DEF Auth!Line
<1>3. PICK mid : mid = Auth!ReadLine(d, k)
  OBVIOUS
<1>4. new = Auth!ReadLine(mid, l)
  BY <1>1, <1>3
<1>5. mid = Reading(NoId, Auth!Pending, d.n + 1, d.scope, d.relays, d.received, d.spends)
  BY <1>2, <1>3, LineRead
<1>6. /\ mid.n = d.n + 1 /\ mid.in = Auth!Pending /\ mid.spends = d.spends
      /\ mid.scope = d.scope /\ mid.received = d.received /\ mid.relays = d.relays
  BY <1>5, ReadingHas
<1>7. mid \in Readings
  <2>1. d.n + 1 \in Nat /\ NoId \in Curs /\ Auth!Pending \in Blocks
    BY FieldsOfReading DEF Blocks, Curs
  <2> QED BY <1>5, <2>1, FieldsOfReading, ReadingMade
<1>8. Auth!Pending # NoId
  BY AuthAssumption DEF Auth!Pending
<1>9. PICK t : t = Auth!With(mid.received, id, 0)
  OBVIOUS
<1>10. t \in Marks(Auth!Relays) /\ Marked(mid.received, id, 0, t)
  <2>1. 0 \in Nat /\ mid.received \in Marks(Auth!Relays)
    BY <1>7, FieldsOfReading
  <2> QED BY <1>9, <2>1, MarkMade
<1>11. new = Reading(mid.cur, id, mid.n + 1, mid.scope, mid.relays, t, mid.spends)
  BY <1>2, <1>4, <1>6, <1>7, <1>8, <1>9, LineRead
<1>12. new \in Readings
  <2>1. mid.n + 1 \in Nat /\ id \in Blocks
    BY <1>7, FieldsOfReading DEF Blocks
  <2> QED BY <1>7, <1>10, <1>11, <2>1, FieldsOfReading, ReadingMade
<1>13. /\ new.n = mid.n + 1 /\ new.in = id /\ new.spends = d.spends
       /\ new.scope = d.scope /\ new.received = t /\ new.relays = d.relays
  BY <1>6, <1>11, ReadingHas
<1>14. new.n = d.n + 2
  BY <1>6, <1>13, FieldsOfReading
<1> QED BY <1>6, <1>10, <1>12, <1>13, <1>14 DEF BlockRead

RecordsRead(d, e, new) ==
  /\ new \in Readings /\ new.n \in {d.n + 2, d.n + 3}
  /\ new.scope = d.scope /\ new.spends = d.spends /\ new.relays = d.relays
  /\ IF e.is = "received" THEN new.n = d.n + 3 /\ Marked(d.received, e.of, d.n + 3, new.received)
     ELSE Marked(d.received, e.of, 0, new.received)
LEMMA RecordRead ==
  ASSUME NEW d \in Readings, NEW e \in Auth!Events, e.is \in {"received", "unsourced"},
         NEW new, new = Auth!ReadEvent(d, e)
  PROVE  RecordsRead(d, e, new)
<1>1. e.of \in Auth!Relays /\ d.n \in Nat
  BY FieldsOfReading DEF Auth!Events
<1>2. PICK mid : mid = Auth!ReadLine(Auth!ReadLine(d, Auth!Line("head", NoId)), Auth!Line("id", e.of))
  OBVIOUS
<1>3. BlockRead(d, e.of, mid)
  BY <1>1, <1>2, BlocksRead
<1>4. CASE e.is = "unsourced"
  <2>1. new = mid
    BY <1>2, <1>4 DEF Auth!ReadEvent
  <2> QED BY <1>3, <1>4, <2>1 DEF BlockRead, RecordsRead
<1>5. CASE e.is = "received"
  <2>1. PICK l : l = Auth!Line("source", NoId)
    OBVIOUS
  <2>2. l.is = "source"
    BY <2>1 DEF Auth!Line
  <2>3. new = Auth!ReadLine(mid, l)
    BY <1>2, <1>5, <2>1 DEF Auth!ReadEvent
  <2>4. mid.in \notin {NoId, Auth!Pending}
    BY <1>1, <1>3, AuthAssumption DEF BlockRead, Auth!Relays, Auth!Pending
  <2>5. mid \in Readings
    BY <1>3 DEF BlockRead
  <2>6. PICK t : t = Auth!With(mid.received, mid.in, mid.n + 1)
    OBVIOUS
  <2>7. new = Reading(mid.cur, mid.in, mid.n + 1, mid.scope, mid.relays, t, mid.spends)
    BY <2>2, <2>3, <2>4, <2>5, <2>6, LineRead
  <2>8. mid.n + 1 \in Nat /\ mid.received \in Marks(Auth!Relays)
    BY <2>5, FieldsOfReading
  <2>9. mid.in = e.of /\ mid.n + 1 = d.n + 3
    BY <1>1, <1>3 DEF BlockRead
  <2>10. t \in Marks(Auth!Relays) /\ Marked(mid.received, e.of, d.n + 3, t)
    BY <1>1, <2>6, <2>8, <2>9, MarkMade
  <2>11. Marked(d.received, e.of, d.n + 3, t)
    BY <1>3, <2>10 DEF BlockRead, Marked
  <2>12. new \in Readings
    BY <2>5, <2>7, <2>8, <2>10, FieldsOfReading, ReadingMade
  <2>13. /\ new.n = mid.n + 1 /\ new.spends = mid.spends
         /\ new.scope = mid.scope /\ new.received = t /\ new.relays = mid.relays
    BY <2>7, ReadingHas
  <2> QED BY <1>3, <1>5, <2>9, <2>11, <2>12, <2>13 DEF BlockRead, RecordsRead
<1> QED BY <1>4, <1>5

\* What a reading d is of a log E: which relays it names, which spends it has
\* and at which lines, which records, and the scope each grant has last.
Kind(E, u, is, of) == E[u].is = is /\ E[u].of = of
Relayed(E, d) ==
  /\ \A u \in DOMAIN E : E[u].is = "relay" => E[u].of \in d.relays
  /\ \A x \in d.relays : \E u \in DOMAIN E : Kind(E, u, "relay", x)
Sourced(E, d) ==
  \A x \in DOMAIN d.received : d.received[x] # 0 => \E u \in DOMAIN E : Kind(E, u, "received", x)
RecordBefore(E, u, x) == \E j \in DOMAIN E : j < u /\ Kind(E, j, "received", x)
SpentAt(E, d, u, n) ==
  /\ <<E[u].of, n>> \in d.spends
  /\ \A x \in DOMAIN d.received :
       x = E[u].of /\ d.received[x] # 0 /\ n >= d.received[x] => RecordBefore(E, u, x)
Spending(E, d) ==
  /\ \A s \in d.spends : s[2] <= d.n /\ \E u \in DOMAIN E : Kind(E, u, "consumed", s[1])
  /\ \A u \in DOMAIN E : E[u].is = "consumed" => \E n \in Nat : SpentAt(E, d, u, n)
SpentTwice(E, d) ==
  \A u, j \in DOMAIN E :
    u < j /\ E[u].is = "consumed" /\ Kind(E, j, "consumed", E[u].of) =>
      \E n, m \in Nat : n # m /\ <<E[u].of, n>> \in d.spends /\ <<E[u].of, m>> \in d.spends
LastGrant(E, u) ==
  E[u].is = "grant" /\ \A j \in DOMAIN E : j > u => ~Kind(E, j, "grant", E[u].of)
Scoped(E, d) ==
  \A u \in DOMAIN E : LastGrant(E, u) =>
    E[u].of \in DOMAIN d.scope /\ d.scope[E[u].of] = E[u].scope
LogRead(E, d) ==
  /\ E \in Seq(Auth!Events) /\ d \in Readings /\ d.n \in Len(E) .. 3 * Len(E)
  /\ Relayed(E, d) /\ Sourced(E, d) /\ Spending(E, d) /\ SpentTwice(E, d) /\ Scoped(E, d)

\* A log with one event more.
Longer(E, e, F) ==
  /\ Len(F) = Len(E) + 1 /\ DOMAIN E = 1 .. Len(E) /\ DOMAIN F = 1 .. Len(E) + 1
  /\ F[Len(E) + 1] = e /\ \A u \in DOMAIN E : F[u] = E[u]
  /\ Len(E) \in Nat
LEMMA LogGrows ==
  ASSUME NEW E \in Seq(Auth!Events), NEW e \in Auth!Events
  PROVE  Append(E, e) \in Seq(Auth!Events) /\ Longer(E, e, Append(E, e))
BY DEF Longer

LEMMA RelayedStays ==
  ASSUME NEW E, NEW d, NEW e, NEW F, NEW new, Longer(E, e, F), Relayed(E, d),
         \/ e.is # "relay" /\ new.relays = d.relays
         \/ e.is = "relay" /\ new.relays = d.relays \cup {e.of}
  PROVE  Relayed(F, new)
<1>1. \A u \in DOMAIN F : u \in DOMAIN E \/ (u = Len(E) + 1 /\ F[u] = e)
  BY DEF Longer
<1>2. DOMAIN E \subseteq DOMAIN F /\ Len(E) + 1 \in DOMAIN F
  BY DEF Longer
<1> QED BY <1>1, <1>2 DEF Relayed, Longer, Kind

LEMMA SourcedStays ==
  ASSUME NEW E, NEW d, NEW e, NEW F, NEW new, Longer(E, e, F), Sourced(E, d),
         \/ new.received = d.received
         \/ Marked(d.received, e.of, 0, new.received)
         \/ e.is = "received" /\ \E y : Marked(d.received, e.of, y, new.received)
  PROVE  Sourced(F, new)
<1>1. DOMAIN E \subseteq DOMAIN F /\ Len(E) + 1 \in DOMAIN F
  BY DEF Longer
<1> QED BY <1>1 DEF Sourced, Longer, Kind, Marked

LEMMA TwiceStays ==
  ASSUME NEW E, NEW d, NEW e, NEW F, NEW new, Longer(E, e, F), d.n \in Nat,
         Spending(E, d), SpentTwice(E, d),
         \/ e.is # "consumed" /\ new.spends = d.spends
         \/ e.is = "consumed" /\ new.spends = d.spends \cup {<<e.of, d.n + 1>>}
  PROVE  SpentTwice(F, new)
<1> SUFFICES ASSUME NEW u \in DOMAIN F, NEW j \in DOMAIN F,
                    u < j, F[u].is = "consumed", Kind(F, j, "consumed", F[u].of)
             PROVE  \E n, m \in Nat : /\ n # m /\ <<F[u].of, n>> \in new.spends
                                      /\ <<F[u].of, m>> \in new.spends
  BY DEF SpentTwice
<1>1. u \in DOMAIN E /\ F[u] = E[u]
  BY DEF Longer
<1>2. CASE j \in DOMAIN E
  BY <1>1, <1>2 DEF Longer, SpentTwice, Kind
<1>3. CASE j \notin DOMAIN E
  <2>1. e.is = "consumed" /\ e.of = E[u].of
    BY <1>1, <1>3 DEF Longer, Kind
  <2>2. PICK n \in Nat : <<E[u].of, n>> \in d.spends
    BY <1>1 DEF Spending, SpentAt
  <2>3. n <= d.n
    BY <2>2 DEF Spending
  <2>4. n # d.n + 1 /\ d.n + 1 \in Nat
    BY <2>3
  <2> QED BY <1>1, <2>1, <2>2, <2>4
<1> QED BY <1>2, <1>3

LEMMA ScopedStays ==
  ASSUME NEW E, NEW d, NEW e, NEW F, NEW new, Longer(E, e, F), Scoped(E, d),
         \/ e.is # "grant" /\ new.scope = d.scope
         \/ e.is = "grant" /\ Marked(d.scope, e.of, e.scope, new.scope)
  PROVE  Scoped(F, new)
<1> SUFFICES ASSUME NEW u \in DOMAIN F, LastGrant(F, u)
             PROVE  F[u].of \in DOMAIN new.scope /\ new.scope[F[u].of] = F[u].scope
  BY DEF Scoped
<1>1. CASE u = Len(E) + 1
  BY <1>1 DEF Longer, LastGrant, Marked
<1>2. CASE u \in DOMAIN E
  <2>1. Len(E) + 1 \in DOMAIN F /\ Len(E) + 1 > u /\ DOMAIN E \subseteq DOMAIN F
    BY <1>2 DEF Longer
  <2>2. F[u] = E[u] /\ LastGrant(E, u)
    BY <1>2, <2>1 DEF Longer, LastGrant, Kind
  <2>3. ~Kind(F, Len(E) + 1, "grant", E[u].of)
    BY <2>1, <2>2 DEF LastGrant
  <2>4. e.is = "grant" => e.of # E[u].of
    BY <2>3 DEF Kind, Longer
  <2> QED BY <1>2, <2>2, <2>4 DEF Scoped, Marked
<1> QED BY <1>1, <1>2 DEF Longer

LEMMA SpendingStays ==
  ASSUME NEW E, NEW d, NEW e, NEW F, NEW new, Longer(E, e, F), d.n \in Nat, new.n \in Nat,
         d.n < new.n, Spending(E, d), Sourced(E, d),
         \/ e.is = "consumed" /\ new.spends = d.spends \cup {<<e.of, d.n + 1>>} /\ new.received = d.received
         \/ e.is # "consumed" /\ new.spends = d.spends /\ new.received = d.received
         \/ /\ e.is # "consumed" /\ new.spends = d.spends
            /\ \E y \in {0, d.n + 3} : Marked(d.received, e.of, y, new.received)
         , \A s \in d.spends : s[2] \in Nat
  PROVE  Spending(F, new)
<1>1. DOMAIN E \subseteq DOMAIN F /\ Len(E) + 1 \in DOMAIN F
  BY DEF Longer
<1>2. ASSUME NEW s \in new.spends
      PROVE  s[2] <= new.n /\ \E u \in DOMAIN F : Kind(F, u, "consumed", s[1])
  <2>1. CASE s \in d.spends
    <3>1. s[2] <= d.n /\ s[2] \in Nat /\ \E u \in DOMAIN E : Kind(E, u, "consumed", s[1])
      BY <2>1 DEF Spending
    <3>2. s[2] <= new.n
      BY <3>1
    <3> QED BY <1>1, <3>1, <3>2 DEF Longer, Kind
  <2>2. CASE e.is = "consumed" /\ s = <<e.of, d.n + 1>>
    <3>1. s[1] = e.of /\ s[2] = d.n + 1
      BY <2>2
    <3>2. d.n + 1 <= new.n
      OBVIOUS
    <3>3. Kind(F, Len(E) + 1, "consumed", s[1])
      BY <2>2, <3>1 DEF Longer, Kind
    <3> QED BY <1>1, <3>1, <3>2, <3>3
  <2> QED BY <2>1, <2>2
<1>3. ASSUME NEW u \in DOMAIN F, F[u].is = "consumed"
      PROVE  \E n \in Nat : SpentAt(F, new, u, n)
  <2>1. CASE u \in DOMAIN E
    <3>1. F[u] = E[u]
      BY <2>1 DEF Longer
    <3>2. PICK n \in Nat : SpentAt(E, d, u, n)
      BY <1>3, <2>1, <3>1 DEF Spending
    <3>3. <<E[u].of, n>> \in d.spends /\ n <= d.n
      BY <3>2 DEF SpentAt, Spending
    <3>4. ASSUME NEW x \in DOMAIN new.received, x = F[u].of, new.received[x] # 0, n >= new.received[x]
          PROVE  RecordBefore(F, u, x)
      <4>1. x \in DOMAIN d.received /\ new.received[x] = d.received[x]
        <5>1. CASE new.received = d.received
          BY <5>1
        <5>2. ASSUME NEW y \in {0, d.n + 3}, Marked(d.received, e.of, y, new.received)
              PROVE  x \in DOMAIN d.received /\ new.received[x] = d.received[x]
          <6>1. ~(n >= d.n + 3)
            BY <3>3
          <6>2. x # e.of
            BY <3>4, <5>2, <6>1 DEF Marked
          <6> QED BY <5>2, <6>2 DEF Marked
        <5> QED BY <5>1, <5>2
      <4>2. RecordBefore(E, u, x)
        BY <3>1, <3>2, <3>4, <4>1 DEF SpentAt
      <4> QED BY <1>1, <4>2 DEF RecordBefore, Longer, Kind
    <3>5. <<F[u].of, n>> \in new.spends
      BY <3>1, <3>3
    <3>6. SpentAt(F, new, u, n)
      BY <3>4, <3>5 DEF SpentAt
    <3> QED BY <3>6
  <2>2. CASE u = Len(E) + 1
    <3>1. F[u] = e
      BY <2>2 DEF Longer
    <3>2. new.received = d.received /\ <<e.of, d.n + 1>> \in new.spends
      BY <1>3, <3>1
    <3>3. ASSUME NEW x \in DOMAIN new.received, new.received[x] # 0
          PROVE  RecordBefore(F, u, x)
      <4>1. PICK j \in DOMAIN E : Kind(E, j, "received", x)
        BY <3>2, <3>3 DEF Sourced
      <4>2. j < u /\ F[j] = E[j]
        BY <2>2 DEF Longer
      <4> QED BY <1>1, <4>1, <4>2 DEF RecordBefore, Kind
    <3>4. SpentAt(F, new, u, d.n + 1)
      BY <3>1, <3>2, <3>3 DEF SpentAt
    <3> QED BY <3>4
  <2> QED BY <2>1, <2>2 DEF Longer
<1> QED BY <1>2, <1>3 DEF Spending

LEMMA LogReadOn ==
  ASSUME NEW E, NEW d, LogRead(E, d), NEW e \in Auth!Events
  PROVE  LogRead(Append(E, e), Auth!ReadEvent(d, e))
<1>1. PICK F, new : F = Append(E, e) /\ new = Auth!ReadEvent(d, e)
  OBVIOUS
<1>2. E \in Seq(Auth!Events) /\ d \in Readings /\ d.n \in Len(E) .. 3 * Len(E)
  BY DEF LogRead
<1>3. F \in Seq(Auth!Events) /\ Longer(E, e, F)
  BY <1>1, <1>2, LogGrows
<1>4. Relayed(E, d) /\ Sourced(E, d) /\ Spending(E, d) /\ SpentTwice(E, d) /\ Scoped(E, d)
  BY DEF LogRead
<1>5. d.n \in Nat /\ \A s \in d.spends : s[2] \in Nat
  BY <1>2, FieldsOfReading DEF Spendings
<1>6. /\ e.is = "grant" => GrantsRead(d, e, new)
      /\ e.is = "relay" => RelaysRead(d, e, new)
      /\ e.is = "consumed" => SpendsRead(d, e, new)
      /\ e.is = "stray" => StrayRead(d, new)
      /\ e.is \in {"received", "unsourced"} => RecordsRead(d, e, new)
  BY <1>1, <1>2, GrantRead, RelayRead, SpendRead, StraysRead, RecordRead
<1>7. e.is \in {"grant", "relay", "consumed", "stray", "received", "unsourced"}
  BY DEF Auth!Events
<1>8. new \in Readings /\ new.n \in {d.n + 1, d.n + 2, d.n + 3}
  BY <1>6, <1>7 DEF GrantsRead, RelaysRead, SpendsRead, StrayRead, RecordsRead
<1>9. new.n \in Len(F) .. 3 * Len(F) /\ new.n \in Nat /\ d.n < new.n
  <2>1. Len(E) \in Nat /\ Len(F) = Len(E) + 1
    BY <1>3 DEF Longer
  <2> QED BY <1>2, <1>5, <1>8, <2>1
<1>10. Relayed(F, new)
  <2>1. \/ e.is # "relay" /\ new.relays = d.relays
        \/ e.is = "relay" /\ new.relays = d.relays \cup {e.of}
    BY <1>6, <1>7 DEF GrantsRead, RelaysRead, SpendsRead, StrayRead, RecordsRead
  <2> QED BY <1>3, <1>4, <2>1, RelayedStays
<1>11. Sourced(F, new)
  <2>1. \/ new.received = d.received
        \/ Marked(d.received, e.of, 0, new.received)
        \/ e.is = "received" /\ \E y : Marked(d.received, e.of, y, new.received)
    BY <1>6, <1>7 DEF GrantsRead, RelaysRead, SpendsRead, StrayRead, RecordsRead
  <2> QED BY <1>3, <1>4, <2>1, SourcedStays
<1>12. /\ \/ e.is # "consumed" /\ new.spends = d.spends
          \/ e.is = "consumed" /\ new.spends = d.spends \cup {<<e.of, d.n + 1>>}
       /\ e.is = "consumed" => new.received = d.received
       /\ \/ new.received = d.received
          \/ \E y \in {0, d.n + 3} : Marked(d.received, e.of, y, new.received)
  BY <1>6, <1>7 DEF GrantsRead, RelaysRead, SpendsRead, StrayRead, RecordsRead
<1>13. SpentTwice(F, new)
  BY <1>3, <1>4, <1>5, <1>12, TwiceStays
<1>14. Spending(F, new)
  BY <1>3, <1>4, <1>5, <1>9, <1>12, SpendingStays
<1>15. Scoped(F, new)
  <2>1. \/ e.is # "grant" /\ new.scope = d.scope
        \/ e.is = "grant" /\ Marked(d.scope, e.of, e.scope, new.scope)
    BY <1>6, <1>7 DEF GrantsRead, RelaysRead, SpendsRead, StrayRead, RecordsRead
  <2> QED BY <1>3, <1>4, <2>1, ScopedStays
<1> QED BY <1>1, <1>3, <1>8, <1>9, <1>10, <1>11, <1>13, <1>14, <1>15 DEF LogRead

\* Every log is read as LogRead says.
AuthInv ==
  /\ events \in [Roles -> Seq(Auth!Events)] /\ DOMAIN reading = Roles
  /\ \A r \in Roles : LogRead(events[r], reading[r])

LEMMA NothingRead == LogRead(<<>>, Auth!Unread)
<1>1. Auth!Unread = Reading(NoId, NoId, 0, <<>>, {}, <<>>, {})
  BY DEF Auth!Unread, Reading
<1>2. <<>> \in Marks(Grants) /\ <<>> \in Marks(Auth!Relays)
  <2>1. <<>> \in [{} -> Nat]
    OBVIOUS
  <2> QED BY <2>1 DEF Marks
<1>3. Auth!Unread \in Readings
  <2>1. NoId \in Curs /\ NoId \in Blocks /\ 0 \in Nat /\ {} \in Spendings /\ {} \in SUBSET Auth!Relays
    BY DEF Curs, Blocks, Spendings
  <2> QED BY <1>1, <1>2, <2>1, ReadingMade
<1>4. /\ Auth!Unread.n = 0 /\ Auth!Unread.relays = {} /\ Auth!Unread.received = <<>>
      /\ Auth!Unread.spends = {}
  BY <1>1, ReadingHas
<1>5. <<>> \in Seq(Auth!Events) /\ Len(<<>>) = 0 /\ DOMAIN <<>> = {}
  OBVIOUS
<1>6. Relayed(<<>>, Auth!Unread) /\ Sourced(<<>>, Auth!Unread) /\ Spending(<<>>, Auth!Unread)
  BY <1>4, <1>5 DEF Relayed, Sourced, Spending
<1>7. SpentTwice(<<>>, Auth!Unread) /\ Scoped(<<>>, Auth!Unread)
  BY <1>5 DEF SpentTwice, Scoped
<1>8. Auth!Unread.n \in Len(<<>>) .. 3 * Len(<<>>)
  BY <1>4, <1>5
<1> QED BY <1>3, <1>5, <1>6, <1>7, <1>8 DEF LogRead

LEMMA AuthInit == LedgersInit => AuthInv
<1> SUFFICES ASSUME LedgersInit PROVE AuthInv
  OBVIOUS
<1>1. events = [r \in Roles |-> <<>>] /\ reading = [r \in Roles |-> Auth!Unread]
  BY DEF LedgersInit, Auth!Init
<1>2. <<>> \in Seq(Auth!Events)
  OBVIOUS
<1> QED BY <1>1, <1>2, NothingRead DEF AuthInv

LEMMA EventStep ==
  ASSUME AuthInv, NEW r \in Roles, NEW e \in Auth!Events, Auth!AppendEvent(r, e)
  PROVE  AuthInv'
<1>1. /\ events' = [events EXCEPT ![r] = Append(events[r], e)]
      /\ reading' = [reading EXCEPT ![r] = Auth!ReadEvent(reading[r], e)]
  BY DEF Auth!AppendEvent
<1>2. /\ \A s \in Roles : events[s] \in Seq(Auth!Events)
      /\ DOMAIN events = Roles /\ DOMAIN reading = Roles
      /\ \A s \in Roles : LogRead(events[s], reading[s])
  BY DEF AuthInv
<1>3. /\ events'[r] = Append(events[r], e) /\ reading'[r] = Auth!ReadEvent(reading[r], e)
      /\ \A s \in Roles : s # r => events'[s] = events[s] /\ reading'[s] = reading[s]
      /\ DOMAIN reading' = Roles
  BY <1>1, <1>2
<1>4. ASSUME NEW s \in Roles PROVE LogRead(events'[s], reading'[s])
  <2>1. CASE s = r
    BY <1>2, <1>3, <2>1, LogReadOn
  <2>2. CASE s # r
    BY <1>2, <1>3, <2>2
  <2> QED BY <2>1, <2>2
<1>5. events' \in [Roles -> Seq(Auth!Events)]
  <2>1. Append(events[r], e) \in Seq(Auth!Events)
    BY <1>2
  <2>2. events \in [Roles -> Seq(Auth!Events)]
    BY DEF AuthInv
  <2> QED BY <1>1, <2>1, <2>2
<1> QED BY <1>3, <1>4, <1>5 DEF AuthInv

\* validate_auth_log.py: a reading has of its log what LogRead names, however the logs grow.
THEOREM AuthInvariant == LedgersSpec => []AuthInv
<1>1. ASSUME AuthInv, [Auth!Next]_authOnly PROVE AuthInv'
  <2>1. CASE UNCHANGED authOnly
    BY <1>1, <2>1 DEF authOnly, AuthInv
  <2> QED BY <1>1, <2>1, EventStep DEF Auth!Next
<1>2. AuthInv /\ [LedgersNext]_all => AuthInv'
  BY <1>1, StepsApart
<1> QED BY AuthInit, <1>2, PTL DEF LedgersSpec

LEMMA SpendIsSpent ==
  ASSUME NEW r \in Roles, NEW s, AuthInv, s \in reading[r].spends
  PROVE  <<r, s>> \in Auth!Spent
<1>1. s \in UNION {reading[q].spends : q \in Roles}
  OBVIOUS
<1> QED BY <1>1 DEF Auth!Spent

\* The places at which an id is consumed.
ConsumedAt(id) == UNION {{<<r, u>> : u \in {j \in Auth!At(r) : Auth!Is(r, j, "consumed", id)}} : r \in Roles}

LEMMA ConsumedOnce ==
  ASSUME AuthInv, Auth!OnceAnywhere, NEW id,
         NEW r \in Roles, NEW u \in DOMAIN events[r], Kind(events[r], u, "consumed", id),
         NEW s \in Roles, NEW j \in DOMAIN events[s], Kind(events[s], j, "consumed", id)
  PROVE  r = s /\ u = j
<1>1. LogRead(events[r], reading[r]) /\ LogRead(events[s], reading[s])
  BY DEF AuthInv
<1>2. /\ Spending(events[r], reading[r]) /\ Spending(events[s], reading[s])
      /\ SpentTwice(events[r], reading[r])
  BY <1>1 DEF LogRead
<1>3. events[r][u].is = "consumed" /\ events[r][u].of = id /\ events[s][j].is = "consumed" /\ events[s][j].of = id
  BY DEF Kind
<1>4. PICK n, m : <<id, n>> \in reading[r].spends /\ <<id, m>> \in reading[s].spends
  BY <1>2, <1>3 DEF Spending, SpentAt
<1>5. <<r, <<id, n>>>> \in Auth!Spent /\ <<s, <<id, m>>>> \in Auth!Spent
  BY <1>4, SpendIsSpent
<1>6. r = s
  BY <1>5 DEF Auth!OnceAnywhere
<1>7. ASSUME NEW k \in DOMAIN events[r], NEW l \in DOMAIN events[r], k < l,
             Kind(events[r], k, "consumed", id), Kind(events[r], l, "consumed", id)
      PROVE  FALSE
  <2>1. events[r][k].is = "consumed" /\ events[r][k].of = id
    BY <1>7 DEF Kind
  <2>2. PICK x, y : x # y /\ <<id, x>> \in reading[r].spends /\ <<id, y>> \in reading[r].spends
    BY <1>2, <1>7, <2>1 DEF SpentTwice
  <2>3. <<r, <<id, x>>>> \in Auth!Spent /\ <<r, <<id, y>>>> \in Auth!Spent
    BY <2>2, SpendIsSpent
  <2>4. <<r, <<id, x>>>> = <<r, <<id, y>>>>
    BY <2>3 DEF Auth!OnceAnywhere
  <2> QED BY <2>2, <2>4
<1>8. u \in Nat /\ j \in Nat
  BY <1>1, <1>6 DEF LogRead
<1>9. u < j \/ j < u \/ u = j
  BY <1>8
<1> QED BY <1>6, <1>7, <1>9

LEMMA CleanIsOnce == AuthInv /\ Auth!OnceAnywhere => Auth!OnceEach
<1> SUFFICES ASSUME AuthInv, Auth!OnceAnywhere, NEW id \in Ids
             PROVE  Auth!Cardinality(ConsumedAt(id)) <= 1
  BY DEF Auth!OnceEach, Ids, ConsumedAt
<1>1. \A p \in ConsumedAt(id) : \E r \in Roles : \E u \in DOMAIN events[r] :
        p = <<r, u>> /\ Kind(events[r], u, "consumed", id)
  BY DEF ConsumedAt, Auth!At, Auth!Is, Kind
<1>2. \A p, q \in ConsumedAt(id) : p = q
  BY <1>1, ConsumedOnce
<1>3. ConsumedAt(id) = {} \/ \E p : ConsumedAt(id) = {p}
  BY <1>2
<1>4. Cardinality(ConsumedAt(id)) <= 1
  <2>1. CASE ConsumedAt(id) = {}
    BY <2>1, FS_EmptySet
  <2>2. ASSUME NEW p, ConsumedAt(id) = {p} PROVE Cardinality(ConsumedAt(id)) <= 1
    <3>1. Cardinality({p}) = 1
      BY FS_Singleton
    <3> QED BY <2>2, <3>1
  <2> QED BY <1>3, <2>1, <2>2
<1> QED BY <1>4, CountsAlike

SpentUnder(d, g) == {x \in d.relays \cup ({s[1] : s \in d.spends} \cap Auth!Directs) : x[1] = g}
SpentIn(E, g) ==
  {E[j].of : j \in {j \in DOMAIN E :
     \/ E[j].is = "relay" /\ E[j].of[1] = g
     \/ E[j].is = "consumed" /\ E[j].of \in Auth!Directs /\ E[j].of[1] = g}}

LEMMA SpentAlike ==
  ASSUME NEW E, NEW d, NEW g, LogRead(E, d)
  PROVE  SpentUnder(d, g) = SpentIn(E, g)
<1>1. Relayed(E, d) /\ Spending(E, d)
  BY DEF LogRead
<1>2. ASSUME NEW x \in SpentUnder(d, g) PROVE x \in SpentIn(E, g)
  <2>1. CASE x \in d.relays
    <3>1. PICK u \in DOMAIN E : E[u].is = "relay" /\ E[u].of = x
      BY <1>1, <2>1 DEF Relayed, Kind
    <3> QED BY <1>2, <3>1 DEF SpentUnder, SpentIn
  <2>2. CASE x \in Auth!Directs /\ \E s \in d.spends : s[1] = x
    <3>1. PICK u \in DOMAIN E : E[u].is = "consumed" /\ E[u].of = x
      BY <1>1, <2>2 DEF Spending, Kind
    <3> QED BY <1>2, <2>2, <3>1 DEF SpentUnder, SpentIn
  <2> QED BY <2>1, <2>2 DEF SpentUnder
<1>3. ASSUME NEW x \in SpentIn(E, g) PROVE x \in SpentUnder(d, g)
  <2>1. PICK j \in DOMAIN E : /\ x = E[j].of /\ x[1] = g
                              /\ \/ E[j].is = "relay"
                                 \/ E[j].is = "consumed" /\ E[j].of \in Auth!Directs
    BY <1>3 DEF SpentIn
  <2>2. CASE E[j].is = "relay"
    BY <1>1, <2>1, <2>2 DEF Relayed, SpentUnder
  <2>3. CASE E[j].is = "consumed" /\ E[j].of \in Auth!Directs
    <3>1. PICK n : <<x, n>> \in d.spends
      BY <1>1, <2>1, <2>3 DEF Spending, SpentAt
    <3>2. \E s \in d.spends : s[1] = x
      BY <3>1
    <3> QED BY <2>1, <2>3, <3>2 DEF SpentUnder
  <2> QED BY <2>1, <2>2, <2>3
<1> QED BY <1>2, <1>3

LEMMA CleanIsInScope == AuthInv /\ Auth!Clean => Auth!WithinScope
<1> SUFFICES ASSUME AuthInv, Auth!Clean, NEW r \in Roles, NEW u \in DOMAIN events[r],
                    LastGrant(events[r], u)
             PROVE  Auth!Cardinality(SpentIn(events[r], events[r][u].of)) <= events[r][u].scope
  BY DEF Auth!WithinScope, Auth!At, Auth!Is, SpentIn, LastGrant, Kind
<1>1. LogRead(events[r], reading[r]) /\ Auth!LogOK(reading[r])
  BY DEF AuthInv, Auth!Clean
<1> DEFINE g == events[r][u].of
           d == reading[r]
<1>2. g \in DOMAIN d.scope /\ d.scope[g] = events[r][u].scope
  BY <1>1 DEF LogRead, Scoped
<1>3. Auth!SpendsOf(d, g) <= d.scope[g]
  BY <1>1, <1>2 DEF Auth!LogOK
<1>4. Auth!SpendsOf(d, g) = Auth!Cardinality(SpentUnder(d, g))
  BY DEF Auth!SpendsOf, SpentUnder
<1>5. SpentUnder(d, g) = SpentIn(events[r], g)
  BY <1>1, SpentAlike
<1> QED BY <1>2, <1>3, <1>4, <1>5

LEMMA CleanIsRecorded == AuthInv /\ Auth!Clean => Auth!RecordedFirst
<1> SUFFICES ASSUME AuthInv, Auth!Clean, NEW r \in Roles, NEW u \in DOMAIN events[r],
                    events[r][u].is = "consumed", events[r][u].of \in Auth!Relays
             PROVE  /\ \E j \in DOMAIN events[r] : j < u /\ Kind(events[r], j, "received", events[r][u].of)
                    /\ \E s \in Roles : \E j \in DOMAIN events[s] : Kind(events[s], j, "relay", events[r][u].of)
  BY DEF Auth!RecordedFirst, Auth!At, Auth!Is, Kind
<1> DEFINE id == events[r][u].of
           d == reading[r]
<1>1. LogRead(events[r], d) /\ Auth!LogOK(d)
  BY DEF AuthInv, Auth!Clean
<1>2. PICK n \in Nat : SpentAt(events[r], d, u, n)
  BY <1>1 DEF LogRead, Spending
<1>3. Auth!SpendOK(d, id, n)
  <2>1. PICK s : s = <<id, n>>
    OBVIOUS
  <2>2. s \in d.spends /\ s[1] = id /\ s[2] = n
    BY <1>2, <2>1 DEF SpentAt
  <2> QED BY <1>1, <2>2 DEF Auth!LogOK
<1>4. id \in DOMAIN d.received /\ (d.received[id] # 0 => n >= d.received[id])
  BY <1>3 DEF Auth!SpendOK
<1>5. id \in Auth!Sent /\ d.received[id] # 0
  BY <1>1, <1>4 DEF Auth!LogOK
<1>6. RecordBefore(events[r], u, id)
  BY <1>2, <1>4, <1>5 DEF SpentAt
<1>7. PICK s \in Roles : id \in reading[s].relays
  BY <1>5 DEF Auth!Sent
<1>8. Relayed(events[s], reading[s])
  BY DEF AuthInv, LogRead
<1> QED BY <1>6, <1>7, <1>8 DEF RecordBefore, Relayed

\* validate_auth_log.py: a log it calls clean authorises each spend once, within the scope
\* of its grant and after a record of a relay that was sent; and the logs and what is read
\* of them have their types.
THEOREM CleanIsAuthorised == LedgersSpec => []CleanMeansAuthorised
<1>1. AuthInv => Auth!TypeOK
  <2> SUFFICES ASSUME AuthInv PROVE Auth!TypeOK
    OBVIOUS
  <2>1. ASSUME NEW S, NEW f \in Marks(S) PROVE DOMAIN f \subseteq S
    BY DEF Marks
  <2>2. ASSUME NEW r \in Roles
        PROVE  /\ DOMAIN reading[r].scope \subseteq Grants
               /\ DOMAIN reading[r].received \subseteq Auth!Relays
               /\ reading[r].n \in Len(events[r]) .. 3 * Len(events[r])
    <3>1. reading[r] \in Readings /\ reading[r].n \in Len(events[r]) .. 3 * Len(events[r])
      BY DEF AuthInv, LogRead
    <3> QED BY <2>1, <3>1, FieldsOfReading
  <2> QED BY <2>2 DEF AuthInv, Auth!TypeOK
<1>2. AuthInv => Auth!CleanMeansAuthorised
  BY CleanIsOnce, CleanIsInScope, CleanIsRecorded DEF Auth!CleanMeansAuthorised, Auth!Clean
<1>3. AuthInv => CleanMeansAuthorised
  BY <1>1, <1>2 DEF CleanMeansAuthorised
<1> QED BY <1>3, AuthInvariant, PTL

-----------------------------------------------------------------------------
(* What the run asks of the cap, the taps and the ledger of commissions.   *)

\* fleet_ledger.py: a row that a scribe reported is read as it was written, but for one for
\* each scribe that ended half way and the one that may stand where the header should be; a
\* row that supersedes another is the latest but for one field; and a lone scribe's report
\* has what was told only.  The cap, the taps and the ledger have their types.
THEOREM CommissionsAreKept == LedgersSpec => []FleetIsKept
<1>1. CapInv /\ TapInv /\ FleetInv => FleetIsKept
  BY FleetKept DEF CapInv, TapInv, RoundInv, FleetIsKept
<1> QED BY <1>1, CapInvariant, TapInvariant, FleetInvariant, PTL
=============================================================================
