-------------------------- MODULE Evidence_proofs --------------------------
(***************************************************************************)
(* Slot publication, the process probes, the orphan detector and the       *)
(* preview binding, for any number of takers, pids, processes, days, dates *)
(* and clients.  Each has its inductive invariant:                         *)
(*                                                                         *)
(*   PublicationInv   a sidecar names the process that owns the pair, and  *)
(*                    a sweep has begun only on a dead one's;              *)
(*   DetectorInv,     what the clone shows of a fire until it is asked     *)
(*   SeatTypes        about;                                               *)
(*   RecordsInv       a record is in its file from the write on, and is    *)
(*                    committed from the commit on;                        *)
(*   BindingInv       what a binding promises is what its lane held, and   *)
(*                    the append that holds the lock writes to that lane;  *)
(*   ProbesInv        a pid has one holder, a parent's pid is nobody       *)
(*                    else's while its child is being born, and a sample   *)
(*                    is of the table.                                     *)
(***************************************************************************)
EXTENDS MCEvidence, TLAPS, FiniteSetTheorems, SequenceTheorems, WellFoundedInduction

(***************************************************************************)
(* Publication.  A sidecar that is there names a process that has had its  *)
(* pid, only that process makes or moves the temp beside it, and a sweep   *)
(* has started only on the sidecar of a process that is dead for good.  So *)
(* the sweep and the living never hold the same pair.                      *)
(***************************************************************************)

\* A sidecar names a process that was born with the pid in the file's name.
SidecarsNameOwners ==
  \A k \in Keys : sidecar[k] # Nothing =>
    /\ sidecar[k].by \in Takers
    /\ pid[sidecar[k].by] = k[1] /\ pc[sidecar[k].by] # "unborn"

\* A process inside a publication owns its pair, and knows what the temp holds.
Publishing == {"sidecar", "temp", "content", "move", "first", "second"}
PublishersOwn ==
  \A p \in Takers :
    /\ pc[p] \in Publishing => sidecar[Key(p)].by = p
    /\ pc[p] = "content" => temp[Key(p)] = Torn(p)
    /\ pc[p] = "move" => temp[Key(p)] = Whole(p)
    /\ pc[p] = "second" => temp[Key(p)] = Nothing

\* A sweep holds the pair of a dead process, whose temp it unlinks first.
SweepHoldsTheDead ==
  sweep # Rest =>
    /\ sweep.step \in {"first", "second"}
    /\ sidecar[sweep.key] # Nothing /\ ~Live(sidecar[sweep.key].by)
    /\ sweep.step = "second" => temp[sweep.key] = Nothing

\* The one writer of the launch record, and what its reader has.
RecordIsOnce ==
  /\ slot.whole
  /\ \A p \in Takers : pc[p] = "twin" => launch = Torn(p)
  /\ read # Nothing => launch = read /\ read.whole

PublicationInv == /\ TypeOK /\ SidecarsNameOwners /\ PublishersOwn /\ TempHasSidecar
        /\ SweepHoldsTheDead /\ RecordIsOnce


\* The records a file can hold: a process' own is never an empty one.
LEMMA FileFacts ==
  /\ Nothing \in Files /\ ~Nothing.whole /\ Nothing.by = NoTaker
  /\ \A p \in Takers : /\ Torn(p) \in Files /\ Torn(p) # Nothing
                       /\ Torn(p).by = p /\ ~Torn(p).whole
                       /\ Whole(p) \in Files /\ Whole(p) # Nothing
                       /\ Whole(p).by = p /\ Whole(p).whole
BY SlotAssumption DEF Nothing, Torn, Whole, Files

\* The name of a taker's pair.
LEMMA KeyIsKey == ASSUME TypeOK, NEW p \in Takers PROVE Key(p) \in Keys /\ Key(p)[1] = pid[p]
BY DEF TypeOK, Key, Keys

\* At the start nothing is written and nobody runs.
LEMMA InitIsSound == Init => PublicationInv
<1> SUFFICES ASSUME Init PROVE PublicationInv
  OBVIOUS
<1>1. /\ \E n \in SlotPids : TRUE
      /\ \E e \in Epochs : TRUE
      /\ \E k \in Keys : TRUE
  <2>1. PICK n \in SlotPids, e \in Epochs : TRUE
    BY SlotAssumption
  <2>2. <<n, e>> \in Keys
    BY DEF Keys
  <2> QED BY <2>1, <2>2
<1>2. Rest \in [step : {"rest", "first", "second"}, key : Keys]
  BY <1>1 DEF Rest
<1>3. Whole(NoTaker) \in Files /\ Whole(NoTaker).whole
  BY DEF Whole, Files
<1>4. TypeOK
  BY <1>1, <1>2, <1>3, FileFacts DEF Init, TypeOK
<1>5. SidecarsNameOwners /\ TempHasSidecar /\ SweepHoldsTheDead
  BY DEF Init, SidecarsNameOwners, TempHasSidecar, SweepHoldsTheDead
<1>6. PublishersOwn
  BY DEF Init, PublishersOwn, Publishing
<1>7. RecordIsOnce
  BY <1>3 DEF Init, RecordIsOnce
<1> QED BY <1>4, <1>5, <1>6, <1>7 DEF PublicationInv

\* Two publishers have two pairs, and a sweep holds neither of them.
LEMMA PairsAreApart ==
  ASSUME PublicationInv, NEW p \in Takers, pc[p] \in Publishing
  PROVE  /\ \A q \in Takers \ {p} : pc[q] \in Publishing => Key(q) # Key(p)
         /\ sweep # Rest => sweep.key # Key(p)
<1>1. sidecar[Key(p)].by = p
  BY DEF PublicationInv, PublishersOwn
<1>2. \A q \in Takers \ {p} : pc[q] \in Publishing => Key(q) # Key(p)
  BY <1>1 DEF PublicationInv, PublishersOwn
<1>3. Live(p)
  BY DEF Live, Publishing
<1>4. sweep # Rest => sweep.key # Key(p)
  BY <1>1, <1>3 DEF PublicationInv, SweepHoldsTheDead
<1> QED BY <1>2, <1>4

\* Whom a sweep may start on: the owner of the sidecar is dead for good.
LEMMA DeadIsDead ==
  ASSUME PublicationInv, NEW k \in Keys, sidecar[k] # Nothing, Dead(k)
  PROVE  ~Live(sidecar[k].by)
<1>1. sidecar[k].by \in Takers /\ pid[sidecar[k].by] = k[1]
  BY DEF PublicationInv, SidecarsNameOwners
<1>2. sidecar[k].by \notin Holders(k[1])
  BY DEF Dead
<1> QED BY <1>1, <1>2 DEF Holders

\* Every step of every process keeps the invariant.
LEMMA NextKeepsPublicationInv == PublicationInv /\ [Next]_vars => PublicationInv'
<1> SUFFICES ASSUME PublicationInv, [Next]_vars PROVE PublicationInv'
  OBVIOUS
<1> USE DEF PublicationInv
<1>1. ASSUME NEW p \in Takers, Born(p) PROVE PublicationInv'
  <2>0. Key(p) \in Keys /\ Key(p)[1] = pid[p]
    BY KeyIsKey
  <2>1. TypeOK'
    BY <2>0, <1>1, FileFacts DEF Born, Goto, TypeOK, Keys
  <2>2. SidecarsNameOwners'
    BY <2>0, <1>1, FileFacts DEF Born, Goto, TypeOK, SidecarsNameOwners, Key
  <2>3. PublishersOwn'
    BY <2>0, <1>1, FileFacts DEF Born, Goto, TypeOK, PublishersOwn, Publishing, Key
  <2>4. TempHasSidecar'
    BY <2>0, <1>1, FileFacts
    DEF Born, Goto, TypeOK, TempHasSidecar, PublishersOwn, Publishing
  <2>5. SweepHoldsTheDead'
    <3>1. sweep # Rest => sidecar[sweep.key].by # p
      BY <1>1 DEF Born, TypeOK, SweepHoldsTheDead, SidecarsNameOwners
    <3> QED BY <1>1, <3>1 DEF Born, Goto, TypeOK, SweepHoldsTheDead, Live
  <2>6. RecordIsOnce'
    BY <2>0, <1>1, FileFacts DEF Born, Goto, TypeOK, RecordIsOnce
  <2> QED BY <2>1, <2>2, <2>3, <2>4, <2>5, <2>6
<1>2. ASSUME NEW p \in Takers, OpenSidecar(p) PROVE PublicationInv'
  <2>0. Key(p) \in Keys /\ Key(p)[1] = pid[p]
    BY KeyIsKey
  <2>1. TypeOK'
    BY <2>0, <1>2, FileFacts DEF OpenSidecar, Goto, CanCreate, TypeOK, Keys
  <2>2. SidecarsNameOwners'
    BY <2>0, <1>2, FileFacts
    DEF OpenSidecar, Goto, CanCreate, TypeOK, SidecarsNameOwners, Key
  <2>3. PublishersOwn'
    <3> SUFFICES ASSUME NEW q \in Takers, pc'[q] \in Publishing
                 PROVE  /\ sidecar'[Key(q)'].by = q
                        /\ pc'[q] = "content" => temp'[Key(q)'] = Torn(q)
                        /\ pc'[q] = "move" => temp'[Key(q)'] = Whole(q)
                        /\ pc'[q] = "second" => temp'[Key(q)'] = Nothing
      BY <1>2, FileFacts DEF PublishersOwn, Publishing
    <3>1. PICK e \in Epochs :
            /\ sidecar[<<pid[p], e>>] = Nothing
            /\ epoch' = [epoch EXCEPT ![p] = e]
            /\ sidecar' = [sidecar EXCEPT ![<<pid[p], e>>] = Torn(p)]
      BY <1>2 DEF OpenSidecar, CanCreate
    <3>2. <<pid[p], e>> \in Keys
      BY DEF TypeOK, Keys
    <3>3. pc' = [pc EXCEPT ![p] = "sidecar"] /\ pid' = pid /\ temp' = temp
      BY <1>2 DEF OpenSidecar, Goto
    <3>4. CASE q = p
      BY <3>1, <3>2, <3>3, <3>4, FileFacts DEF TypeOK, Key
    <3>5. CASE q # p
      <4>1. Key(q)' = Key(q) /\ pc'[q] = pc[q]
        BY <3>1, <3>3, <3>5 DEF TypeOK, Key
      <4>2. sidecar[Key(q)].by = q
        BY <4>1 DEF PublishersOwn
      <4>3. Key(q) # <<pid[p], e>>
        BY <4>2, <3>1, FileFacts, SlotAssumption
      <4> QED BY <3>1, <3>2, <3>3, <4>1, <4>2, <4>3, KeyIsKey
      DEF TypeOK, PublishersOwn
    <3> QED BY <3>4, <3>5
  <2>4. TempHasSidecar'
    BY <2>0, <1>2, FileFacts
    DEF OpenSidecar, Goto, CanCreate, TypeOK, TempHasSidecar, PublishersOwn, Publishing
  <2>5. SweepHoldsTheDead'
    BY <2>0, <1>2, FileFacts
    DEF OpenSidecar, Goto, CanCreate, TypeOK, SweepHoldsTheDead, SidecarsNameOwners, Live
  <2>6. RecordIsOnce'
    BY <2>0, <1>2, FileFacts DEF OpenSidecar, Goto, CanCreate, TypeOK, RecordIsOnce
  <2> QED BY <2>1, <2>2, <2>3, <2>4, <2>5, <2>6
<1>3. ASSUME NEW p \in Takers, WriteSidecar(p) PROVE PublicationInv'
  <2>0. Key(p) \in Keys /\ Key(p)[1] = pid[p]
    BY KeyIsKey
  <2>1. TypeOK'
    BY <2>0, <1>3, FileFacts DEF WriteSidecar, Goto, TypeOK, Keys
  <2>2. SidecarsNameOwners'
    BY <2>0, <1>3, FileFacts DEF WriteSidecar, Goto, TypeOK, SidecarsNameOwners, Key
  <2>3. PublishersOwn'
    BY <2>0, <1>3, FileFacts
    DEF WriteSidecar, Goto, TypeOK, PublishersOwn, Publishing, Key
  <2>4. TempHasSidecar'
    BY <2>0, <1>3, FileFacts
    DEF WriteSidecar, Goto, TypeOK, TempHasSidecar, PublishersOwn, Publishing
  <2>5. SweepHoldsTheDead'
    <3>1. sweep # Rest => sweep.key # Key(p)
      BY <1>3, PairsAreApart DEF WriteSidecar, Publishing
    <3> QED BY <1>3, <2>0, <3>1

           DEF WriteSidecar, Goto, TypeOK, SweepHoldsTheDead, SidecarsNameOwners, Live
  <2>6. RecordIsOnce'
    BY <2>0, <1>3, FileFacts DEF WriteSidecar, Goto, TypeOK, RecordIsOnce
  <2> QED BY <2>1, <2>2, <2>3, <2>4, <2>5, <2>6
<1>4. ASSUME NEW p \in Takers, OpenTemp(p) PROVE PublicationInv'
  <2>0. Key(p) \in Keys /\ Key(p)[1] = pid[p]
    BY KeyIsKey
  <2>1. TypeOK'
    BY <2>0, <1>4, FileFacts DEF OpenTemp, Goto, TypeOK, Keys
  <2>2. SidecarsNameOwners'
    BY <2>0, <1>4, FileFacts DEF OpenTemp, Goto, TypeOK, SidecarsNameOwners, Key
  <2>3. PublishersOwn'
    BY SMTT(30), <2>0, <1>4, FileFacts
    DEF OpenTemp, Goto, TypeOK, PublishersOwn, Publishing, Key
  <2>4. TempHasSidecar'
    <3>1. sidecar[Key(p)] # Nothing
      BY <1>4, FileFacts, SlotAssumption DEF OpenTemp, PublishersOwn, Publishing
    <3> QED BY <1>4, <2>0, <3>1 DEF OpenTemp, TypeOK, TempHasSidecar
  <2>5. SweepHoldsTheDead'
    <3>1. sweep # Rest => sweep.key # Key(p)
      BY <1>4, PairsAreApart DEF OpenTemp, Publishing
    <3> QED BY <1>4, <2>0, <3>1
            DEF OpenTemp, Goto, TypeOK, SweepHoldsTheDead, SidecarsNameOwners, Live
  <2>6. RecordIsOnce'
    BY <2>0, <1>4, FileFacts DEF OpenTemp, Goto, TypeOK, RecordIsOnce
  <2> QED BY <2>1, <2>2, <2>3, <2>4, <2>5, <2>6
<1>5. ASSUME NEW p \in Takers, WriteTemp(p) PROVE PublicationInv'
  <2>0. Key(p) \in Keys /\ Key(p)[1] = pid[p]
    BY KeyIsKey
  <2>1. TypeOK'
    BY <2>0, <1>5, FileFacts DEF WriteTemp, Goto, TypeOK, Keys
  <2>2. SidecarsNameOwners'
    BY <2>0, <1>5, FileFacts DEF WriteTemp, Goto, TypeOK, SidecarsNameOwners, Key
  <2>3. PublishersOwn'
    BY <2>0, <1>5, FileFacts
    DEF WriteTemp, Goto, TypeOK, PublishersOwn, Publishing, Key
  <2>4. TempHasSidecar'
    BY <2>0, <1>5, FileFacts
    DEF WriteTemp, Goto, TypeOK, TempHasSidecar, PublishersOwn, Publishing
  <2>5. SweepHoldsTheDead'
    <3>1. sweep # Rest => sweep.key # Key(p)
      BY <1>5, PairsAreApart DEF WriteTemp, Publishing
    <3> QED BY <1>5, <2>0, <3>1
            DEF WriteTemp, Goto, TypeOK, SweepHoldsTheDead, SidecarsNameOwners, Live
  <2>6. RecordIsOnce'
    BY <2>0, <1>5, FileFacts DEF WriteTemp, Goto, TypeOK, RecordIsOnce
  <2> QED BY <2>1, <2>2, <2>3, <2>4, <2>5, <2>6
<1>6. ASSUME NEW p \in Takers, Move(p) PROVE PublicationInv'
  <2>0. Key(p) \in Keys /\ Key(p)[1] = pid[p]
    BY KeyIsKey
  <2>1. TypeOK'
    BY <2>0, <1>6, FileFacts DEF Move, Goto, TypeOK, Keys
  <2>2. SidecarsNameOwners'
    BY <2>0, <1>6, FileFacts DEF Move, Goto, TypeOK, SidecarsNameOwners, Key
  <2>3. PublishersOwn'
    BY <2>0, <1>6, FileFacts DEF Move, Goto, TypeOK, PublishersOwn, Publishing, Key
  <2>4. TempHasSidecar'
    BY <2>0, <1>6, FileFacts
    DEF Move, Goto, TypeOK, TempHasSidecar, PublishersOwn, Publishing
  <2>5. SweepHoldsTheDead'
    BY <2>0, <1>6, FileFacts
    DEF Move, Goto, TypeOK, SweepHoldsTheDead, SidecarsNameOwners, Live
  <2>6. RecordIsOnce'
    <3>1. slot'.whole
      BY <1>6, FileFacts DEF Move, PublishersOwn
    <3> QED BY <1>6, <3>1 DEF Move, Goto, TypeOK, RecordIsOnce
  <2> QED BY <2>1, <2>2, <2>3, <2>4, <2>5, <2>6
<1>7. ASSUME NEW p \in Takers, Retire(p) PROVE PublicationInv'
  <2>0. Key(p) \in Keys /\ Key(p)[1] = pid[p]
    BY KeyIsKey
  <2>1. TypeOK'
    BY <2>0, <1>7, FileFacts DEF Retire, Goto, Unlink, TypeOK, Keys
  <2>2. SidecarsNameOwners'
    BY <2>0, <1>7, FileFacts
    DEF Retire, Goto, Unlink, TypeOK, SidecarsNameOwners, Key
  <2>3. PublishersOwn'
    <3>1. \A q \in Takers \ {p} : pc[q] \in Publishing => Key(q) # Key(p)
      BY <1>7, PairsAreApart DEF Retire, Publishing
    <3>2. \A q \in Takers : Key(q)' = Key(q) /\ Key(q) \in Keys
      BY <1>7, KeyIsKey DEF Retire, Key
    <3>3. CASE pc[p] = "first"
      BY <1>7, <2>0, <3>1, <3>2, <3>3
      DEF Retire, Goto, Unlink, TypeOK, PublishersOwn, Publishing
    <3>4. CASE pc[p] = "second"
      BY <1>7, <2>0, <3>1, <3>2, <3>4
      DEF Retire, Goto, Unlink, TypeOK, PublishersOwn, Publishing
    <3> QED BY <1>7, <3>3, <3>4 DEF Retire
  <2>4. TempHasSidecar'
    BY <2>0, <1>7, FileFacts
    DEF Retire, Goto, Unlink, TypeOK, TempHasSidecar, PublishersOwn, Publishing
  <2>5. SweepHoldsTheDead'
    <3>1. sweep # Rest => sweep.key # Key(p)
      BY <1>7, PairsAreApart DEF Retire, Publishing
    <3> QED BY <1>7, <2>0, <3>1

           DEF Retire, Goto, Unlink, TypeOK, SweepHoldsTheDead, SidecarsNameOwners, Live
  <2>6. RecordIsOnce'
    BY <2>0, <1>7, FileFacts DEF Retire, Goto, Unlink, TypeOK, RecordIsOnce
  <2> QED BY <2>1, <2>2, <2>3, <2>4, <2>5, <2>6
<1>8. ASSUME NEW p \in Takers, Undo(p) PROVE PublicationInv'
  <2>0. Key(p) \in Keys /\ Key(p)[1] = pid[p]
    BY KeyIsKey
  <2>1. TypeOK'
    BY <2>0, <1>8, FileFacts DEF Undo, Goto, TypeOK, Keys
  <2>2. SidecarsNameOwners'
    BY <2>0, <1>8, FileFacts DEF Undo, Goto, TypeOK, SidecarsNameOwners, Key
  <2>3. PublishersOwn'
    BY SMTT(30), <2>0, <1>8, FileFacts DEF Undo, Goto, TypeOK, PublishersOwn, Publishing, Key
  <2>4. TempHasSidecar'
    BY <2>0, <1>8, FileFacts
    DEF Undo, Goto, TypeOK, TempHasSidecar, PublishersOwn, Publishing
  <2>5. SweepHoldsTheDead'
    BY <2>0, <1>8, FileFacts
    DEF Undo, Goto, TypeOK, SweepHoldsTheDead, SidecarsNameOwners, Live
  <2>6. RecordIsOnce'
    BY <2>0, <1>8, FileFacts DEF Undo, Goto, TypeOK, RecordIsOnce
  <2> QED BY <2>1, <2>2, <2>3, <2>4, <2>5, <2>6
<1>9. ASSUME NEW p \in Takers, Register(p) PROVE PublicationInv'
  <2>0. Key(p) \in Keys /\ Key(p)[1] = pid[p]
    BY KeyIsKey
  <2>1. TypeOK'
    BY <2>0, <1>9, FileFacts DEF Register, Goto, CanCreate, TypeOK, Keys
  <2>2. SidecarsNameOwners'
    BY <2>0, <1>9, FileFacts
    DEF Register, Goto, CanCreate, TypeOK, SidecarsNameOwners, Key
  <2>3. PublishersOwn'
    BY <2>0, <1>9, FileFacts
    DEF Register, Goto, CanCreate, TypeOK, PublishersOwn, Publishing, Key
  <2>4. TempHasSidecar'
    BY <2>0, <1>9, FileFacts
    DEF Register, Goto, CanCreate, TypeOK, TempHasSidecar, PublishersOwn, Publishing
  <2>5. SweepHoldsTheDead'
    <3>1. /\ UNCHANGED <<sidecar, temp, sweep>> /\ Live(p)
          /\ \/ pc' = [pc EXCEPT ![p] = "twin"]
             \/ pc' = [pc EXCEPT ![p] = "ready"]
      BY <1>9 DEF Register, Goto, Live
    <3>2. ASSUME NEW o \in Takers, Live(o)' PROVE Live(o)
      BY <3>1, <3>2 DEF TypeOK, Live
    <3> QED BY <3>1, <3>2 DEF TypeOK, SweepHoldsTheDead, SidecarsNameOwners
  <2>6. RecordIsOnce'
    BY <2>0, <1>9, FileFacts DEF Register, Goto, CanCreate, TypeOK, RecordIsOnce
  <2> QED BY <2>1, <2>2, <2>3, <2>4, <2>5, <2>6
<1>10. ASSUME NEW p \in Takers, Stop(p) PROVE PublicationInv'
  <2>0. Key(p) \in Keys /\ Key(p)[1] = pid[p]
    BY KeyIsKey
  <2>1. TypeOK'
    BY <2>0, <1>10, FileFacts DEF Stop, Goto, Live, TypeOK, Keys
  <2>2. SidecarsNameOwners'
    BY <2>0, <1>10, FileFacts DEF Stop, Goto, Live, TypeOK, SidecarsNameOwners, Key
  <2>3. PublishersOwn'
    BY <2>0, <1>10, FileFacts
    DEF Stop, Goto, Live, TypeOK, PublishersOwn, Publishing, Key
  <2>4. TempHasSidecar'
    BY <2>0, <1>10, FileFacts
    DEF Stop, Goto, Live, TypeOK, TempHasSidecar, PublishersOwn, Publishing
  <2>5. SweepHoldsTheDead'
    <3>1. UNCHANGED <<sidecar, temp, sweep>> /\ Live(p)
      BY <1>10 DEF Stop
    <3>2. ASSUME NEW o \in Takers, Live(o)' PROVE Live(o)
      BY <1>10, <3>1, <3>2 DEF Stop, Goto, TypeOK, Live
    <3> QED BY <3>1, <3>2 DEF TypeOK, SweepHoldsTheDead, SidecarsNameOwners
  <2>6. RecordIsOnce'
    BY <2>0, <1>10, FileFacts DEF Stop, Goto, Live, TypeOK, RecordIsOnce
  <2> QED BY <2>1, <2>2, <2>3, <2>4, <2>5, <2>6
<1>11. ASSUME ReadTwin PROVE PublicationInv'
  <2>1. TypeOK'
    BY <1>11, FileFacts DEF ReadTwin, TypeOK, Keys
  <2>2. SidecarsNameOwners'
    BY <1>11, FileFacts DEF ReadTwin, TypeOK, SidecarsNameOwners, Key
  <2>3. PublishersOwn'
    BY <1>11, FileFacts DEF ReadTwin, TypeOK, PublishersOwn, Publishing, Key
  <2>4. TempHasSidecar'
    BY <1>11, FileFacts
    DEF ReadTwin, TypeOK, TempHasSidecar, PublishersOwn, Publishing
  <2>5. SweepHoldsTheDead'
    BY <1>11, FileFacts
    DEF ReadTwin, TypeOK, SweepHoldsTheDead, SidecarsNameOwners, Live
  <2>6. RecordIsOnce'
    BY <1>11, FileFacts DEF ReadTwin, TypeOK, RecordIsOnce
  <2> QED BY <2>1, <2>2, <2>3, <2>4, <2>5, <2>6
<1>12. ASSUME Judge PROVE PublicationInv'
  <2>1. TypeOK'
    BY <1>12, FileFacts DEF Judge, TypeOK, Keys
  <2>2. SidecarsNameOwners'
    BY <1>12, FileFacts DEF Judge, TypeOK, SidecarsNameOwners, Key
  <2>3. PublishersOwn'
    BY <1>12, FileFacts DEF Judge, TypeOK, PublishersOwn, Publishing, Key
  <2>4. TempHasSidecar'
    BY <1>12, FileFacts DEF Judge, TypeOK, TempHasSidecar, PublishersOwn, Publishing
  <2>5. SweepHoldsTheDead'
    <3>1. PICK k \in Keys : /\ sidecar[k] # Nothing /\ Dead(k)
                            /\ sweep' = [step |-> "first", key |-> k]
      BY <1>12 DEF Judge
    <3>2. ~Live(sidecar[k].by)
      BY <3>1, DeadIsDead DEF PublicationInv
    <3> QED BY <1>12, <3>1, <3>2 DEF Judge, SweepHoldsTheDead, Live
  <2>6. RecordIsOnce'
    BY <1>12, FileFacts DEF Judge, TypeOK, RecordIsOnce
  <2> QED BY <2>1, <2>2, <2>3, <2>4, <2>5, <2>6
<1>13. ASSUME Sweep PROVE PublicationInv'
  <2>1. TypeOK'
    BY <1>13, FileFacts DEF Sweep, Unlink, TypeOK, Keys, Rest
  <2>2. SidecarsNameOwners'
    BY <1>13, FileFacts DEF Sweep, Unlink, TypeOK, SidecarsNameOwners, Key
  <2>3. PublishersOwn'
    <3>1. \A q \in Takers : pc[q] \in Publishing => sweep.key # Key(q)
      BY <1>13, PairsAreApart DEF Sweep, PublicationInv
    <3>2. \A q \in Takers : Key(q)' = Key(q) /\ pc'[q] = pc[q] /\ Key(q) \in Keys
      BY <1>13, KeyIsKey DEF Sweep, Key
    <3>3. \A q \in Takers : pc[q] \in Publishing =>
            sidecar'[Key(q)] = sidecar[Key(q)] /\ temp'[Key(q)] = temp[Key(q)]
      BY <1>13, <3>1, <3>2 DEF Sweep, Unlink, TypeOK
    <3> QED BY <3>2, <3>3 DEF PublishersOwn, Publishing
  <2>4. TempHasSidecar'
    BY <1>13 DEF Sweep, Unlink, TypeOK, TempHasSidecar, SweepHoldsTheDead
  <2>5. SweepHoldsTheDead'
    <3>1. CASE sweep.step = "first"
      BY <1>13, <3>1 DEF Sweep, Unlink, TypeOK, SweepHoldsTheDead, Live
    <3>2. CASE sweep.step # "first"
      BY <1>13, <3>2 DEF Sweep, SweepHoldsTheDead
    <3> QED BY <3>1, <3>2
  <2>6. RecordIsOnce'
    BY <1>13, FileFacts DEF Sweep, Unlink, TypeOK, RecordIsOnce
  <2> QED BY <2>1, <2>2, <2>3, <2>4, <2>5, <2>6
<1>14. ASSUME SweepDies PROVE PublicationInv'
  <2>1. TypeOK'
    BY <1>14, FileFacts DEF SweepDies, TypeOK, Keys, Rest
  <2>2. SidecarsNameOwners'
    BY <1>14, FileFacts DEF SweepDies, TypeOK, SidecarsNameOwners, Key
  <2>3. PublishersOwn'
    BY <1>14, FileFacts DEF SweepDies, TypeOK, PublishersOwn, Publishing, Key
  <2>4. TempHasSidecar'
    BY <1>14, FileFacts
    DEF SweepDies, TypeOK, TempHasSidecar, PublishersOwn, Publishing
  <2>5. SweepHoldsTheDead'
    BY <1>14, FileFacts
    DEF SweepDies, TypeOK, SweepHoldsTheDead, SidecarsNameOwners, Live
  <2>6. RecordIsOnce'
    BY <1>14, FileFacts DEF SweepDies, TypeOK, RecordIsOnce
  <2> QED BY <2>1, <2>2, <2>3, <2>4, <2>5, <2>6
<1>15. CASE UNCHANGED vars
  BY <1>15 DEF vars, TypeOK, SidecarsNameOwners, PublishersOwn, TempHasSidecar,
              SweepHoldsTheDead, RecordIsOnce, Key, Live
<1> QED
  BY <1>1, <1>2, <1>3, <1>4, <1>5, <1>6, <1>7, <1>8,
     <1>9, <1>10, <1>11, <1>12, <1>13, <1>14, <1>15 DEF Next, Take

-----------------------------------------------------------------------------
(***************************************************************************)
(* The orphan detector.                                                    *)
(***************************************************************************)

\* A set of numbers that is not empty has a least one.
LEMMA LeastNat ==
  ASSUME NEW S \in SUBSET Nat, S # {}
  PROVE  \E m \in S : \A k \in S : m <= k
<1> DEFINE T == {1 .. n : n \in S}
<1>1. IsWellFoundedOn(StrictSubsetOrdering(Nat), FiniteSubsetsOf(Nat))
  BY FS_StrictSubsetOrderingWellFounded
<1>2. T \subseteq FiniteSubsetsOf(Nat)
  <2> SUFFICES ASSUME NEW n \in S PROVE 1 .. n \in FiniteSubsetsOf(Nat)
    OBVIOUS
  <2>1. IsFiniteSet(1 .. n) /\ 1 .. n \subseteq Nat
    BY FS_Interval
  <2> QED BY <2>1 DEF FiniteSubsetsOf
<1>3. T # {}
  OBVIOUS
<1>4. PICK x \in T : \A y \in T : <<y, x>> \notin StrictSubsetOrdering(Nat)
  <2> HIDE DEF T
  <2> QED BY <1>1, <1>2, <1>3, WFMin
<1>5. PICK m \in S : x = 1 .. m
  OBVIOUS
<1>6. ASSUME NEW k \in S, k < m PROVE FALSE
  <2>1. 1 .. k \in T
    OBVIOUS
  <2>2. 1 .. k \subseteq 1 .. m /\ m \in 1 .. m /\ m \notin 1 .. k
    BY <1>6
  <2>3. <<1 .. k, 1 .. m>> \in StrictSubsetOrdering(Nat)
    BY <2>2 DEF StrictSubsetOrdering
  <2> QED BY <1>4, <1>5, <2>1, <2>3
<1> QED BY <1>6

\* What the clone shows of a fire that began on a clean one, until it is asked about:
\* what was composed is still there, and what is there was composed, or a marker tells.
ShowsTheFire ==
  /\ bank => Ticks!Delta \in open \/ marker
  /\ \A n \in Ticks!Names : body[n] = "absent" => n \in open \/ marker
  /\ \A n \in Ticks!Names : n \in open => body[n] # "none"
  /\ Ticks!Delta \in open => bank

\* The bodies of a fire and what is open of them.
BodyFrame ==
  /\ body \in [Ticks!Names -> Ticks!Kinds \cup {"none"}]
  /\ open \subseteq Ticks!Names \cup {Ticks!Delta}

DetectorInv ==
  /\ clean /\ fire.step \in {"seat", "exited"} => ShowsTheFire
  /\ fire.step = "rest" => body = Ticks!NoBody /\ open = {}
  /\ verdict.said # "none" => fire.step = "told"
  /\ BodyFrame
  /\ Ticks!DetectorIsRight

TickFrame == [step : {"rest", "seat", "exited", "told"}, readable : BOOLEAN]

\* No body is named as the delta is.
LEMMA DeltaIsNoBody == Ticks!Delta \notin Ticks!Names
BY DEF Ticks!Delta, Ticks!Names

LEMMA RestIsFramed ==
  Ticks!Resting \in TickFrame /\ Ticks!Resting.step = "rest"
BY DEF Ticks!Resting, TickFrame

LEMMA DetectorInit == Ticks!Init => DetectorInv /\ fire \in TickFrame
<1> SUFFICES ASSUME Ticks!Init PROVE DetectorInv /\ fire \in TickFrame
  OBVIOUS
<1>1. /\ fire = Ticks!Resting /\ body = Ticks!NoBody /\ open = {} /\ verdict = Ticks!Unasked
  BY DEF Ticks!Init
<1>2. BodyFrame
  BY <1>1 DEF BodyFrame, Ticks!NoBody
<1>3. verdict.said = "none"
  BY <1>1 DEF Ticks!Unasked
<1> QED BY <1>1, <1>2, <1>3, RestIsFramed DEF DetectorInv, Ticks!DetectorIsRight

\* The body that is looked for is one of the fire's.
LEMMA LookedForIsOne ==
  ASSUME Ticks!LookedFor # "none"
  PROVE  \E n \in Ticks!Names : body[n] = Ticks!LookedFor
<1>1. PICK C : C = Ticks!Candidates
  OBVIOUS
<1>2. C \subseteq Ticks!Names /\ C \subseteq Nat
  BY <1>1 DEF Ticks!Candidates, Ticks!Names
<1>3. C # {}
  BY <1>1 DEF Ticks!LookedFor
<1>4. \E n \in C : \A m \in C : n <= m
  BY <1>2, <1>3, LeastNat
<1>5. PICK n \in C : n = CHOOSE k \in C : \A m \in C : k <= m
  BY <1>4
<1>6. Ticks!LookedFor = body[n]
  BY <1>1, <1>3, <1>5 DEF Ticks!LookedFor
<1> QED BY <1>2, <1>6

\* The verdict of a fire whose clone holds no dirt but its own.
LEMMA VerdictIsRight ==
  ASSUME ShowsTheFire, BodyFrame, ~Ticks!LedgerDirt,
         NEW published \in Ticks!PublishedLegs, NEW dirt \in Ticks!DirtLegs
  PROVE  LET said == Ticks!Verdict(Ticks!BodyLeg, published, dirt) IN
           /\ said = "ORPHANED" => open # {}
           /\ said = "NOT_ORPHANED" /\ ~marker /\ dirt # "unknown" =>
                Ticks!Delta \notin open /\ (open = {} \/ Ticks!LookedFor = "present")
<1> DEFINE said == Ticks!Verdict(Ticks!BodyLeg, published, dirt)
<1>1. /\ dirt \in {"yes", "no", "unknown"}
      /\ dirt = "yes" => bank
      /\ dirt = "no" => ~bank
  BY DEF Ticks!DirtLegs, Ticks!Dirt, Ticks!Answer
<1>2. /\ Ticks!BodyLeg \in {"yes", "no", "unknown"}
      /\ Ticks!BodyLeg = "no" => body = Ticks!NoBody
  BY DEF Ticks!BodyLeg, Ticks!Answer
<1>3. /\ published \in {"yes", "no", "unknown"}
      /\ published = "yes" => Ticks!LookedFor = "present"
      /\ published = "no" => Ticks!LookedFor = "absent"
  BY DEF Ticks!PublishedLegs, Ticks!Answer
<1>4. published = "no" => open # {} \/ marker
  <2> SUFFICES ASSUME published = "no" PROVE open # {} \/ marker
    OBVIOUS
  <2>1. PICK n \in Ticks!Names : body[n] = "absent"
    BY <1>3, LookedForIsOne
  <2> QED BY <2>1 DEF ShowsTheFire
<1>5. bank => open # {} \/ marker
  BY DEF ShowsTheFire
<1>6. ~bank => Ticks!Delta \notin open
  BY DEF ShowsTheFire
<1>7. body = Ticks!NoBody /\ ~bank => open = {}
  BY <1>6 DEF ShowsTheFire, BodyFrame, Ticks!NoBody
<1>8. CASE marker
  BY <1>8 DEF Ticks!Verdict
<1>9. CASE ~marker /\ "yes" \notin {Ticks!BodyLeg, dirt}
  BY <1>1, <1>2, <1>6, <1>7, <1>9 DEF Ticks!Verdict
<1>10. CASE ~marker /\ "yes" \in {Ticks!BodyLeg, dirt}
  <2>1. said = Ticks!Unpublished(published, dirt)
    BY <1>10 DEF Ticks!Verdict
  <2> QED BY <1>1, <1>3, <1>4, <1>5, <1>6, <1>10, <2>1 DEF Ticks!Unpublished
<1> QED BY <1>8, <1>9, <1>10

LEMMA DetectorStep ==
  DetectorInv /\ fire \in TickFrame /\ [Ticks!Next]_ticksOnly => DetectorInv' /\ fire' \in TickFrame
<1> SUFFICES ASSUME DetectorInv, fire \in TickFrame, [Ticks!Next]_ticksOnly
             PROVE  DetectorInv' /\ fire' \in TickFrame
  OBVIOUS
<1> USE DEF DetectorInv, TickFrame
<1>1. CASE Ticks!Fire
  <2>1. /\ fire' \in TickFrame /\ fire'.step \in {"seat", "exited"}
        /\ UNCHANGED <<verdict, body, bank, open, marker>> /\ fire.step = "rest"
    <3>1. PICK readable \in BOOLEAN :
            fire' = [step |-> IF Ticks!Dirt THEN "exited" ELSE "seat", readable |-> readable]
      BY <1>1 DEF Ticks!Fire
    <3>2. fire' \in TickFrame /\ fire'.step \in {"seat", "exited"}
      <4>1. CASE Ticks!Dirt
        BY <3>1, <4>1
      <4>2. CASE ~Ticks!Dirt
        BY <3>1, <4>2
      <4> QED BY <4>1, <4>2
    <3> QED BY <1>1, <3>2 DEF Ticks!Fire
  <2>2. clean' => ~bank
    BY <1>1 DEF Ticks!Fire, Ticks!Dirt
  <2>3. clean' => ShowsTheFire'
    BY <2>1, <2>2 DEF ShowsTheFire, Ticks!NoBody
  <2>4. verdict.said = "none"
    BY <2>1
  <2> QED BY <2>1, <2>3, <2>4 DEF BodyFrame, Ticks!DetectorIsRight
<1>2. CASE Ticks!Compose
  <2>1. /\ UNCHANGED <<fire, marker, clean, verdict>> /\ fire.step = "seat"
    BY <1>2 DEF Ticks!Compose
  <2>2. verdict.said = "none"
    BY <2>1
  <2>3. CASE ~bank /\ bank' = TRUE /\ open' = open \cup {Ticks!Delta} /\ UNCHANGED body
    <3>1. BodyFrame' /\ (ShowsTheFire => ShowsTheFire')
      BY <2>1, <2>3, DeltaIsNoBody DEF BodyFrame, ShowsTheFire
    <3> QED BY <2>1, <2>2, <3>1 DEF Ticks!DetectorIsRight
  <2>4. ASSUME NEW n \in Ticks!Names \ open, NEW kind \in Ticks!Kinds,
               body' = [body EXCEPT ![n] = kind], open' = open \cup {n}, bank' = bank
        PROVE  DetectorInv' /\ fire' \in TickFrame
    <3>1. kind # "none"
      BY DEF Ticks!Kinds
    <3>2. BodyFrame' /\ (ShowsTheFire => ShowsTheFire')
      BY <2>1, <2>4, <3>1, DeltaIsNoBody DEF BodyFrame, ShowsTheFire
    <3> QED BY <2>1, <2>2, <3>2 DEF Ticks!DetectorIsRight
  <2> QED BY <1>2, <2>3, <2>4 DEF Ticks!Compose
<1>3. CASE Ticks!Land
  <2>1. /\ UNCHANGED <<fire, clean, verdict>> /\ fire.step = "seat" /\ verdict.said = "none"
    BY <1>3 DEF Ticks!Land
  <2>2. PICK decided \in SUBSET open :
          /\ open' = open \ decided
          /\ \/ /\ body' = [n \in Ticks!Names |->
                              IF n \in decided /\ body[n] = "absent" THEN "present" ELSE body[n]]
                /\ bank' = (bank /\ Ticks!Delta \notin decided)
                /\ marker' = marker
             \/ marker' = TRUE /\ body' = body /\ bank' = bank
    BY <1>3 DEF Ticks!Land
  <2>3. BodyFrame'
    BY <2>2 DEF BodyFrame, Ticks!Kinds
  <2>4. ShowsTheFire => ShowsTheFire'
    BY <2>2 DEF ShowsTheFire, BodyFrame
  <2> QED BY <2>1, <2>3, <2>4 DEF Ticks!DetectorIsRight
<1>4. CASE Ticks!SeatEnds
  <2>1. /\ UNCHANGED <<body, bank, marker, open, clean, verdict>> /\ fire.step = "seat"
        /\ fire' \in TickFrame /\ fire'.step = "exited"
    BY <1>4 DEF Ticks!SeatEnds
  <2> QED BY <2>1 DEF ShowsTheFire, BodyFrame, Ticks!DetectorIsRight
<1>5. CASE Ticks!Detect
  <2>1. PICK published \in Ticks!PublishedLegs, dirt \in Ticks!DirtLegs :
          verdict' = [said |-> Ticks!Verdict(Ticks!BodyLeg, published, dirt), dirt |-> dirt]
    BY <1>5 DEF Ticks!Detect
  <2>2. fire' \in TickFrame /\ fire'.step = "told" /\ fire.step = "exited"
    BY <1>5 DEF Ticks!Detect
  <2>3. UNCHANGED <<body, open, marker>> /\ clean' = (clean /\ ~Ticks!LedgerDirt)
    BY <1>5 DEF Ticks!Detect
  <2>4. ASSUME clean'
        PROVE  /\ verdict'.said = "ORPHANED" => open # {}
               /\ verdict'.said = "NOT_ORPHANED" /\ ~marker /\ verdict'.dirt # "unknown" =>
                    Ticks!Delta \notin open /\ (open = {} \/ Ticks!LookedFor = "present")
    <3>1. ShowsTheFire /\ BodyFrame /\ ~Ticks!LedgerDirt
      BY <2>2, <2>3, <2>4
    <3> QED BY <2>1, <3>1, VerdictIsRight
  <2>5. Ticks!LookedFor' = Ticks!LookedFor /\ BodyFrame'
    BY <2>3 DEF Ticks!LookedFor, Ticks!Candidates, BodyFrame
  <2>6. Ticks!DetectorIsRight'
    BY <2>3, <2>4, <2>5 DEF Ticks!DetectorIsRight
  <2> QED BY <2>2, <2>5, <2>6
<1>6. CASE Ticks!Over
  <2>1. /\ fire' = Ticks!Resting /\ body' = Ticks!NoBody /\ open' = {} /\ verdict' = Ticks!Unasked
    BY <1>6 DEF Ticks!Over
  <2>2. BodyFrame'
    BY <2>1 DEF BodyFrame, Ticks!NoBody
  <2>3. verdict'.said = "none"
    BY <2>1 DEF Ticks!Unasked
  <2>4. fire' \in TickFrame /\ fire'.step = "rest"
    BY <2>1, RestIsFramed
  <2> QED BY <2>1, <2>2, <2>3, <2>4 DEF Ticks!DetectorIsRight
<1>7. CASE Ticks!Clear
  <2>1. UNCHANGED <<fire, body, open, clean, verdict>> /\ fire.step = "rest" /\ verdict.said = "none"
    BY <1>7 DEF Ticks!Clear
  <2> QED BY <2>1 DEF BodyFrame, Ticks!DetectorIsRight
<1>8. CASE UNCHANGED <<fire, body, bank, marker, open, clean, verdict>>
  BY <1>8 DEF ShowsTheFire, BodyFrame, Ticks!DetectorIsRight, Ticks!LookedFor, Ticks!Candidates
<1>9. CASE Ticks!NextDay \/ UNCHANGED ticksOnly \/ \E w \in Ticks!Writers : Ticks!Book(w)
  BY <1>8, <1>9 DEF Ticks!NextDay, ticksOnly, Ticks!Book, Ticks!Append, Ticks!Add, Ticks!Commit,
    Ticks!Push, Ticks!Dies, Ticks!seatOnly
<1> QED BY <1>1, <1>2, <1>3, <1>4, <1>5, <1>6, <1>7, <1>9 DEF Ticks!Next

Verdicts == [said : {"none", "ORPHANED", "NOT_ORPHANED", "UNDETERMINED"},
             dirt : {"none", "yes", "no", "unknown"}]

\* The variables of a fire have their types.
SeatTypes ==
  /\ fires \in 0 .. MaxFires /\ fire \in TickFrame
  /\ bank \in BOOLEAN /\ marker \in BOOLEAN /\ clean \in BOOLEAN
  /\ verdict \in Verdicts

LEMMA SeatInit == Ticks!Init => SeatTypes
<1> SUFFICES ASSUME Ticks!Init PROVE SeatTypes
  OBVIOUS
<1>1. 0 \in 0 .. MaxFires
  BY TickAssumption
<1>2. Ticks!Unasked \in Verdicts
  BY DEF Ticks!Unasked, Verdicts
<1> QED BY <1>1, <1>2, RestIsFramed DEF Ticks!Init, SeatTypes

LEMMA SeatStep == SeatTypes /\ [Ticks!Next]_ticksOnly => SeatTypes'
<1> SUFFICES ASSUME SeatTypes, [Ticks!Next]_ticksOnly PROVE SeatTypes'
  OBVIOUS
<1> USE DEF SeatTypes
<1>1. CASE Ticks!Fire
  <2>1. PICK readable \in BOOLEAN :
          fire' = [step |-> IF Ticks!Dirt THEN "exited" ELSE "seat", readable |-> readable]
    BY <1>1 DEF Ticks!Fire
  <2>2. fire' \in TickFrame
    <3>1. CASE Ticks!Dirt
      BY <2>1, <3>1 DEF TickFrame
    <3>2. CASE ~Ticks!Dirt
      BY <2>1, <3>2 DEF TickFrame
    <3> QED BY <3>1, <3>2
  <2>3. fires' \in 0 .. MaxFires
    BY <1>1, TickAssumption DEF Ticks!Fire
  <2>4. clean' \in BOOLEAN
    BY <1>1 DEF Ticks!Fire
  <2> QED BY <1>1, <2>2, <2>3, <2>4 DEF Ticks!Fire
<1>2. CASE Ticks!Compose
  BY <1>2 DEF Ticks!Compose
<1>3. CASE Ticks!Land
  <2>1. UNCHANGED <<fires, fire, clean, verdict>> /\ marker' \in BOOLEAN /\ bank' \in BOOLEAN
    BY <1>3 DEF Ticks!Land
  <2> QED BY <2>1
<1>4. CASE Ticks!SeatEnds \/ Ticks!Over
  <2>1. fire' \in TickFrame
    BY <1>4, RestIsFramed DEF Ticks!SeatEnds, Ticks!Over, TickFrame
  <2>2. verdict' \in Verdicts
    <3>1. CASE Ticks!SeatEnds
      BY <3>1 DEF Ticks!SeatEnds
    <3>2. CASE Ticks!Over
      <4>1. verdict' = [said |-> "none", dirt |-> "none"]
        BY <3>2 DEF Ticks!Over, Ticks!Unasked
      <4> QED BY <4>1 DEF Verdicts
    <3> QED BY <1>4, <3>1, <3>2
  <2> QED BY <1>4, <2>1, <2>2 DEF Ticks!SeatEnds, Ticks!Over
<1>5. CASE Ticks!Detect
  <2>1. PICK published \in Ticks!PublishedLegs, dirt \in Ticks!DirtLegs :
          verdict' = [said |-> Ticks!Verdict(Ticks!BodyLeg, published, dirt), dirt |-> dirt]
    BY <1>5 DEF Ticks!Detect
  <2>2. dirt \in {"yes", "no", "unknown"}
    BY DEF Ticks!DirtLegs, Ticks!Answer
  <2>3. Ticks!Verdict(Ticks!BodyLeg, published, dirt) \in {"ORPHANED", "NOT_ORPHANED", "UNDETERMINED"}
    <3>1. Ticks!Unpublished(published, dirt) \in {"ORPHANED", "NOT_ORPHANED", "UNDETERMINED"}
      BY DEF Ticks!Unpublished
    <3>2. CASE marker
      BY <3>2 DEF Ticks!Verdict
    <3>3. CASE ~marker /\ "yes" \notin {Ticks!BodyLeg, dirt}
      BY <3>3 DEF Ticks!Verdict
    <3>4. CASE ~marker /\ "yes" \in {Ticks!BodyLeg, dirt}
      BY <3>1, <3>4 DEF Ticks!Verdict
    <3> QED BY <3>2, <3>3, <3>4
  <2>4. verdict' \in Verdicts
    BY <2>1, <2>2, <2>3 DEF Verdicts
  <2>5. fire' \in TickFrame
    BY <1>5 DEF Ticks!Detect, TickFrame
  <2>6. clean' \in BOOLEAN
    BY <1>5 DEF Ticks!Detect
  <2> QED BY <1>5, <2>4, <2>5, <2>6 DEF Ticks!Detect
<1>6. CASE Ticks!Clear
  BY <1>6 DEF Ticks!Clear
<1>7. CASE Ticks!NextDay \/ UNCHANGED ticksOnly \/ \E w \in Ticks!Writers : Ticks!Book(w)
  BY <1>7 DEF Ticks!NextDay, ticksOnly, Ticks!Book, Ticks!Append, Ticks!Add, Ticks!Commit,
    Ticks!Push, Ticks!Dies, Ticks!seatOnly
<1> QED BY <1>1, <1>2, <1>3, <1>4, <1>5, <1>6, <1>7 DEF Ticks!Next

-----------------------------------------------------------------------------
(* The records of a day.                                                   *)

DayNumbers == 1 .. Days
Hands == {"launcher", "hand"}

\* Of the records: a writer's is in its file once it wrote it, and is committed once it
\* committed it, whoever writes to the file of the same day.
Pens == [step : {"idle", "append", "add", "commit", "committed"}, record : 0 .. MaxRecords,
         file : DayNumbers]

LedgerTypes ==
  /\ day \in DayNumbers
  /\ tree \in [DayNumbers -> SUBSET (1 .. MaxRecords)]
  /\ head \in [DayNumbers -> SUBSET (1 .. MaxRecords)]
  /\ wrote \in [DayNumbers -> SUBSET (1 .. MaxRecords)]
  /\ shown \in [DayNumbers -> SUBSET (1 .. MaxRecords)]
  /\ staged \in [DayNumbers -> BOOLEAN]
  /\ pen \in [Hands -> Pens]
  /\ \A w \in Hands : pen[w].step # "idle" => pen[w].record \in 1 .. MaxRecords

Kept ==
  /\ \A d \in DayNumbers : wrote[d] = tree[d] /\ shown[d] = head[d] /\ head[d] \subseteq tree[d]
  /\ \A w \in Hands : pen[w].step \in {"add", "commit", "committed"} =>
       pen[w].record \in wrote[pen[w].file]
  /\ \A w \in Hands : pen[w].step = "committed" => pen[w].record \in shown[pen[w].file]

RecordsInv == LedgerTypes /\ Kept

LEMMA RecordsInit == Ticks!Init => RecordsInv
<1> SUFFICES ASSUME Ticks!Init PROVE RecordsInv
  OBVIOUS
<1> USE DEF Ticks!Init
<1>1. 1 \in DayNumbers /\ 0 \in 0 .. MaxRecords
  BY TickAssumption DEF DayNumbers, Ticks!AllDays
<1>2. pen \in [Hands -> Pens] /\ \A w \in Hands : pen[w].step = "idle"
  BY <1>1 DEF Pens, Ticks!Writers, Hands
<1> QED BY <1>1, <1>2 DEF RecordsInv, LedgerTypes, Kept, DayNumbers, Ticks!AllDays

\* A record that nobody uses is there to be taken.
LEMMA RecordsRunOut ==
  ASSUME LedgerTypes
  PROVE  Ticks!NextRecord \in 1 .. MaxRecords + 1
<1> DEFINE used == Ticks!Written \cup {pen[w].record : w \in {v \in Hands : ~Ticks!Idle(v)}}
           S == {r \in 1 .. MaxRecords + 1 : r \notin used}
<1>1. used \subseteq 0 .. MaxRecords
  BY DEF LedgerTypes, Ticks!Written, Pens, Ticks!AllDays, Ticks!Writers, DayNumbers, Hands
<1>2. S \in SUBSET Nat /\ S # {}
  <2>1. MaxRecords + 1 \in S
    BY <1>1, TickAssumption
  <2> QED BY <2>1
<1>3. PICK m \in S : \A k \in S : m <= k
  <2> HIDE DEF S
  <2> QED BY <1>2, LeastNat
<1>4. m \in 1 .. MaxRecords + 1 /\ m \notin used
  OBVIOUS
<1>5. 1 .. (m - 1) \subseteq used
  <2> SUFFICES ASSUME NEW k \in 1 .. (m - 1), k \notin used PROVE FALSE
    OBVIOUS
  <2>1. k \in 1 .. MaxRecords + 1 /\ k < m
    BY <1>4, TickAssumption
  <2>2. k \in S
    BY <2>1
  <2> QED BY <1>3, <1>4, <2>1, <2>2
<1> HIDE DEF used, S
<1>6. \E r \in 1 .. (MaxRecords + 1) : r \notin used /\ 1 .. (r - 1) \subseteq used
  BY <1>4, <1>5
<1>7. (CHOOSE r \in 1 .. (MaxRecords + 1) : r \notin used /\ 1 .. (r - 1) \subseteq used)
        \in 1 .. MaxRecords + 1
  BY <1>6
<1> QED BY <1>7 DEF Ticks!NextRecord, used, Hands, Ticks!Writers

\* A writer takes a record and the file of the day.
LEMMA TakeStep ==
  ASSUME RecordsInv, NEW w \in Hands, Ticks!NextRecord <= MaxRecords, Ticks!Take(w),
         UNCHANGED <<day, tree, head, wrote, shown, staged>>
  PROVE  RecordsInv'
<1>1. PICK x : x = [step |-> "append", record |-> Ticks!NextRecord, file |-> day]
  OBVIOUS
<1>2. x \in Pens /\ x.step = "append" /\ x.record \in 1 .. MaxRecords
  <2>1. Ticks!NextRecord \in 1 .. MaxRecords
    BY RecordsRunOut, TickAssumption DEF RecordsInv
  <2> QED BY <1>1, <2>1 DEF Pens, RecordsInv, LedgerTypes
<1>3. pen' = [pen EXCEPT ![w] = x]
  BY <1>1 DEF Ticks!Take
<1>4. /\ pen' \in [Hands -> Pens]
      /\ \A v \in Hands :
           pen'[v] = pen[v] \/ (pen'[v].step = "append" /\ pen'[v].record \in 1 .. MaxRecords)
  BY <1>2, <1>3 DEF RecordsInv, LedgerTypes
<1> QED BY <1>4 DEF RecordsInv, LedgerTypes, Kept

\* What a step of a writer leaves of what it holds.
LEMMA PenStep ==
  ASSUME LedgerTypes, NEW w \in Hands, NEW s, pen' = Ticks!Step(w, s),
         s \in {"idle", "append", "add", "commit", "committed"}
  PROVE  /\ pen' \in [Hands -> Pens]
         /\ pen'[w].step = s
         /\ \A v \in Hands : /\ pen'[v].record = pen[v].record /\ pen'[v].file = pen[v].file
                             /\ v # w => pen'[v].step = pen[v].step
<1>1. PICK x : x = [step |-> s, record |-> pen[w].record, file |-> pen[w].file]
  OBVIOUS
<1>2. pen[w] \in Pens
  BY DEF LedgerTypes
<1>3. x \in Pens /\ x.step = s /\ x.record = pen[w].record /\ x.file = pen[w].file
  BY <1>1, <1>2 DEF Pens
<1>4. x = [pen[w] EXCEPT !.step = s]
  BY <1>1, <1>2 DEF Pens
<1>5. pen' = [pen EXCEPT ![w] = x]
  BY <1>4 DEF Ticks!Step, LedgerTypes
<1> QED BY <1>3, <1>5 DEF LedgerTypes

LEMMA RecordsStep == RecordsInv /\ [Ticks!Next]_ticksOnly => RecordsInv'
<1> SUFFICES ASSUME RecordsInv, [Ticks!Next]_ticksOnly PROVE RecordsInv'
  OBVIOUS
<1>1. LedgerTypes /\ Kept
  BY DEF RecordsInv
<1>2. CASE UNCHANGED <<day, tree, head, wrote, shown, staged, pen>>
  BY <1>1, <1>2 DEF RecordsInv, LedgerTypes, Kept
<1>3. CASE Ticks!Fire \/ Ticks!Compose \/ Ticks!Land \/ Ticks!SeatEnds \/ Ticks!Over \/ UNCHANGED ticksOnly
  BY <1>2, <1>3 DEF Ticks!Fire, Ticks!Compose, Ticks!Land, Ticks!SeatEnds, Ticks!Over, ticksOnly, Ticks!ledger
<1>4. CASE Ticks!Detect
  <2>1. UNCHANGED <<day, tree, head, wrote, shown, staged>> /\ "launcher" \in Hands
    BY <1>4 DEF Ticks!Detect, Hands
  <2>2. (Ticks!NextRecord <= MaxRecords /\ Ticks!Take("launcher")) \/ UNCHANGED pen
    BY <1>4 DEF Ticks!Detect
  <2> QED BY <1>2, <2>1, <2>2, TakeStep
<1>5. CASE Ticks!Clear
  <2>1. UNCHANGED <<day, tree, head, wrote, shown, staged>> /\ "hand" \in Hands
    BY <1>5 DEF Ticks!Clear, Hands
  <2>2. (Ticks!NextRecord <= MaxRecords /\ Ticks!Take("hand")) \/ UNCHANGED pen
    BY <1>5 DEF Ticks!Clear
  <2> QED BY <1>2, <2>1, <2>2, TakeStep
<1>6. CASE Ticks!NextDay
  <2>1. day' \in DayNumbers /\ UNCHANGED <<tree, head, wrote, shown, staged, pen>>
    BY <1>1, <1>6, TickAssumption DEF Ticks!NextDay, Ticks!ledger, LedgerTypes, DayNumbers
  <2> QED BY <1>1, <2>1 DEF RecordsInv, LedgerTypes, Kept
<1>7. ASSUME NEW w \in Hands, Ticks!Append(w) PROVE RecordsInv'
  <2>1. PICK d, r : d = pen[w].file /\ r = pen[w].record
    OBVIOUS
  <2>2. /\ d \in DayNumbers /\ r \in 1 .. MaxRecords
        /\ tree' = [tree EXCEPT ![d] = @ \cup {r}] /\ wrote' = [wrote EXCEPT ![d] = @ \cup {r}]
        /\ UNCHANGED <<day, staged, head, shown>>
    BY <1>1, <1>7, <2>1 DEF Ticks!Append, Ticks!Appended, LedgerTypes, Pens
  <2>3. /\ pen' \in [Hands -> Pens]
        /\ pen'[w].step = "add"
        /\ \A v \in Hands : /\ pen'[v].record = pen[v].record /\ pen'[v].file = pen[v].file
                            /\ v # w => pen'[v].step = pen[v].step
    BY <1>1, <1>7, PenStep DEF Ticks!Append
  <2>4. /\ tree' \in [DayNumbers -> SUBSET (1 .. MaxRecords)]
        /\ wrote' \in [DayNumbers -> SUBSET (1 .. MaxRecords)]
        /\ \A e \in DayNumbers : tree[e] \subseteq tree'[e] /\ wrote'[e] = tree'[e]
        /\ r \in wrote'[d]
    BY <1>1, <2>2 DEF LedgerTypes, Kept
  <2>5. \A v \in Hands : pen[v].file \in DayNumbers
    BY <1>1 DEF LedgerTypes, Pens
  <2>6. LedgerTypes'
    BY <1>1, <2>1, <2>2, <2>3, <2>4 DEF LedgerTypes
  <2>7. \A e \in DayNumbers :
          /\ wrote[e] \subseteq wrote'[e] /\ wrote'[e] = tree'[e]
          /\ shown'[e] = head'[e] /\ head'[e] \subseteq tree'[e]
    BY <1>1, <2>2, <2>4 DEF Kept
  <2>8. ASSUME NEW v \in Hands, pen'[v].step \in {"add", "commit", "committed"}
        PROVE  pen'[v].record \in wrote'[pen'[v].file]
    <3>1. CASE v = w
      BY <2>1, <2>3, <2>4, <3>1
    <3>2. CASE v # w
      <4>1. pen[v].record \in wrote[pen[v].file]
        BY <1>1, <2>3, <2>8, <3>2 DEF Kept
      <4> QED BY <2>3, <2>5, <2>7, <4>1
    <3> QED BY <3>1, <3>2
  <2>9. ASSUME NEW v \in Hands, pen'[v].step = "committed"
        PROVE  pen'[v].record \in shown'[pen'[v].file]
    <3>1. v # w /\ pen[v].step = "committed"
      BY <2>3, <2>9
    <3> QED BY <1>1, <2>2, <2>3, <3>1 DEF Kept
  <2>10. Kept'
    BY <2>7, <2>8, <2>9 DEF Kept
  <2> QED BY <2>6, <2>10 DEF RecordsInv
<1>8. ASSUME NEW w \in Hands, Ticks!Add(w) PROVE RecordsInv'
  <2>1. /\ UNCHANGED <<day, tree, head, wrote, shown>> /\ staged' \in [DayNumbers -> BOOLEAN]
        /\ pen[w].step = "add"
    BY <1>1, <1>8 DEF Ticks!Add, LedgerTypes
  <2>2. /\ pen' \in [Hands -> Pens]
        /\ pen'[w].step = "commit"
        /\ \A v \in Hands : /\ pen'[v].record = pen[v].record /\ pen'[v].file = pen[v].file
                            /\ v # w => pen'[v].step = pen[v].step
    BY <1>1, <1>8, PenStep DEF Ticks!Add
  <2> QED BY <1>1, <2>1, <2>2 DEF RecordsInv, LedgerTypes, Kept
<1>9. ASSUME NEW w \in Hands, Ticks!Push(w) \/ Ticks!Dies(w) PROVE RecordsInv'
  <2>1. UNCHANGED <<day, tree, staged, head, wrote, shown>>
    BY <1>9 DEF Ticks!Push, Ticks!Dies
  <2>2. /\ pen' \in [Hands -> Pens]
        /\ pen'[w].step = "idle"
        /\ \A v \in Hands : /\ pen'[v].record = pen[v].record /\ pen'[v].file = pen[v].file
                            /\ v # w => pen'[v].step = pen[v].step
    BY <1>1, <1>9, PenStep DEF Ticks!Push, Ticks!Dies
  <2> QED BY <1>1, <2>1, <2>2 DEF RecordsInv, LedgerTypes, Kept
<1>10. ASSUME NEW w \in Hands, Ticks!Commit(w) PROVE RecordsInv'
  <2>1. PICK d : d = pen[w].file
    OBVIOUS
  <2>2. UNCHANGED <<day, tree, staged, wrote>> /\ d \in DayNumbers /\ pen[w].step = "commit"
    BY <1>1, <1>10, <2>1 DEF Ticks!Commit, LedgerTypes, Pens
  <2>3. CASE /\ head' = [head EXCEPT ![d] = tree[d]] /\ shown' = [shown EXCEPT ![d] = @ \cup tree[d]]
             /\ pen' = Ticks!Step(w, "committed")
    <3>1. /\ pen' \in [Hands -> Pens]
          /\ pen'[w].step = "committed"
          /\ \A v \in Hands : /\ pen'[v].record = pen[v].record /\ pen'[v].file = pen[v].file
                              /\ v # w => pen'[v].step = pen[v].step
      BY <1>1, <2>3, PenStep
    <3>2. /\ head' \in [DayNumbers -> SUBSET (1 .. MaxRecords)]
          /\ shown' \in [DayNumbers -> SUBSET (1 .. MaxRecords)]
          /\ \A e \in DayNumbers : head[e] \subseteq head'[e] /\ head'[e] \subseteq tree[e]
          /\ \A e \in DayNumbers : shown'[e] = head'[e]
          /\ shown'[d] = wrote[d]
      BY <1>1, <2>2, <2>3 DEF LedgerTypes, Kept
    <3>3. \A v \in Hands : pen[v].file \in DayNumbers
      BY <1>1 DEF LedgerTypes, Pens
    <3>4. LedgerTypes'
      BY <1>1, <2>2, <3>1, <3>2 DEF LedgerTypes
    <3>5. Kept'
      BY <1>1, <2>1, <2>2, <3>1, <3>2, <3>3 DEF Kept
    <3> QED BY <3>4, <3>5 DEF RecordsInv
  <2>4. CASE pen' = Ticks!Step(w, "idle") /\ UNCHANGED <<head, shown>>
    <3>1. /\ pen' \in [Hands -> Pens]
          /\ pen'[w].step = "idle"
          /\ \A v \in Hands : /\ pen'[v].record = pen[v].record /\ pen'[v].file = pen[v].file
                              /\ v # w => pen'[v].step = pen[v].step
      BY <1>1, <2>4, PenStep
    <3> QED BY <1>1, <2>2, <2>4, <3>1 DEF RecordsInv, LedgerTypes, Kept
  <2> QED BY <1>10, <2>1, <2>3, <2>4 DEF Ticks!Commit
<1> QED BY <1>3, <1>4, <1>5, <1>6, <1>7, <1>8, <1>9, <1>10 DEF Ticks!Next, Ticks!Book, Hands, Ticks!Writers

-----------------------------------------------------------------------------
(***************************************************************************)
(* The preview binding.                                                    *)
(***************************************************************************)

DateNumbers == 1 .. Dates
\* What a lane holds, and the pieces of an emission: other texts than the body that was
\* previewed are not among them.
Pieces == {"LF", "epoch", "supersedes", "body", "other body", "end", "note"}
Texts == Seq(Pieces)

LaneShape(lane) == lane = [present |-> lane.present, data |-> lane.data] /\ lane.present \in BOOLEAN
                     /\ lane.data \in Texts /\ (lane.data # <<>> => lane.present)

LaneTypes ==
  /\ today \in DateNumbers
  /\ DOMAIN lanes = DateNumbers /\ lanes = [d \in DateNumbers |-> lanes[d]]
  /\ \A d \in DateNumbers : LaneShape(lanes[d])

\* A binding that was handed out is of a state its lane was in, and what it would write
\* there.
Fair(pv) ==
  /\ pv.date \in DateNumbers /\ pv.request = "request" /\ pv.correction \in BOOLEAN
  /\ \E lane : /\ LaneShape(lane) /\ pv.state = Binding!Observe(lane)
               /\ pv.emission = Binding!Emission(lane, "body", pv.correction)

\* An append under way is of a binding that was handed out; the one that writes has put
\* all but the rest where the preview showed it.
FlightShape(f) == f = [step |-> f.step, pv |-> f.pv, body |-> f.body, rest |-> f.rest]
Holds(c) ==
  /\ FlightShape(flight[c])
  /\ flight[c].step \in {"rest", "lock", "write"}
  /\ flight[c].step # "rest" => flight[c].pv \in minted /\ flight[c].body \in Binding!Bodies
  /\ flight[c].step = "write" =>
       /\ flight[c].rest \in Texts /\ lanes[flight[c].pv.date].present
       /\ lanes[flight[c].pv.date].data \o flight[c].rest = flight[c].pv.state.prefix \o flight[c].pv.emission

Causes == {"none", "binding-invalid", "wrong-route", "PREVIEW_STALE"}

BindingInv ==
  /\ LaneTypes
  /\ \A pv \in minted : Fair(pv)
  /\ DOMAIN flight = Clients /\ DOMAIN refusal = Clients
  /\ \A c \in Clients : Holds(c) /\ refusal[c].cause \in Causes /\ refusal[c].due
  /\ \A b, c \in Clients : flight[b].step = "write" /\ flight[c].step = "write" => b = c

\* An emission is made of its own pieces.
LEMMA EmissionShape ==
  ASSUME NEW lane, NEW correction \in BOOLEAN, NEW text \in Pieces, LaneShape(lane)
  PROVE  /\ Binding!Emission(lane, text, correction) \in Texts
         /\ Binding!Emission(lane, text, correction) \in Seq({"LF", "epoch", "supersedes", text, "end"})
<1> DEFINE S == {"LF", "epoch", "supersedes", text, "end"}
<1>1. PICK a : a = IF lane.data # <<>> /\ ~Binding!EndsInLf(lane.data) THEN <<"LF">> ELSE <<>>
  OBVIOUS
<1>2. PICK b : b = IF Binding!Contains(lane.data, "epoch") THEN <<>> ELSE <<"epoch">>
  OBVIOUS
<1>3. PICK c : c = IF correction THEN <<"supersedes">> ELSE <<>>
  OBVIOUS
<1>4. PICK d : d = <<text, "end">>
  OBVIOUS
<1>5. Binding!Emission(lane, text, correction) = ((a \o b) \o c) \o d
  BY <1>1, <1>2, <1>3, <1>4 DEF Binding!Emission
<1>6. a \in Seq(S) /\ b \in Seq(S) /\ c \in Seq(S) /\ d \in Seq(S)
  <2>1. (a = <<>> \/ a = <<"LF">>) /\ (b = <<>> \/ b = <<"epoch">>) /\ (c = <<>> \/ c = <<"supersedes">>)
    BY <1>1, <1>2, <1>3
  <2>2. <<>> \in Seq(S) /\ <<"LF">> \in Seq(S) /\ <<"epoch">> \in Seq(S) /\ <<"supersedes">> \in Seq(S)
    OBVIOUS
  <2>3. d \in Seq(S)
    BY <1>4
  <2> HIDE DEF S
  <2> QED BY <2>1, <2>2, <2>3
<1> HIDE DEF S
<1>7. a \o b \in Seq(S)
  BY <1>6, ConcatProperties
<1>8. (a \o b) \o c \in Seq(S)
  BY <1>6, <1>7, ConcatProperties
<1>9. PICK e : e = (a \o b) \o c
  OBVIOUS
<1>10. e \o d \in Seq(S)
  <2>1. e \in Seq(S)
    BY <1>8, <1>9
  <2> QED BY <1>6, <2>1, ConcatProperties
<1>12. S \subseteq Pieces
  BY DEF S, Pieces
<1>13. e \o d \in Texts
  BY <1>10, <1>12 DEF Texts
<1> QED BY <1>5, <1>9, <1>10, <1>13 DEF S

\* The text of a request that is not what was previewed is not in the emission.
LEMMA OthersAreNotShown ==
  ASSUME NEW lane, NEW correction \in BOOLEAN, LaneShape(lane)
  PROVE  ~Binding!Contains(Binding!Emission(lane, "body", correction), "other body")
<1>1. PICK e : e = Binding!Emission(lane, "body", correction)
  OBVIOUS
<1>2. e \in Seq({"LF", "epoch", "supersedes", "body", "end"})
  BY <1>1, EmissionShape DEF Pieces
<1>3. \A i \in 1 .. Len(e) : e[i] \in {"LF", "epoch", "supersedes", "body", "end"}
  BY <1>2
<1>4. \A i \in 1 .. Len(e) : e[i] # "other body"
  BY <1>3
<1> QED BY <1>1, <1>4 DEF Binding!Contains

LEMMA BindingInit == Binding!Init => BindingInv
<1> SUFFICES ASSUME Binding!Init PROVE BindingInv
  OBVIOUS
<1> USE DEF Binding!Init
<1>1. today \in DateNumbers
  BY PreviewAssumption DEF DateNumbers
<1>2. lanes = [d \in DateNumbers |-> [present |-> FALSE, data |-> <<>>]]
  BY DEF DateNumbers, Binding!AllDates, Binding!Absent
<1>3. LaneTypes
  <2>1. /\ DOMAIN lanes = DateNumbers
        /\ \A d \in DateNumbers : lanes[d] = [present |-> FALSE, data |-> <<>>]
    BY <1>2
  <2>2. LaneShape([present |-> FALSE, data |-> <<>>])
    BY DEF LaneShape, Texts
  <2>3. lanes = [d \in DateNumbers |-> lanes[d]]
    BY <1>2, <2>1
  <2> QED BY <1>1, <2>1, <2>2, <2>3 DEF LaneTypes
<1>4. /\ DOMAIN flight = Clients /\ DOMAIN refusal = Clients /\ minted = {}
      /\ \A c \in Clients : flight[c].step = "rest" /\ refusal[c].cause = "none" /\ refusal[c].due
      /\ \A c \in Clients : FlightShape(flight[c])
  BY DEF Binding!Resting, Binding!Unrefused, FlightShape
<1> QED BY <1>3, <1>4 DEF BindingInv, Holds, Causes

\* A preview hands out what it saw.
LEMMA PreviewStep == BindingInv /\ Binding!Preview => BindingInv'
<1> SUFFICES ASSUME BindingInv, Binding!Preview PROVE BindingInv'
  OBVIOUS
<1>1. UNCHANGED <<today, lanes, flight, refusal>>
  BY DEF Binding!Preview
<1>2. PICK date \in DateNumbers, correction \in BOOLEAN :
        minted' = minted \cup {Binding!Binding(date, "request", "body", correction)}
  BY DEF Binding!Preview, BindingInv, LaneTypes, Binding!AllDates, DateNumbers
<1>3. PICK pv : pv = Binding!Binding(date, "request", "body", correction)
  OBVIOUS
<1>4. Fair(pv)
  <2>1. /\ pv.date = date /\ pv.request = "request" /\ pv.correction = correction
        /\ pv.state = Binding!Observe(lanes[date])
        /\ pv.emission = Binding!Emission(lanes[date], "body", correction)
    BY <1>3 DEF Binding!Binding
  <2>2. LaneShape(lanes[date])
    BY DEF BindingInv, LaneTypes
  <2> QED BY <2>1, <2>2 DEF Fair
<1>5. \A p \in minted' : Fair(p)
  BY <1>2, <1>3, <1>4 DEF BindingInv
<1>6. \A c \in Clients : Holds(c)'
  BY <1>1, <1>2 DEF BindingInv, Holds
<1> QED BY <1>1, <1>5, <1>6 DEF BindingInv, LaneTypes

\* A client that goes back to rest, or to the lock, holds nothing up.
LEMMA ReturnStep ==
  ASSUME BindingInv, NEW c \in Clients, NEW f, FlightShape(f), UNCHANGED <<today, lanes, minted>>,
         flight' = [flight EXCEPT ![c] = f],
         \/ f.step = "rest"
         \/ f.step = "lock" /\ f.pv \in minted /\ f.body \in Binding!Bodies,
         NEW r, refusal' = [refusal EXCEPT ![c] = r], r.cause \in Causes, r.due
  PROVE  BindingInv'
<1>1. /\ DOMAIN flight' = Clients /\ DOMAIN refusal' = Clients
      /\ flight'[c] = f /\ refusal'[c] = r
      /\ \A b \in Clients : b # c => flight'[b] = flight[b] /\ refusal'[b] = refusal[b]
  BY DEF BindingInv
<1>2. ASSUME NEW b \in Clients PROVE Holds(b)' /\ refusal'[b].cause \in Causes /\ refusal'[b].due
  <2>1. CASE b = c
    BY <1>1, <2>1 DEF Holds, Binding!Bodies
  <2>2. CASE b # c
    BY <1>1, <2>2 DEF Holds, BindingInv, Binding!Bodies
  <2> QED BY <2>1, <2>2
<1>3. \A a, b \in Clients : flight'[a].step = "write" /\ flight'[b].step = "write" => a = b
  BY <1>1 DEF BindingInv
<1>4. LaneTypes' /\ \A pv \in minted' : Fair(pv)
  BY DEF BindingInv, LaneTypes
<1> QED BY <1>1, <1>2, <1>3, <1>4 DEF BindingInv

LEMMA SubmitStep == ASSUME BindingInv, NEW c \in Clients, Binding!Submit(c) PROVE BindingInv'
<1>1. UNCHANGED <<today, lanes, minted>>
  BY DEF Binding!Submit
<1>2. ASSUME NEW cause \in Causes, Binding!Refuse(c, cause, TRUE) PROVE BindingInv'
  <2>1. PICK f : f = Binding!Resting
    OBVIOUS
  <2>2. PICK r : r = [cause |-> cause, due |-> TRUE]
    OBVIOUS
  <2>3. FlightShape(f) /\ f.step = "rest" /\ r.cause \in Causes /\ r.due
    BY <2>1, <2>2 DEF Binding!Resting, FlightShape
  <2>4. flight' = [flight EXCEPT ![c] = f] /\ refusal' = [refusal EXCEPT ![c] = r]
    BY <1>2, <2>1, <2>2 DEF Binding!Refuse
  <2> QED BY <1>1, <2>3, <2>4, ReturnStep
<1>3. ASSUME NEW pv \in minted, NEW text \in Binding!Bodies,
             flight' = [flight EXCEPT ![c] = [step |-> "lock", pv |-> pv, body |-> text, rest |-> <<>>]],
             refusal' = [refusal EXCEPT ![c] = Binding!Unrefused]
      PROVE  BindingInv'
  <2>1. PICK f : f = [step |-> "lock", pv |-> pv, body |-> text, rest |-> <<>>]
    OBVIOUS
  <2>2. PICK r : r = Binding!Unrefused
    OBVIOUS
  <2>3. /\ FlightShape(f) /\ f.step = "lock" /\ f.pv \in minted /\ f.body \in Binding!Bodies
        /\ r.cause \in Causes /\ r.due
    BY <2>1, <2>2 DEF Binding!Unrefused, Causes, FlightShape
  <2>4. flight' = [flight EXCEPT ![c] = f] /\ refusal' = [refusal EXCEPT ![c] = r]
    BY <1>3, <2>1, <2>2
  <2> QED BY <1>1, <2>3, <2>4, ReturnStep
<1>4. "binding-invalid" \in Causes /\ "wrong-route" \in Causes
  BY DEF Causes
<1> QED BY <1>2, <1>3, <1>4 DEF Binding!Submit, Binding!Verified

\* Whoever lets go, done or not, leaves the lane as it is.
LEMMA LetGoStep ==
  ASSUME BindingInv, NEW c \in Clients, Binding!Done(c) \/ Binding!Fail(c)
  PROVE  BindingInv'
<1>1. PICK f, r : f = Binding!Resting /\ r = refusal[c]
  OBVIOUS
<1>2. FlightShape(f) /\ f.step = "rest" /\ r.cause \in Causes /\ r.due
  BY <1>1 DEF Binding!Resting, FlightShape, BindingInv
<1>3. /\ UNCHANGED <<today, lanes, minted>> /\ flight' = [flight EXCEPT ![c] = f]
      /\ refusal' = refusal
  BY <1>1 DEF Binding!Done, Binding!Fail
<1>4. CASE refusal' = [refusal EXCEPT ![c] = r]
  BY <1>2, <1>3, <1>4, ReturnStep
<1>5. CASE refusal' # [refusal EXCEPT ![c] = r]
  <2>1. /\ DOMAIN flight' = Clients /\ DOMAIN refusal' = Clients
        /\ flight'[c] = f /\ \A b \in Clients : b # c => flight'[b] = flight[b]
    BY <1>3 DEF BindingInv
  <2>2. ASSUME NEW b \in Clients PROVE Holds(b)' /\ refusal'[b].cause \in Causes /\ refusal'[b].due
    <3>1. CASE b = c
      BY <1>2, <1>3, <2>1, <3>1 DEF Holds, BindingInv
    <3>2. CASE b # c
      BY <1>3, <2>1, <3>2 DEF Holds, BindingInv, Binding!Bodies
    <3> QED BY <3>1, <3>2
  <2>3. \A a, b \in Clients : flight'[a].step = "write" /\ flight'[b].step = "write" => a = b
    BY <1>2, <2>1 DEF BindingInv
  <2>4. LaneTypes' /\ \A pv \in minted' : Fair(pv)
    BY <1>3 DEF BindingInv, LaneTypes
  <2> QED BY <2>1, <2>2, <2>3, <2>4 DEF BindingInv
<1> QED BY <1>4, <1>5

\* A lane that is changed keeps the shape of a lane.
LEMMA LaneStep ==
  ASSUME LaneTypes, NEW d \in DateNumbers, NEW lane, LaneShape(lane),
         lanes' = [lanes EXCEPT ![d] = lane], today' = today
  PROVE  /\ LaneTypes' /\ lanes'[d] = lane
         /\ \A e \in DateNumbers : e # d => lanes'[e] = lanes[e]
BY DEF LaneTypes

\* Nobody writes, so a lane may change.
LEMMA EditStep == BindingInv /\ Binding!Edit => BindingInv'
<1> SUFFICES ASSUME BindingInv, Binding!Edit PROVE BindingInv'
  OBVIOUS
<1>1. UNCHANGED <<today, minted, flight, refusal>> /\ \A b \in Clients : flight[b].step # "write"
  BY DEF Binding!Edit, Binding!Locked
<1>2. PICK d \in DateNumbers, piece \in {"note", "LF"} :
        \/ lanes' = [lanes EXCEPT ![d] = [present |-> TRUE, data |-> Append(@.data, piece)]]
        \/ lanes[d].data # <<>> /\ lanes' = [lanes EXCEPT ![d].data = Append(Binding!Front(@), piece)]
  BY DEF Binding!Edit, Binding!AllDates, DateNumbers
<1>3. LaneTypes /\ LaneShape(lanes[d]) /\ piece \in Pieces
  BY DEF BindingInv, LaneTypes, Pieces
<1>4. LaneTypes'
  <2>1. CASE lanes' = [lanes EXCEPT ![d] = [present |-> TRUE, data |-> Append(@.data, piece)]]
    <3>1. PICK lane : lane = [present |-> TRUE, data |-> Append(lanes[d].data, piece)]
      OBVIOUS
    <3>2. LaneShape(lane)
      BY <1>3, <3>1, AppendProperties DEF LaneShape, Texts
    <3>3. lanes' = [lanes EXCEPT ![d] = lane]
      BY <1>3, <2>1, <3>1 DEF LaneTypes
    <3> QED BY <1>1, <1>3, <3>2, <3>3, LaneStep
  <2>2. CASE lanes[d].data # <<>> /\ lanes' = [lanes EXCEPT ![d].data = Append(Binding!Front(@), piece)]
    <3>1. PICK s : s = lanes[d].data
      OBVIOUS
    <3>2. s \in Texts /\ Len(s) \in Nat
      BY <1>3, <3>1 DEF LaneShape, Texts
    <3>3. PICK t : t = Append(Binding!Front(s), piece)
      OBVIOUS
    <3>4. t \in Texts
      <4>1. SubSeq(s, 1, Len(s) - 1) \in Seq(Pieces)
        BY <3>2, SubSeqProperties DEF Texts
      <4> QED BY <1>3, <3>3, <4>1, AppendProperties DEF Texts, Binding!Front
    <3>5. PICK lane : lane = [present |-> lanes[d].present, data |-> t]
      OBVIOUS
    <3>6. LaneShape(lane)
      BY <1>3, <2>2, <3>4, <3>5 DEF LaneShape
    <3>7. lanes' = [lanes EXCEPT ![d] = lane]
      <4>1. PICK old : old = lanes[d]
        OBVIOUS
      <4>2. lanes' = [lanes EXCEPT ![d] = [old EXCEPT !.data = t]]
        BY <2>2, <3>1, <3>3, <4>1
      <4>3. old = [present |-> old.present, data |-> old.data]
        BY <1>3, <4>1 DEF LaneShape
      <4>4. lane = [old EXCEPT !.data = t]
        BY <3>5, <4>1, <4>3
      <4> QED BY <4>2, <4>4
    <3> QED BY <1>1, <1>3, <3>6, <3>7, LaneStep
  <2> QED BY <1>2, <2>1, <2>2
<1>5. \A c \in Clients : Holds(c)'
  BY <1>1 DEF BindingInv, Holds
<1> QED BY <1>1, <1>4, <1>5 DEF BindingInv

LEMMA RolloverStep == BindingInv /\ Binding!Rollover => BindingInv'
<1> SUFFICES ASSUME BindingInv, Binding!Rollover PROVE BindingInv'
  OBVIOUS
<1>1. UNCHANGED <<lanes, minted, flight, refusal>> /\ today' \in DateNumbers
  BY PreviewAssumption DEF Binding!Rollover, BindingInv, LaneTypes, DateNumbers
<1> QED BY <1>1 DEF BindingInv, LaneTypes, Holds

\* Two lanes that look alike hold the same, and would be given the same emission.
LEMMA LookAlike ==
  ASSUME NEW a, NEW b, LaneShape(a), LaneShape(b), Binding!Observe(a) = Binding!Observe(b)
  PROVE  a = b
<1>1. Binding!Observe(a).present = Binding!Observe(b).present /\ Binding!Observe(a).prefix = Binding!Observe(b).prefix
  OBVIOUS
<1>2. a.present = b.present /\ a.data = b.data
  BY <1>1 DEF Binding!Observe
<1> QED BY <1>2 DEF LaneShape

\* What the client's frame becomes.
Entered(f, s, t) == [f EXCEPT !.step = s, !.rest = t]
Written(f, t) == [f EXCEPT !.rest = t]
LEMMA FlightSet ==
  ASSUME NEW f, FlightShape(f), NEW s, NEW t
  PROVE  /\ Entered(f, s, t) = [step |-> s, pv |-> f.pv, body |-> f.body, rest |-> t]
         /\ Written(f, t) = [step |-> f.step, pv |-> f.pv, body |-> f.body, rest |-> t]
<1>1. PICK a, b, d, e : f = [step |-> a, pv |-> b, body |-> d, rest |-> e]
  BY DEF FlightShape
<1>2. f.step = a /\ f.pv = b /\ f.body = d
  BY <1>1
<1>3. [f EXCEPT !.step = s, !.rest = t] = [step |-> s, pv |-> b, body |-> d, rest |-> t]
  <2>1. PICK m : m = [f EXCEPT !.step = s]
    OBVIOUS
  <2>2. m = [step |-> s, pv |-> b, body |-> d, rest |-> e]
    BY <1>1, <2>1
  <2>3. [m EXCEPT !.rest = t] = [step |-> s, pv |-> b, body |-> d, rest |-> t]
    BY <2>2
  <2>4. [f EXCEPT !.step = s, !.rest = t] = [m EXCEPT !.rest = t]
    BY <2>1
  <2> QED BY <2>3, <2>4
<1>4. [f EXCEPT !.rest = t] = [step |-> a, pv |-> b, body |-> d, rest |-> t]
  BY <1>1
<1> QED BY <1>2, <1>3, <1>4 DEF Entered, Written

LEMMA LockStep == ASSUME BindingInv, NEW c \in Clients, Binding!Lock(c) PROVE BindingInv'
<1>1. PICK pv, text, lane : pv = flight[c].pv /\ text = flight[c].body /\ lane = lanes[pv.date]
  OBVIOUS
<1>2. /\ UNCHANGED <<today, minted>> /\ \A b \in Clients : flight[b].step # "write"
      /\ flight[c].step = "lock"
  BY DEF Binding!Lock, Binding!Locked
<1>3. /\ FlightShape(flight[c]) /\ pv \in minted /\ Fair(pv) /\ text \in {"body", "other body"}
      /\ pv.date \in DateNumbers /\ LaneTypes /\ LaneShape(lane)
  BY <1>1, <1>2 DEF BindingInv, Holds, Fair, LaneTypes, Binding!Bodies
<1>4. PICK seen : /\ LaneShape(seen) /\ pv.state = Binding!Observe(seen)
                  /\ pv.emission = Binding!Emission(seen, "body", pv.correction)
  BY <1>3 DEF Fair
<1>5. pv.state.present = seen.present /\ pv.state.prefix = seen.data /\ pv.correction \in BOOLEAN
  <2>1. Binding!Observe(seen).present = seen.present /\ Binding!Observe(seen).prefix = seen.data
    BY DEF Binding!Observe
  <2>2. pv.correction \in BOOLEAN
    BY <1>3 DEF Fair
  <2> QED BY <1>4, <2>1, <2>2
<1>6. PICK cause : cause = Binding!UnderLock(pv, lane, text)
  OBVIOUS
<1>7. CASE cause = "none"
  <2>1. pv.state = Binding!Observe(lane)
    BY <1>6, <1>7 DEF Binding!UnderLock, Binding!Anchored
  <2>2. lane = seen
    BY <1>3, <1>4, <2>1, LookAlike
  <2>3. pv.emission \in Texts
    BY <1>4, <1>5, EmissionShape DEF Pieces
  <2>4. /\ flight' = [flight EXCEPT ![c].step = "write", ![c].rest = pv.emission]
        /\ lanes' = [lanes EXCEPT ![pv.date].present = TRUE] /\ UNCHANGED refusal
    BY <1>1, <1>6, <1>7 DEF Binding!Lock
  <2>5. PICK f : f = [step |-> "write", pv |-> pv, body |-> text, rest |-> pv.emission]
    OBVIOUS
  <2>6. flight' = [flight EXCEPT ![c] = f]
    <3>1. PICK old : old = flight[c]
      OBVIOUS
    <3>2. flight' = [flight EXCEPT ![c] = [old EXCEPT !.step = "write", !.rest = pv.emission]]
      BY <2>4, <3>1
    <3>3. FlightShape(old) /\ old.pv = pv /\ old.body = text
      BY <1>1, <1>3, <3>1
    <3>4. f = [old EXCEPT !.step = "write", !.rest = pv.emission]
      <4>1. Entered(old, "write", pv.emission)
              = [step |-> "write", pv |-> old.pv, body |-> old.body, rest |-> pv.emission]
        BY <3>3, FlightSet
      <4> QED BY <2>5, <3>3, <4>1 DEF Entered
    <3> QED BY <3>2, <3>4
  <2>7. PICK new : new = [present |-> TRUE, data |-> lane.data]
    OBVIOUS
  <2>8. lanes' = [lanes EXCEPT ![pv.date] = new]
    <3>1. lanes' = [lanes EXCEPT ![pv.date] = [lane EXCEPT !.present = TRUE]]
      BY <1>1, <2>4
    <3>2. new = [lane EXCEPT !.present = TRUE]
      <4>1. PICK p, q : lane = [present |-> p, data |-> q] /\ lane.data = q
        BY <1>3 DEF LaneShape
      <4>2. PICK t : t = TRUE
        OBVIOUS
      <4>3. [lane EXCEPT !.present = t] = [present |-> t, data |-> q]
        BY <4>1
      <4> QED BY <2>7, <4>1, <4>2, <4>3
    <3> QED BY <3>1, <3>2
  <2>9. LaneShape(new)
    BY <1>3, <2>7 DEF LaneShape
  <2>10. LaneTypes' /\ lanes'[pv.date] = new
    BY <1>2, <1>3, <2>8, <2>9, LaneStep
  <2>11. DOMAIN flight' = Clients /\ flight'[c] = f /\ \A b \in Clients : b # c => flight'[b] = flight[b]
    BY <2>6 DEF BindingInv
  <2>12. Holds(c)'
    <3>1. FlightShape(f) /\ f.step = "write" /\ f.pv = pv /\ f.body = text /\ f.rest = pv.emission
      BY <2>5 DEF FlightShape
    <3>2. lanes'[pv.date].present /\ lanes'[pv.date].data = pv.state.prefix
      BY <1>5, <2>2, <2>7, <2>10
    <3>3. minted' = minted /\ pv \in minted /\ text \in Binding!Bodies
      BY <1>2, <1>3 DEF Binding!Bodies
    <3> QED BY <2>3, <2>11, <3>1, <3>2, <3>3 DEF Holds
  <2>13. ASSUME NEW b \in Clients, b # c PROVE Holds(b)'
    BY <1>2, <2>11, <2>13 DEF Holds, BindingInv, Binding!Bodies
  <2>14. \A a, b \in Clients : flight'[a].step = "write" /\ flight'[b].step = "write" => a = b
    BY <1>2, <2>11
  <2> QED BY <1>2, <2>4, <2>10, <2>11, <2>12, <2>13, <2>14 DEF BindingInv
<1>8. CASE cause # "none"
  <2>1. PICK moved \in BOOLEAN :
          moved = (lane # [present |-> pv.state.present, data |-> pv.state.prefix]
                    \/ (~pv.correction /\ pv.date # today))
    OBVIOUS
  <2>2. PICK meant \in BOOLEAN : meant = Binding!Contains(pv.emission, text)
    BY DEF Binding!Contains
  <2>3. IF cause = "PREVIEW_STALE" THEN moved ELSE ~meant
    <3>1. CASE ~Binding!Anchored(pv, lane)
      <4>1. cause = "PREVIEW_STALE"
        BY <1>6, <3>1 DEF Binding!UnderLock
      <4>2. ASSUME ~moved PROVE FALSE
        <5>1. lane = [present |-> seen.present, data |-> seen.data]
          BY <1>5, <2>1, <4>2
        <5>2. lane = seen
          BY <1>4, <5>1 DEF LaneShape
        <5> QED BY <1>4, <2>1, <3>1, <4>2, <5>2 DEF Binding!Anchored
      <4> QED BY <4>1, <4>2
    <3>2. CASE Binding!Anchored(pv, lane)
      <4>1. cause = "binding-invalid" /\ ~Binding!Emits(pv, lane, text)
        BY <1>6, <1>8, <3>2 DEF Binding!UnderLock
      <4>2. lane = seen
        <5>1. pv.state = Binding!Observe(lane)
          BY <3>2 DEF Binding!Anchored
        <5> QED BY <1>3, <1>4, <5>1, LookAlike
      <4>3. text # "body"
        BY <1>4, <4>1, <4>2 DEF Binding!Emits
      <4>4. ~meant
        BY <1>3, <1>4, <1>5, <2>2, <4>3, OthersAreNotShown
      <4> QED BY <4>1, <4>4
    <3> QED BY <3>1, <3>2
  <2>4. PICK due \in BOOLEAN : due = (IF cause = "PREVIEW_STALE" THEN moved ELSE ~meant)
    OBVIOUS
  <2>5. due
    BY <2>3, <2>4
  <2>6. Binding!Refuse(c, cause, due) /\ UNCHANGED lanes
    BY <1>1, <1>6, <1>8, <2>1, <2>2, <2>4 DEF Binding!Lock
  <2>7. PICK f, r : f = Binding!Resting /\ r = [cause |-> cause, due |-> due]
    OBVIOUS
  <2>8. /\ flight' = [flight EXCEPT ![c] = f] /\ refusal' = [refusal EXCEPT ![c] = r]
    BY <2>6, <2>7 DEF Binding!Refuse
  <2>9. cause \in Causes
    BY <1>6 DEF Binding!UnderLock, Causes
  <2>10. FlightShape(f) /\ f.step = "rest" /\ r.cause \in Causes /\ r.due
    BY <2>5, <2>7, <2>9 DEF Binding!Resting, FlightShape
  <2> QED BY <1>2, <2>6, <2>8, <2>10, ReturnStep
<1> QED BY <1>7, <1>8

\* What the writer puts on the lane goes over from the rest.
LEMMA WriteStep == ASSUME BindingInv, NEW c \in Clients, Binding!Write(c) PROVE BindingInv'
<1>1. PICK pv, rest, lane : pv = flight[c].pv /\ rest = flight[c].rest /\ lane = lanes[pv.date]
  OBVIOUS
<1>2. UNCHANGED <<today, minted, refusal>> /\ flight[c].step = "write"
  BY DEF Binding!Write
<1>3. /\ FlightShape(flight[c]) /\ pv \in minted /\ Fair(pv) /\ flight[c].body \in Binding!Bodies
      /\ pv.date \in DateNumbers /\ LaneTypes /\ LaneShape(lane) /\ lane.present
      /\ rest \in Texts /\ lane.data \in Texts
      /\ lane.data \o rest = pv.state.prefix \o pv.emission
  BY <1>1, <1>2 DEF BindingInv, Holds, Fair, LaneTypes, LaneShape
<1>4. PICK n \in 1 .. Len(rest) :
        /\ lanes' = [lanes EXCEPT ![pv.date].data = @ \o SubSeq(rest, 1, n)]
        /\ flight' = [flight EXCEPT ![c].rest = SubSeq(rest, n + 1, Len(rest))]
  BY <1>1 DEF Binding!Write
<1>5. PICK s, t : s = SubSeq(rest, 1, n) /\ t = SubSeq(rest, n + 1, Len(rest))
  OBVIOUS
<1>6. s \in Texts /\ t \in Texts /\ s \o t = rest
  <2>1. Len(rest) \in Nat /\ rest \in Seq(Pieces)
    BY <1>3 DEF Texts
  <2>2. s \in Seq(Pieces) /\ Len(s) = n /\ \A i \in 1 .. n : s[i] = rest[i]
    BY <1>5, <2>1
  <2>3. /\ t \in Seq(Pieces) /\ Len(t) = Len(rest) - n
        /\ \A i \in 1 .. Len(rest) - n : t[i] = rest[n + i]
    BY <1>5, <2>1
  <2>4. /\ s \o t \in Seq(Pieces) /\ Len(s \o t) = Len(rest)
        /\ \A i \in 1 .. Len(rest) : (s \o t)[i] = IF i <= n THEN s[i] ELSE t[i - n]
    BY <2>1, <2>2, <2>3, ConcatProperties
  <2>5. ASSUME NEW i \in 1 .. Len(rest) PROVE (s \o t)[i] = rest[i]
    <3>1. CASE i <= n
      BY <2>1, <2>2, <2>4, <3>1
    <3>2. CASE i > n
      <4>1. i - n \in 1 .. Len(rest) - n /\ n + (i - n) = i
        BY <2>1, <3>2
      <4>2. (s \o t)[i] = t[i - n]
        BY <2>1, <2>4, <3>2
      <4>3. t[i - n] = rest[n + (i - n)]
        BY <2>3, <4>1
      <4> QED BY <4>1, <4>2, <4>3
    <3>3. i <= n \/ i > n
      BY <2>1
    <3> QED BY <3>1, <3>2, <3>3
  <2>6. s \o t = rest
    BY <2>1, <2>4, <2>5, SeqEqual
  <2> QED BY <2>2, <2>3, <2>6 DEF Texts
<1>7. (lane.data \o s) \o t = pv.state.prefix \o pv.emission /\ lane.data \o s \in Texts
  <2>1. PICK d : d = lane.data
    OBVIOUS
  <2>2. d \in Seq(Pieces) /\ s \in Seq(Pieces) /\ t \in Seq(Pieces)
    BY <1>3, <1>6, <2>1 DEF Texts
  <2>3. (d \o s) \o t = d \o (s \o t)
    BY <2>2, ConcatAssociative
  <2>4. d \o s \in Seq(Pieces)
    BY <2>2, ConcatProperties
  <2> QED BY <1>3, <1>6, <2>1, <2>3, <2>4 DEF Texts
<1>8. PICK new : new = [present |-> lane.present, data |-> lane.data \o s]
  OBVIOUS
<1>9. lanes' = [lanes EXCEPT ![pv.date] = new]
  <2>1. lanes' = [lanes EXCEPT ![pv.date] = [lane EXCEPT !.data = lane.data \o s]]
    BY <1>1, <1>4, <1>5
  <2>2. PICK p, q : lane = [present |-> p, data |-> q] /\ lane.present = p /\ lane.data = q
    BY <1>3 DEF LaneShape
  <2>3. PICK d : d = lane.data \o s
    OBVIOUS
  <2>4. [lane EXCEPT !.data = d] = [present |-> p, data |-> d]
    BY <2>2
  <2> QED BY <1>8, <2>1, <2>2, <2>3, <2>4
<1>10. LaneShape(new)
  BY <1>3, <1>7, <1>8 DEF LaneShape
<1>11. LaneTypes' /\ lanes'[pv.date] = new
  BY <1>2, <1>3, <1>9, <1>10, LaneStep
<1>12. PICK f : f = [step |-> "write", pv |-> pv, body |-> flight[c].body, rest |-> t]
  OBVIOUS
<1>13. flight' = [flight EXCEPT ![c] = f]
  <2>1. PICK old : old = flight[c]
    OBVIOUS
  <2>2. flight' = [flight EXCEPT ![c] = [old EXCEPT !.rest = t]]
    BY <1>4, <1>5, <2>1
  <2>3. Written(old, t) = [step |-> old.step, pv |-> old.pv, body |-> old.body, rest |-> t]
    BY <1>3, <2>1, FlightSet
  <2> QED BY <1>1, <1>2, <1>12, <2>1, <2>2, <2>3 DEF Written
<1>14. DOMAIN flight' = Clients /\ flight'[c] = f /\ \A b \in Clients : b # c => flight'[b] = flight[b]
  BY <1>13 DEF BindingInv
<1>15. Holds(c)'
  <2>1. FlightShape(f) /\ f.step = "write" /\ f.pv = pv /\ f.body = flight[c].body /\ f.rest = t
    BY <1>12 DEF FlightShape
  <2>2. lanes'[pv.date].present /\ lanes'[pv.date].data = lane.data \o s
    BY <1>3, <1>8, <1>11
  <2>3. minted' = minted /\ pv \in minted /\ flight[c].body \in Binding!Bodies
    BY <1>2, <1>3
  <2> QED BY <1>6, <1>7, <1>14, <2>1, <2>2, <2>3 DEF Holds, Binding!Bodies
<1>16. ASSUME NEW b \in Clients, b # c PROVE Holds(b)' /\ flight'[b].step # "write"
  BY <1>2, <1>14, <1>16 DEF Holds, BindingInv, Binding!Bodies
<1>17. \A a, b \in Clients : flight'[a].step = "write" /\ flight'[b].step = "write" => a = b
  BY <1>16
<1> QED BY <1>2, <1>11, <1>14, <1>15, <1>16, <1>17 DEF BindingInv

LEMMA BindingStep == BindingInv /\ [Binding!Next]_bindingOnly => BindingInv'
<1>1. ASSUME BindingInv, UNCHANGED bindingOnly PROVE BindingInv'
  BY <1>1 DEF bindingOnly, BindingInv, LaneTypes, Holds, Binding!Bodies
<1> QED BY <1>1, PreviewStep, EditStep, RolloverStep, SubmitStep, LockStep, WriteStep, LetGoStep
        DEF Binding!Next, Binding!Handle

\* The modules count with the same operator.
LEMMA CountsAlike ==
  \A S : Binding!Cardinality(S) = Cardinality(S) /\ Probes!Cardinality(S) = Cardinality(S)
BY DEF Cardinality, Binding!Cardinality, Probes!Cardinality

LEMMA BindingTypes == BindingInv => Binding!TypeOK
<1> SUFFICES ASSUME BindingInv PROVE Binding!TypeOK
  OBVIOUS
<1>1. today \in Binding!AllDates /\ DOMAIN lanes = Binding!AllDates
  BY DEF BindingInv, LaneTypes, DateNumbers, Binding!AllDates
<1>2. \A d \in Binding!AllDates :
        lanes[d].present \in BOOLEAN /\ (lanes[d].data # <<>> => lanes[d].present)
  BY DEF BindingInv, LaneTypes, LaneShape, DateNumbers, Binding!AllDates
<1>3. \A c \in Clients :
        /\ flight[c].step \in {"rest", "lock", "write"}
        /\ refusal[c].cause \in {"none", "binding-invalid", "wrong-route", "PREVIEW_STALE"}
  BY DEF BindingInv, Holds, Causes
<1>4. Cardinality({c \in Clients : flight[c].step = "write"}) <= 1
  <2>1. PICK W : W = {c \in Clients : flight[c].step = "write"}
    OBVIOUS
  <2>2. \A a, b \in W : a = b
    BY <2>1 DEF BindingInv
  <2>3. CASE W = {}
    BY <2>1, <2>3, FS_EmptySet
  <2>4. CASE W # {}
    <3>1. PICK a : W = {a}
      BY <2>2, <2>4
    <3>2. Cardinality(W) = 1
      BY <3>1, FS_Singleton
    <3> QED BY <2>1, <3>2
  <2> QED BY <2>3, <2>4
<1> QED BY <1>1, <1>2, <1>3, <1>4, CountsAlike DEF Binding!TypeOK

LEMMA BindingSound == BindingInv => Binding!BindingHolds
BY DEF BindingInv, Holds, Binding!BindingHolds, Binding!AppendsWhatWasShown, Binding!CausesAreTrue

-----------------------------------------------------------------------------
(***************************************************************************)
(* The census and the probe.  A pid has one holder, the process that was   *)
(* started last with it; and nobody was given a parent's pid between the   *)
(* parent's start and the child's.                                         *)
(***************************************************************************)

ProcSet == [pid : Pids, ppid : Nat, parent : Nat, born : Nat, live : BOOLEAN, cpu : {0, 1}]

OneHolder(T) == \A x, y \in DOMAIN T : x < y /\ T[x].pid = T[y].pid => ~T[x].live
Descends(T) ==
  \A x \in DOMAIN T :
    /\ T[x].parent = 0 => T[x].ppid = 0
    /\ T[x].parent # 0 =>
         /\ T[x].parent \in DOMAIN T /\ T[x].parent < x
         /\ T[x].ppid = T[T[x].parent].pid
         /\ \A y \in DOMAIN T : T[x].parent < y /\ y <= x => T[y].pid # T[x].ppid
TableHolds(T) == T \in Seq(ProcSet) /\ Len(T) <= MaxBirths /\ OneHolder(T) /\ Descends(T)

\* A table only ever grows, and what is in it only dies and works.
Grown(T, U) ==
  /\ DOMAIN T \subseteq DOMAIN U
  /\ \A x \in DOMAIN T :
       /\ U[x].pid = T[x].pid /\ U[x].ppid = T[x].ppid
       /\ U[x].live => T[x].live
       /\ T[x].cpu <= U[x].cpu

LEMMA SomeoneChanges ==
  ASSUME NEW T, TableHolds(T), NEW x \in DOMAIN T, NEW r \in ProcSet, NEW U,
         U = [T EXCEPT ![x] = r],
         r.pid = T[x].pid, r.ppid = T[x].ppid, r.parent = T[x].parent,
         r.live => T[x].live, T[x].cpu <= r.cpu
  PROVE  /\ TableHolds(U) /\ Grown(T, U) /\ U[x] = r
         /\ \A y \in DOMAIN T : y # x => U[y] = T[y]
<1>1. /\ T \in Seq(ProcSet) /\ Len(T) <= MaxBirths /\ OneHolder(T) /\ Descends(T)
      /\ Len(T) \in Nat /\ DOMAIN T = 1 .. Len(T)
  BY DEF TableHolds
<1>2. U \in Seq(ProcSet) /\ Len(U) = Len(T) /\ DOMAIN U = DOMAIN T
  BY <1>1, ExceptSeq
<1>3. U[x] = r /\ \A y \in DOMAIN T : y # x => U[y] = T[y]
  BY <1>1
<1>4. \A y \in DOMAIN T : /\ U[y].pid = T[y].pid /\ U[y].ppid = T[y].ppid /\ U[y].parent = T[y].parent
                          /\ U[y].live => T[y].live
  BY <1>3
<1>5. \A y \in DOMAIN T : T[y].cpu <= U[y].cpu
  <2>1. \A y \in DOMAIN T : T[y].cpu \in {0, 1}
    <3>1. \A y \in DOMAIN T : T[y] \in ProcSet
      BY <1>1
    <3> QED BY <3>1 DEF ProcSet
  <2> QED BY <1>3, <2>1
<1>6. OneHolder(U)
  BY <1>1, <1>2, <1>4 DEF OneHolder
<1>7. Descends(U)
  BY <1>1, <1>2, <1>4 DEF Descends
<1> QED BY <1>1, <1>2, <1>3, <1>4, <1>5, <1>6, <1>7 DEF TableHolds, Grown

\* The pid is free, and the parent is of the table, or none is.
Free(T, p) == \A y \in DOMAIN T : T[y].live => T[y].pid # p
Fathered(T, r) ==
  \/ r.parent = 0 /\ r.ppid = 0
  \/ r.parent \in DOMAIN T /\ T[r.parent].live /\ r.ppid = T[r.parent].pid

BornInto(T, r, U) ==
  /\ TableHolds(T) /\ Len(T) < MaxBirths /\ r \in ProcSet /\ U = Append(T, r)
  /\ Free(T, r.pid) /\ Fathered(T, r)

OneLonger(T, U) ==
  /\ TableHolds(U) /\ Grown(T, U) /\ DOMAIN U = DOMAIN T \cup {Len(T) + 1}
  /\ \A y \in DOMAIN T : U[y] = T[y]

LEMMA SomeoneIsBorn ==
  ASSUME NEW T, NEW r, NEW U, BornInto(T, r, U)
  PROVE  OneLonger(T, U)
<1> USE DEF Free, Fathered, BornInto
<1>1. PICK n : n = Len(T) + 1
  OBVIOUS
<1>2. /\ T \in Seq(ProcSet) /\ Len(T) < MaxBirths /\ OneHolder(T) /\ Descends(T)
      /\ n \in Nat /\ DOMAIN T = 1 .. n - 1 /\ MaxBirths \in Nat
  BY <1>1, ProbeAssumption DEF TableHolds
<1>3. /\ U \in Seq(ProcSet) /\ Len(U) = n /\ DOMAIN U = 1 .. n /\ U[n] = r
      /\ \A y \in DOMAIN T : U[y] = T[y]
  BY <1>1, <1>2, AppendProperties
<1>4. Len(U) <= MaxBirths
  BY <1>1, <1>2, <1>3
<1>5. OneHolder(U)
  <2> SUFFICES ASSUME NEW x \in 1 .. n, NEW y \in 1 .. n, x < y, U[x].pid = U[y].pid PROVE ~U[x].live
    BY <1>3 DEF OneHolder
  <2>1. x \in DOMAIN T
    BY <1>2
  <2>2. CASE y = n
    BY <1>3, <2>1, <2>2
  <2>3. CASE y \in DOMAIN T
    BY <1>2, <1>3, <2>1, <2>3 DEF OneHolder
  <2> QED BY <1>2, <2>2, <2>3
<1>6. ASSUME NEW x \in DOMAIN T, T[x].parent # 0
      PROVE  /\ T[x].parent \in DOMAIN T /\ T[x].parent < x /\ T[x].ppid = T[T[x].parent].pid
             /\ \A y \in DOMAIN T : T[x].parent < y /\ y <= x => T[y].pid # T[x].ppid
  BY <1>2, <1>6 DEF Descends
<1>7. Descends(U)
  <2> SUFFICES ASSUME NEW x \in 1 .. n
               PROVE  /\ U[x].parent = 0 => U[x].ppid = 0
                      /\ U[x].parent # 0 =>
                           /\ U[x].parent \in 1 .. n /\ U[x].parent < x
                           /\ U[x].ppid = U[U[x].parent].pid
                           /\ \A y \in 1 .. n : U[x].parent < y /\ y <= x => U[y].pid # U[x].ppid
    BY <1>3 DEF Descends
  <2>1. CASE x \in DOMAIN T
    <3>1. U[x] = T[x] /\ x <= n - 1
      BY <1>2, <1>3, <2>1
    <3>2. T[x].parent = 0 => T[x].ppid = 0
      BY <1>2, <2>1 DEF Descends
    <3>3. ASSUME T[x].parent # 0
          PROVE  /\ T[x].parent \in 1 .. n /\ T[x].parent < x
                 /\ T[x].ppid = U[T[x].parent].pid
                 /\ \A y \in 1 .. n : T[x].parent < y /\ y <= x => U[y].pid # T[x].ppid
      <4>1. /\ T[x].parent \in DOMAIN T /\ T[x].parent < x /\ T[x].ppid = T[T[x].parent].pid
            /\ \A y \in DOMAIN T : T[x].parent < y /\ y <= x => T[y].pid # T[x].ppid
        BY <1>6, <2>1, <3>3
      <4>2. \A y \in 1 .. n : y <= x => y \in DOMAIN T
        BY <1>2, <3>1
      <4> QED BY <1>2, <1>3, <4>1, <4>2
    <3> QED BY <3>1, <3>2, <3>3
  <2>2. CASE x = n
    <3>1. U[x] = r
      BY <1>3, <2>2
    <3>2. ASSUME r.parent # 0
          PROVE  /\ r.parent \in 1 .. n /\ r.parent < n /\ r.ppid = U[r.parent].pid
                 /\ \A y \in 1 .. n : r.parent < y /\ y <= n => U[y].pid # r.ppid
      <4>1. r.parent \in DOMAIN T /\ T[r.parent].live /\ r.ppid = T[r.parent].pid
        BY <3>2
      <4>2. ASSUME NEW y \in 1 .. n, r.parent < y PROVE U[y].pid # r.ppid
        <5>1. CASE y = n
          BY <1>3, <4>1, <5>1
        <5>2. CASE y \in DOMAIN T
          BY <1>2, <1>3, <4>1, <4>2, <5>2 DEF OneHolder
        <5> QED BY <1>2, <5>1, <5>2
      <4> QED BY <1>2, <1>3, <4>1, <4>2
    <3>3. r.parent = 0 => r.ppid = 0
      BY <1>2
    <3> QED BY <2>2, <3>1, <3>2, <3>3
  <2> QED BY <1>2, <2>1, <2>2
<1>8. Grown(T, U)
  <2>1. \A y \in DOMAIN T : T[y].cpu \in {0, 1}
    <3>1. \A y \in DOMAIN T : T[y] \in ProcSet
      BY <1>2
    <3> QED BY <3>1 DEF ProcSet
  <2>2. DOMAIN T \subseteq DOMAIN U
    BY <1>2, <1>3
  <2> QED BY <1>3, <2>1, <2>2 DEF Grown
<1>9. DOMAIN U = DOMAIN T \cup {Len(T) + 1}
  BY <1>1, <1>2, <1>3
<1> QED BY <1>3, <1>4, <1>5, <1>7, <1>8, <1>9 DEF TableHolds, OneLonger

-----------------------------------------------------------------------------
(* The census, over the table as it is now.                                *)

Row(T, x, b) == [proc |-> x, pid |-> T[x].pid, ppid |-> T[x].ppid, stamped |-> b]
Rows(T) == {Row(T, x, b) : x \in DOMAIN T, b \in BOOLEAN}
CensusShape(c) ==
  c = [step |-> c.step, me |-> c.me, rows0 |-> c.rows0, cpu0 |-> c.cpu0, rows1 |-> c.rows1]

\* The samples are of processes of the table.  Of a process of the first that still
\* runs, the work that was read is no more than it has done; and the second holds
\* it, holds nobody else with its pid, and holds nobody with the pid of someone
\* who was started later and before it.
FirstSample(c, T) ==
  c.step \in {"cpu0", "sleep", "cpu1"} =>
    /\ c.me \in DOMAIN T /\ T[c.me].live /\ c.rows0 \subseteq Rows(T)
    /\ \A r, s \in c.rows0 : r.proc = s.proc => r = s
FirstWork(c, T) ==
  c.step \in {"sleep", "cpu1"} =>
    \A r \in c.rows0 : T[r.proc].live =>
      c.cpu0[r.pid] = Probes!Unread \/ (c.cpu0[r.pid] \in {0, 1} /\ c.cpu0[r.pid] <= T[r.proc].cpu)
SecondSample(c, T) ==
  c.step = "cpu1" =>
    /\ c.rows1 \subseteq Rows(T)
    /\ \A r, s \in c.rows1 : r.pid = s.pid => r = s
    /\ \A r \in c.rows0 : T[r.proc].live => \E s \in c.rows1 : s.proc = r.proc
    /\ \A r \in c.rows0, s \in c.rows1 : \A x \in DOMAIN T :
         s.proc < x /\ x <= r.proc => T[x].pid # s.pid
CensusHolds(c, T) ==
  /\ CensusShape(c)
  /\ c.step \in {"rest", "cpu0", "sleep", "cpu1", "done"}
  /\ FirstSample(c, T) /\ FirstWork(c, T) /\ SecondSample(c, T)

LEMMA RowsStand ==
  ASSUME NEW T, NEW U, Grown(T, U)
  PROVE  \A x \in DOMAIN T : x \in DOMAIN U /\ \A b \in BOOLEAN : Row(U, x, b) = Row(T, x, b)
BY DEF Grown, Row

LEMMA RowFields ==
  ASSUME NEW T, NEW r \in Rows(T)
  PROVE  /\ r.proc \in DOMAIN T /\ r.stamped \in BOOLEAN /\ r = Row(T, r.proc, r.stamped)
         /\ r.pid = T[r.proc].pid /\ r.ppid = T[r.proc].ppid
<1>1. PICK x \in DOMAIN T, b \in BOOLEAN : r = Row(T, x, b)
  BY DEF Rows
<1>2. r.proc = x /\ r.pid = T[x].pid /\ r.ppid = T[x].ppid /\ r.stamped = b
  BY <1>1 DEF Row
<1> QED BY <1>1, <1>2

\* A table that grows while the census sleeps, or reads something else.
LEMMA CensusStands ==
  ASSUME NEW T, NEW U, NEW c, TableHolds(T), TableHolds(U), Grown(T, U), CensusHolds(c, T),
         c.step \in {"cpu0", "sleep", "cpu1"} => U[c.me].live
  PROVE  CensusHolds(c, U)
<1>1. /\ CensusShape(c) /\ c.step \in {"rest", "cpu0", "sleep", "cpu1", "done"}
      /\ FirstSample(c, T) /\ FirstWork(c, T) /\ SecondSample(c, T)
  BY DEF CensusHolds
<1>2. Rows(T) \subseteq Rows(U)
  BY RowsStand DEF Rows
<1>3. FirstSample(c, U)
  BY <1>1, <1>2 DEF FirstSample, Grown
<1>4. ASSUME c.step \in {"sleep", "cpu1"}, NEW r \in c.rows0, U[r.proc].live
      PROVE  c.cpu0[r.pid] = Probes!Unread \/ (c.cpu0[r.pid] \in {0, 1} /\ c.cpu0[r.pid] <= U[r.proc].cpu)
  <2>1. r.proc \in DOMAIN T
    BY <1>1, <1>4, RowFields DEF FirstSample
  <2>2. T[r.proc].live /\ T[r.proc].cpu <= U[r.proc].cpu
    BY <1>4, <2>1 DEF Grown
  <2>3. T[r.proc] \in ProcSet /\ U[r.proc] \in ProcSet
    BY <2>1 DEF TableHolds, Grown
  <2>4. T[r.proc].cpu \in {0, 1} /\ U[r.proc].cpu \in {0, 1}
    BY <2>3 DEF ProcSet
  <2>5. c.cpu0[r.pid] = Probes!Unread \/ (c.cpu0[r.pid] \in {0, 1} /\ c.cpu0[r.pid] <= T[r.proc].cpu)
    BY <1>1, <1>4, <2>2 DEF FirstWork
  <2> QED BY <2>2, <2>4, <2>5
<1>5. ASSUME c.step = "cpu1", NEW r \in c.rows0, U[r.proc].live
      PROVE  \E s \in c.rows1 : s.proc = r.proc
  <2>1. r.proc \in DOMAIN T
    BY <1>1, <1>5, RowFields DEF FirstSample
  <2>2. T[r.proc].live
    BY <1>5, <2>1 DEF Grown
  <2> QED BY <1>1, <1>5, <2>2 DEF SecondSample
<1>6. ASSUME c.step = "cpu1", NEW r \in c.rows0, NEW s \in c.rows1, NEW x \in DOMAIN U,
             s.proc < x, x <= r.proc
      PROVE  U[x].pid # s.pid
  <2>1. r.proc \in DOMAIN T
    BY <1>1, <1>6, RowFields DEF FirstSample
  <2>2. x \in DOMAIN T
    BY <1>6, <2>1 DEF TableHolds
  <2>3. U[x].pid = T[x].pid
    BY <2>2 DEF Grown
  <2> QED BY <1>1, <1>6, <2>2, <2>3 DEF SecondSample
<1> QED BY <1>1, <1>2, <1>3, <1>4, <1>5, <1>6 DEF CensusHolds, FirstWork, SecondSample

-----------------------------------------------------------------------------
(* The steps of the table.                                                 *)

ProbesInv ==
  /\ tool \in {"census", "probe"} /\ clock \in 0 .. MaxTime
  /\ TableHolds(procs) /\ CensusHolds(census, procs)
  /\ report \subseteq DOMAIN procs /\ leg.proc \in {0} \cup DOMAIN procs
  /\ probe.said \in {"ALIVE", "ALIVE-UNVERIFIED", "EXITED", "UNKNOWN"}
  /\ Probes!ProbesAreTrue

\* A pid that is held is held by one process.
LEMMA HolderIsOne ==
  ASSUME TableHolds(procs), NEW x \in DOMAIN procs, procs[x].live
  PROVE  Probes!Holding(procs[x].pid) = {x}
<1> SUFFICES ASSUME NEW y \in DOMAIN procs, procs[y].live, procs[y].pid = procs[x].pid, y # x PROVE FALSE
  BY DEF Probes!Holding, Probes!Alive, Probes!Started
<1>1. OneHolder(procs) /\ x \in Nat /\ y \in Nat
  BY DEF TableHolds
<1>2. x < y \/ y < x
  BY <1>1
<1> QED BY <1>1, <1>2 DEF OneHolder

LEMMA WorkRead ==
  ASSUME TableHolds(procs), NEW x \in DOMAIN procs, procs[x].live
  PROVE  Probes!Cpu(procs[x].pid) = procs[x].cpu /\ procs[x].cpu \in {0, 1}
<1>1. Probes!Holding(procs[x].pid) = {x}
  BY HolderIsOne
<1>2. (CHOOSE y \in {x} : TRUE) = x
  OBVIOUS
<1>3. procs[x] \in ProcSet
  BY DEF TableHolds
<1> QED BY <1>1, <1>2, <1>3 DEF Probes!Cpu, ProcSet

\* The table changes, and the tools do not.
LEMMA TableStep ==
  ASSUME ProbesInv, census.step # "done", TableHolds(procs'), Grown(procs, procs'),
         UNCHANGED <<tool, clock, census, report, truth, probe>>,
         leg'.proc \in {0} \cup DOMAIN procs',
         census.step \in {"cpu0", "sleep", "cpu1"} => procs'[census.me].live
  PROVE  ProbesInv'
<1>1. CensusHolds(census', procs')
  BY CensusStands DEF ProbesInv
<1>2. report' \subseteq DOMAIN procs'
  BY DEF ProbesInv, Grown
<1>3. Probes!ProbesAreTrue'
  BY DEF ProbesInv, Probes!ProbesAreTrue, Probes!CensusIsExact, Probes!VerdictIsExact
<1> QED BY <1>1, <1>2, <1>3 DEF ProbesInv

LEMMA StartStep == ProbesInv /\ census.step # "done" /\ Probes!Start => ProbesInv'
<1> SUFFICES ASSUME ProbesInv, census.step # "done", Probes!Start PROVE ProbesInv'
  OBVIOUS
<1>1. PICK p \in Pids, parent \in IF Probes!Alive = {} THEN {0} ELSE Probes!Alive :
        /\ Probes!Holding(p) = {}
        /\ procs' = Append(procs, Probes!Process(p, parent))
        /\ leg' = leg \/ leg'.proc = Len(procs) + 1
  BY DEF Probes!Start
<1>2. PICK r : r = Probes!Process(p, parent)
  OBVIOUS
<1>3. TableHolds(procs) /\ Len(procs) < MaxBirths /\ clock \in Nat
  BY DEF ProbesInv, Probes!Start
<1>4. /\ parent = 0 \/ (parent \in DOMAIN procs /\ procs[parent].live)
      /\ \A y \in DOMAIN procs : y # 0
  BY <1>1, <1>3 DEF Probes!Alive, Probes!Started, TableHolds
<1>5. r = [pid |-> p, ppid |-> IF parent = 0 THEN 0 ELSE procs[parent].pid, parent |-> parent,
           born |-> clock, live |-> TRUE, cpu |-> 0]
  BY <1>2 DEF Probes!Process
<1>6. /\ r.pid = p /\ r.parent = parent
      /\ parent = 0 => r.ppid = 0
      /\ parent # 0 => r.ppid = procs[parent].pid
  BY <1>5
<1>7. r \in ProcSet
  <2>1. parent \in Nat /\ r.ppid \in Nat
    <3>1. CASE parent = 0
      BY <1>6, <3>1
    <3>2. CASE parent # 0
      <4>1. procs[parent] \in ProcSet /\ parent \in Nat
        BY <1>3, <1>4, <3>2 DEF TableHolds
      <4>2. procs[parent].pid \in Pids
        BY <4>1 DEF ProcSet
      <4> QED BY <1>6, <3>2, <4>1, <4>2, ProbeAssumption
    <3> QED BY <3>1, <3>2
  <2>2. PICK q \in Nat : q = IF parent = 0 THEN 0 ELSE procs[parent].pid
    BY <1>5, <2>1
  <2>3. r = [pid |-> p, ppid |-> q, parent |-> parent, born |-> clock, live |-> TRUE, cpu |-> 0]
    BY <1>5, <2>2
  <2> QED BY <1>3, <2>1, <2>3 DEF ProcSet
<1>8. Free(procs, r.pid)
  BY <1>1, <1>6 DEF Free, Probes!Holding, Probes!Alive, Probes!Started
<1>9. Fathered(procs, r)
  BY <1>4, <1>6 DEF Fathered
<1>10. procs' = Append(procs, r)
  BY <1>1, <1>2
<1>11. /\ TableHolds(procs') /\ Grown(procs, procs') /\ DOMAIN procs' = DOMAIN procs \cup {Len(procs) + 1}
       /\ \A y \in DOMAIN procs : procs'[y] = procs[y]
  <2>1. PICK T : T = procs
    OBVIOUS
  <2>2. PICK U : U = procs'
    OBVIOUS
  <2>3. BornInto(T, r, U)
    BY <1>3, <1>7, <1>8, <1>9, <1>10, <2>1, <2>2 DEF BornInto
  <2>4. OneLonger(T, U)
    BY <2>3, SomeoneIsBorn
  <2> QED BY <2>1, <2>2, <2>4 DEF OneLonger
<1>12. leg'.proc \in {0} \cup DOMAIN procs'
  BY <1>1, <1>11 DEF ProbesInv
<1>13. census.step \in {"cpu0", "sleep", "cpu1"} => procs'[census.me].live
  BY <1>11 DEF ProbesInv, CensusHolds, FirstSample
<1>14. UNCHANGED <<tool, clock, census, report, truth, probe>>
  BY DEF Probes!Start
<1> QED BY <1>11, <1>12, <1>13, <1>14, TableStep

LEMMA ChangeStep == ProbesInv /\ census.step # "done" /\ (Probes!Exit \/ Probes!Work) => ProbesInv'
<1> SUFFICES ASSUME ProbesInv, census.step # "done", Probes!Exit \/ Probes!Work PROVE ProbesInv'
  OBVIOUS
<1>1. TableHolds(procs)
  BY DEF ProbesInv
<1>2. PICK x \in DOMAIN procs :
        /\ procs[x].live
        /\ \/ x # census.me /\ procs' = [procs EXCEPT ![x].live = FALSE]
           \/ procs[x].cpu = 0 /\ procs' = [procs EXCEPT ![x].cpu = 1]
  BY DEF Probes!Exit, Probes!Work, Probes!Alive, Probes!Started
<1>3. PICK o : o = procs[x]
  OBVIOUS
<1>4. o \in ProcSet
  BY <1>1, <1>3 DEF TableHolds
<1>5. o = [pid |-> o.pid, ppid |-> o.ppid, parent |-> o.parent, born |-> o.born, live |-> o.live, cpu |-> o.cpu]
  BY <1>4 DEF ProcSet
<1>6. PICK r \in ProcSet :
        /\ procs' = [procs EXCEPT ![x] = r]
        /\ r.pid = o.pid /\ r.ppid = o.ppid /\ r.parent = o.parent /\ o.cpu <= r.cpu
        /\ r.live => o.live
        /\ x = census.me => r.live
  <2>1. CASE x # census.me /\ procs' = [procs EXCEPT ![x].live = FALSE]
    <3>1. PICK f : f = FALSE
      OBVIOUS
    <3>2. procs' = [procs EXCEPT ![x] = [o EXCEPT !.live = f]]
      BY <1>3, <2>1, <3>1
    <3>3. [o EXCEPT !.live = f] =
            [pid |-> o.pid, ppid |-> o.ppid, parent |-> o.parent, born |-> o.born, live |-> f, cpu |-> o.cpu]
      BY <1>5
    <3>4. PICK r : r = [pid |-> o.pid, ppid |-> o.ppid, parent |-> o.parent, born |-> o.born,
                        live |-> f, cpu |-> o.cpu]
      OBVIOUS
    <3>5. r \in ProcSet /\ r.pid = o.pid /\ r.ppid = o.ppid /\ r.parent = o.parent /\ r.live = f /\ r.cpu = o.cpu
      BY <1>4, <3>1, <3>4 DEF ProcSet
    <3>6. o.cpu <= o.cpu
      BY <1>4 DEF ProcSet
    <3> QED BY <2>1, <3>1, <3>2, <3>3, <3>4, <3>5, <3>6
  <2>2. CASE procs[x].cpu = 0 /\ procs' = [procs EXCEPT ![x].cpu = 1]
    <3>1. procs' = [procs EXCEPT ![x] = [o EXCEPT !.cpu = 1]]
      BY <1>3, <2>2
    <3>2. PICK r : r = [pid |-> o.pid, ppid |-> o.ppid, parent |-> o.parent, born |-> o.born,
                        live |-> o.live, cpu |-> 1]
      OBVIOUS
    <3>3. [o EXCEPT !.cpu = 1] = r
      BY <1>5, <3>2
    <3>4. r \in ProcSet /\ r.pid = o.pid /\ r.ppid = o.ppid /\ r.parent = o.parent /\ r.live = o.live /\ r.cpu = 1
      BY <1>4, <3>2 DEF ProcSet
    <3>5. o.cpu <= r.cpu /\ r.live
      BY <1>2, <1>3, <2>2, <3>4
    <3> QED BY <1>2, <1>3, <3>1, <3>3, <3>4, <3>5
  <2> QED BY <1>2, <2>1, <2>2
<1>7. /\ TableHolds(procs') /\ Grown(procs, procs') /\ procs'[x] = r
      /\ \A y \in DOMAIN procs : y # x => procs'[y] = procs[y]
  BY <1>1, <1>3, <1>6, SomeoneChanges
<1>8. census.step \in {"cpu0", "sleep", "cpu1"} => procs'[census.me].live
  BY <1>6, <1>7 DEF ProbesInv, CensusHolds, FirstSample
<1>9. UNCHANGED <<tool, clock, census, report, truth, leg, probe>>
  BY DEF Probes!Exit, Probes!Work
<1>10. leg'.proc \in {0} \cup DOMAIN procs'
  BY <1>7, <1>9 DEF ProbesInv, Grown
<1> QED BY <1>7, <1>8, <1>9, <1>10, TableStep

LEMMA ClockStep == ProbesInv /\ Probes!Tick => ProbesInv'
<1> SUFFICES ASSUME ProbesInv, Probes!Tick PROVE ProbesInv'
  OBVIOUS
<1>1. clock' \in 0 .. MaxTime /\ UNCHANGED <<tool, procs, census, report, truth, leg, probe>>
  BY ProbeAssumption DEF ProbesInv, Probes!Tick
<1>2. Probes!ProbesAreTrue'
  BY <1>1 DEF ProbesInv, Probes!ProbesAreTrue, Probes!CensusIsExact, Probes!VerdictIsExact
<1> QED BY <1>1, <1>2 DEF ProbesInv

\* A census with its step changed, and what else the step changes.
Fields(c, a, m, r, u, v) == c = [step |-> a, me |-> m, rows0 |-> r, cpu0 |-> u, rows1 |-> v]
Begun(c, k, x, y) == [c EXCEPT !.step = k, !.me = x, !.rows0 = y]
WorkTaken(c, k, x) == [c EXCEPT !.step = k, !.cpu0 = x]
Resampled(c, k, x) == [c EXCEPT !.step = k, !.rows1 = x]
Ended(c, k, x) == [c EXCEPT !.step = k, !.me = x]

LEMMA StepSet ==
  ASSUME NEW c, NEW a, NEW m, NEW r, NEW u, NEW v, NEW k, NEW x, NEW y, Fields(c, a, m, r, u, v)
  PROVE  /\ Fields(Begun(c, k, x, y), k, x, y, u, v)
         /\ Fields(WorkTaken(c, k, x), k, m, r, x, v)
         /\ Fields(Resampled(c, k, x), k, m, r, u, x)
         /\ Fields(Ended(c, k, x), k, x, r, u, v)
<1> USE DEF Fields
<1>1. PICK d : d = [step |-> k, me |-> m, rows0 |-> r, cpu0 |-> u, rows1 |-> v]
  OBVIOUS
<1>2. [c EXCEPT !.step = k] = d
  BY <1>1
<1>3. /\ [d EXCEPT !.me = x] = [step |-> k, me |-> x, rows0 |-> r, cpu0 |-> u, rows1 |-> v]
      /\ [d EXCEPT !.cpu0 = x] = [step |-> k, me |-> m, rows0 |-> r, cpu0 |-> x, rows1 |-> v]
      /\ [d EXCEPT !.rows1 = x] = [step |-> k, me |-> m, rows0 |-> r, cpu0 |-> u, rows1 |-> x]
  BY <1>1
<1>4. PICK e : e = [step |-> k, me |-> x, rows0 |-> r, cpu0 |-> u, rows1 |-> v]
  OBVIOUS
<1>5. [e EXCEPT !.rows0 = y] = [step |-> k, me |-> x, rows0 |-> y, cpu0 |-> u, rows1 |-> v]
  BY <1>4
<1>6. [c EXCEPT !.step = k, !.me = x, !.rows0 = y] = [e EXCEPT !.rows0 = y]
  BY <1>2, <1>3, <1>4
<1> QED BY <1>2, <1>3, <1>5, <1>6 DEF Begun, WorkTaken, Resampled, Ended

\* The tools step, the table does not.  A sample is of the live processes.
LEMMA SampleIs ==
  ASSUME NEW blank, NEW s, s = Probes!Sample(blank)
  PROVE  /\ s \subseteq Rows(procs)
         /\ \A q \in s : q.proc \in DOMAIN procs /\ procs[q.proc].live
         /\ \A q, t \in s : q.proc = t.proc => q = t
         /\ \A x \in DOMAIN procs : procs[x].live => \E q \in s : q.proc = x
<1>1. s = {Row(procs, x, x \notin blank) : x \in Probes!Alive}
  BY DEF Probes!Sample, Row
<1>2. \A x : x \in Probes!Alive <=> x \in DOMAIN procs /\ procs[x].live
  BY DEF Probes!Alive, Probes!Started
<1>3. \A x : Row(procs, x, x \notin blank).proc = x
  BY DEF Row
<1>4. s \subseteq Rows(procs)
  <2> SUFFICES ASSUME NEW x \in Probes!Alive PROVE Row(procs, x, x \notin blank) \in Rows(procs)
    BY <1>1
  <2>1. PICK b \in BOOLEAN : b = (x \notin blank)
    OBVIOUS
  <2>2. Row(procs, x, b) \in Rows(procs)
    BY <1>2 DEF Rows
  <2> QED BY <2>1, <2>2
<1>5. ASSUME NEW q \in s
      PROVE  q.proc \in Probes!Alive /\ q = Row(procs, q.proc, q.proc \notin blank)
  <2>1. PICK x \in Probes!Alive : q = Row(procs, x, x \notin blank)
    BY <1>1
  <2> QED BY <1>3, <2>1
<1>6. ASSUME NEW x \in DOMAIN procs, procs[x].live PROVE \E q \in s : q.proc = x
  <2>1. Row(procs, x, x \notin blank) \in s
    BY <1>1, <1>2, <1>6
  <2> QED BY <1>3, <2>1
<1>7. ASSUME NEW q \in s, NEW t \in s, q.proc = t.proc PROVE q = t
  BY <1>5, <1>7
<1> QED BY <1>2, <1>4, <1>5, <1>6, <1>7

LEMMA CensusMoves ==
  ASSUME ProbesInv, UNCHANGED <<tool, clock, procs, report, truth, leg, probe>>,
         CensusHolds(census', procs), census'.step # "done"
  PROVE  ProbesInv'
<1>1. Probes!ProbesAreTrue'
  BY DEF ProbesInv, Probes!ProbesAreTrue, Probes!CensusIsExact, Probes!VerdictIsExact
<1> QED BY <1>1 DEF ProbesInv

LEMMA BeginStep == ProbesInv /\ Probes!Begin => ProbesInv'
<1> SUFFICES ASSUME ProbesInv, Probes!Begin PROVE ProbesInv'
  OBVIOUS
<1>0. PICK x \in Probes!Alive : \E blank \in Probes!Blanks(Probes!Alive \ {x}) :
        census' = [census EXCEPT !.step = "cpu0", !.me = x, !.rows0 = Probes!Sample(blank)]
  BY DEF Probes!Begin
<1>1. PICK blank \in Probes!Blanks(Probes!Alive \ {x}) :
        census' = [census EXCEPT !.step = "cpu0", !.me = x, !.rows0 = Probes!Sample(blank)]
  BY <1>0
<1>2. PICK c, s : c = census /\ s = Probes!Sample(blank)
  OBVIOUS
<1>3. c = [step |-> c.step, me |-> c.me, rows0 |-> c.rows0, cpu0 |-> c.cpu0, rows1 |-> c.rows1]
  BY <1>2 DEF ProbesInv, CensusHolds, CensusShape
<1>4. PICK d : d = [step |-> "cpu0", me |-> x, rows0 |-> s, cpu0 |-> c.cpu0, rows1 |-> c.rows1]
  OBVIOUS
<1>5. [c EXCEPT !.step = "cpu0", !.me = x, !.rows0 = s] = d
  <2>1. PICK a, m, r, u, v : /\ c = [step |-> a, me |-> m, rows0 |-> r, cpu0 |-> u, rows1 |-> v]
                            /\ c.cpu0 = u /\ c.rows1 = v
    BY <1>3
  <2>2. PICK k : k = "cpu0"
    OBVIOUS
  <2>3. d = [step |-> k, me |-> x, rows0 |-> s, cpu0 |-> u, rows1 |-> v]
    BY <1>4, <2>1, <2>2
  <2>4. Fields(c, a, m, r, u, v)
    BY <2>1 DEF Fields
  <2>5. Fields(Begun(c, k, x, s), k, x, s, u, v)
    BY <2>4, StepSet
  <2>6. Begun(c, k, x, s) = d
    BY <2>3, <2>5 DEF Fields
  <2> QED BY <2>2, <2>6 DEF Begun
<1>6. census' = d
  BY <1>1, <1>2, <1>5
<1>7. d.step = "cpu0" /\ d.me = x /\ d.rows0 = s /\ CensusShape(d)
  BY <1>4 DEF CensusShape
<1>8. /\ x \in DOMAIN procs /\ procs[x].live /\ s \subseteq Rows(procs)
      /\ \A q, t \in s : q.proc = t.proc => q = t
  BY <1>2, SampleIs DEF Probes!Alive, Probes!Started
<1>9. CensusHolds(d, procs)
  BY <1>7, <1>8 DEF CensusHolds, FirstSample, FirstWork, SecondSample
<1>10. UNCHANGED <<tool, clock, procs, report, truth, leg, probe>>
  BY DEF Probes!Begin
<1> QED BY <1>6, <1>7, <1>9, <1>10, CensusMoves

\* What is read of a live process' work is what it has done.
LEMMA Reads ==
  ASSUME TableHolds(procs), NEW rows, rows \subseteq Rows(procs), NEW denied, NEW r \in rows,
         procs[r.proc].live
  PROVE  LET reading == Probes!Readings(rows, denied)[r.pid]
         IN  /\ reading = IF r.pid \in denied THEN Probes!Unread ELSE procs[r.proc].cpu
             /\ procs[r.proc].cpu \in {0, 1}
<1>1. r.proc \in DOMAIN procs /\ r.pid = procs[r.proc].pid
  BY RowFields
<1>2. Probes!Cpu(r.pid) = procs[r.proc].cpu /\ procs[r.proc].cpu \in {0, 1}
  BY <1>1, WorkRead
<1>3. Probes!Readings(rows, denied)[r.pid] = IF r.pid \in denied THEN Probes!Unread ELSE Probes!Cpu(r.pid)
  BY DEF Probes!Readings
<1> QED BY <1>2, <1>3

LEMMA FirstCpuStep == ProbesInv /\ Probes!FirstCpu => ProbesInv'
<1> SUFFICES ASSUME ProbesInv, Probes!FirstCpu PROVE ProbesInv'
  OBVIOUS
<1>1. PICK denied : census' = [census EXCEPT !.step = "sleep", !.cpu0 = Probes!Readings(census.rows0, denied)]
  BY DEF Probes!FirstCpu
<1>2. PICK c, f : c = census /\ f = Probes!Readings(census.rows0, denied)
  OBVIOUS
<1>3. c = [step |-> c.step, me |-> c.me, rows0 |-> c.rows0, cpu0 |-> c.cpu0, rows1 |-> c.rows1]
  BY <1>2 DEF ProbesInv, CensusHolds, CensusShape
<1>4. PICK d : d = [step |-> "sleep", me |-> c.me, rows0 |-> c.rows0, cpu0 |-> f, rows1 |-> c.rows1]
  OBVIOUS
<1>5. [c EXCEPT !.step = "sleep", !.cpu0 = f] = d
  <2>1. PICK a, m, r, u, v : /\ c = [step |-> a, me |-> m, rows0 |-> r, cpu0 |-> u, rows1 |-> v]
                            /\ c.me = m /\ c.rows0 = r /\ c.rows1 = v
    BY <1>3
  <2>2. PICK k : k = "sleep"
    OBVIOUS
  <2>3. d = [step |-> k, me |-> m, rows0 |-> r, cpu0 |-> f, rows1 |-> v]
    BY <1>4, <2>1, <2>2
  <2>4. Fields(c, a, m, r, u, v)
    BY <2>1 DEF Fields
  <2>5. Fields(WorkTaken(c, k, f), k, m, r, f, v)
    BY <2>4, StepSet
  <2>6. WorkTaken(c, k, f) = d
    BY <2>3, <2>5 DEF Fields
  <2> QED BY <2>2, <2>6 DEF WorkTaken
<1>6. census' = d
  BY <1>1, <1>2, <1>5
<1>7. d.step = "sleep" /\ d.me = c.me /\ d.rows0 = c.rows0 /\ d.cpu0 = f /\ CensusShape(d)
  BY <1>4 DEF CensusShape
<1>8. TableHolds(procs) /\ c.me \in DOMAIN procs /\ procs[c.me].live /\ c.rows0 \subseteq Rows(procs)
  BY <1>2 DEF ProbesInv, CensusHolds, FirstSample, Probes!FirstCpu
<1>9. ASSUME NEW r \in c.rows0, procs[r.proc].live
      PROVE  f[r.pid] = Probes!Unread \/ (f[r.pid] \in {0, 1} /\ f[r.pid] <= procs[r.proc].cpu)
  <2>1. /\ f[r.pid] = IF r.pid \in denied THEN Probes!Unread ELSE procs[r.proc].cpu
        /\ procs[r.proc].cpu \in {0, 1}
    BY <1>2, <1>8, <1>9, Reads
  <2> QED BY <2>1
<1>10. FirstWork(d, procs)
  BY <1>7, <1>9 DEF FirstWork
<1>13. FirstSample(d, procs)
  BY <1>2, <1>7, <1>8 DEF ProbesInv, CensusHolds, FirstSample, Probes!FirstCpu
<1>11. CensusHolds(d, procs)
  BY <1>7, <1>10, <1>13 DEF CensusHolds, SecondSample
<1>12. UNCHANGED <<tool, clock, procs, report, truth, leg, probe>>
  BY DEF Probes!FirstCpu
<1> QED BY <1>6, <1>7, <1>11, <1>12, CensusMoves

LEMMA SecondStep == ProbesInv /\ Probes!Second => ProbesInv'
<1> SUFFICES ASSUME ProbesInv, Probes!Second PROVE ProbesInv'
  OBVIOUS
<1>0. PICK blank : census' = [census EXCEPT !.step = "cpu1", !.rows1 = Probes!Sample(blank)]
  BY DEF Probes!Second
<1>1. PICK c, s : c = census /\ s = Probes!Sample(blank)
  OBVIOUS
<1>2. c = [step |-> c.step, me |-> c.me, rows0 |-> c.rows0, cpu0 |-> c.cpu0, rows1 |-> c.rows1]
  BY <1>1 DEF ProbesInv, CensusHolds, CensusShape
<1>3. PICK d : d = [step |-> "cpu1", me |-> c.me, rows0 |-> c.rows0, cpu0 |-> c.cpu0, rows1 |-> s]
  OBVIOUS
<1>4. [c EXCEPT !.step = "cpu1", !.rows1 = s] = d
  <2>1. PICK a, m, r, u, v : /\ c = [step |-> a, me |-> m, rows0 |-> r, cpu0 |-> u, rows1 |-> v]
                            /\ c.me = m /\ c.rows0 = r /\ c.cpu0 = u
    BY <1>2
  <2>2. PICK k : k = "cpu1"
    OBVIOUS
  <2>3. d = [step |-> k, me |-> m, rows0 |-> r, cpu0 |-> u, rows1 |-> s]
    BY <1>3, <2>1, <2>2
  <2>4. Fields(c, a, m, r, u, v)
    BY <2>1 DEF Fields
  <2>5. Fields(Resampled(c, k, s), k, m, r, u, s)
    BY <2>4, StepSet
  <2>6. Resampled(c, k, s) = d
    BY <2>3, <2>5 DEF Fields
  <2> QED BY <2>2, <2>6 DEF Resampled
<1>5. census' = d
  BY <1>0, <1>1, <1>4
<1>6. d.step = "cpu1" /\ d.me = c.me /\ d.rows0 = c.rows0 /\ d.cpu0 = c.cpu0 /\ d.rows1 = s /\ CensusShape(d)
  BY <1>3 DEF CensusShape
<1>7. TableHolds(procs) /\ CensusHolds(c, procs) /\ c.step = "sleep"
  BY <1>1 DEF ProbesInv, Probes!Second
<1>8. FirstSample(d, procs) /\ FirstWork(d, procs) /\ c.rows0 \subseteq Rows(procs)
  BY <1>6, <1>7 DEF CensusHolds, FirstSample, FirstWork
<1>9. \A x \in DOMAIN procs : procs[x].live => \E q \in s : q.proc = x
  BY <1>1, SampleIs
<1>10. /\ \A q \in s : q \in Rows(procs) /\ procs[q.proc].live
       /\ \A q, t \in s : q.proc = t.proc => q = t
  BY <1>1, SampleIs
<1>11. OneHolder(procs) /\ \A x \in DOMAIN procs : x \in Nat
  BY <1>7 DEF TableHolds
<1>12. ASSUME NEW q \in s, NEW x \in DOMAIN procs, q.proc < x PROVE procs[x].pid # q.pid
  <2>1. q.proc \in DOMAIN procs /\ q.pid = procs[q.proc].pid
    BY <1>10, RowFields
  <2> QED BY <1>10, <1>11, <1>12, <2>1 DEF OneHolder
<1>13. ASSUME NEW q \in s, NEW t \in s, q.pid = t.pid PROVE q = t
  <2>1. /\ q.proc \in DOMAIN procs /\ q.pid = procs[q.proc].pid
        /\ t.proc \in DOMAIN procs /\ t.pid = procs[t.proc].pid
    BY <1>10, RowFields
  <2>2. ~(q.proc < t.proc) /\ ~(t.proc < q.proc)
    BY <1>12, <1>13, <2>1
  <2>3. q.proc = t.proc
    BY <1>11, <2>1, <2>2
  <2> QED BY <1>10, <2>3
<1>14. ASSUME NEW r \in c.rows0, procs[r.proc].live PROVE \E q \in s : q.proc = r.proc
  BY <1>8, <1>9, <1>14, RowFields
<1>15. SecondSample(d, procs)
  <2>1. s \subseteq Rows(procs)
    BY <1>10
  <2> QED BY <1>6, <1>12, <1>13, <1>14, <2>1 DEF SecondSample
<1>16. CensusHolds(d, procs)
  BY <1>6, <1>8, <1>15 DEF CensusHolds
<1>17. UNCHANGED <<tool, clock, procs, report, truth, leg, probe>>
  BY DEF Probes!Second
<1> QED BY <1>5, <1>6, <1>16, <1>17, CensusMoves

\* What the two samples show of a process that was there all along, and what is
\* the case: that it has no parent among the second, and that it did no work.
OwnPid == procs[census.me].pid
There == {r.proc : r \in census.rows0} \cap Probes!Alive
Ours == {x \in There : procs[x].ppid = OwnPid} \cup {census.me}
Orphans == {x \in There :
  /\ procs[x].parent \notin {r.proc : r \in census.rows1}
  /\ clock - Probes!Born(x) >= OldAge
  /\ census.cpu0[procs[x].pid] # Probes!Unread
  /\ procs[x].cpu - census.cpu0[procs[x].pid] = 0}
Unknown == {x \in There :
  \/ \E r \in census.rows0 : r.proc = x /\ ~r.stamped
  \/ \E s \in census.rows1 : s.pid = procs[x].ppid /\ ~s.stamped}
Succeeded == {x \in Probes!Started \ Probes!Alive : Probes!Holding(procs[x].pid) # {}}
Shown == Probes!Classify(census.rows0, census.rows1, census.cpu0, Probes!Readings(census.rows1, {}))

LEMMA SamplesShow ==
  ASSUME ProbesInv, census.step = "cpu1", NEW x \in There
  PROVE  /\ x \in DOMAIN procs /\ procs[x].live /\ procs[x].pid # 0
         /\ \E q \in census.rows0 : q.proc = x
         /\ \A q \in census.rows0 : q.proc = x =>
              /\ q.pid = procs[x].pid /\ q.ppid = procs[x].ppid
              /\ \A r \in census.rows0 : r.proc = x => r = q
         /\ \E s \in census.rows1 : s.proc = x /\ s.pid = procs[x].pid /\ s.ppid = procs[x].ppid
<1>1. PICK r \in census.rows0 : r.proc = x
  BY DEF There
<1>2. x \in DOMAIN procs /\ procs[x].live
  BY DEF There, Probes!Alive, Probes!Started
<1>3. /\ census.rows0 \subseteq Rows(procs) /\ SecondSample(census, procs) /\ TableHolds(procs)
      /\ \A q, s \in census.rows0 : q.proc = s.proc => q = s
  BY DEF ProbesInv, CensusHolds, FirstSample
<1>4. PICK s \in census.rows1 : s.proc = x
  BY <1>1, <1>2, <1>3 DEF SecondSample
<1>5. s.pid = procs[x].pid /\ s.ppid = procs[x].ppid
  BY <1>3, <1>4, RowFields DEF SecondSample
<1>6. procs[x] \in ProcSet
  BY <1>2, <1>3 DEF TableHolds
<1>7. procs[x].pid # 0
  BY <1>6, ProbeAssumption DEF ProcSet
<1>8. \A q \in census.rows0 : q.pid = procs[q.proc].pid /\ q.ppid = procs[q.proc].ppid
  BY <1>3, RowFields
<1> QED BY <1>1, <1>2, <1>3, <1>4, <1>5, <1>7, <1>8

LEMMA ParentIsSeen ==
  ASSUME ProbesInv, census.step = "cpu1", NEW x \in There, NEW q \in census.rows0, q.proc = x
  PROVE  Probes!ParentGone(q, census.rows1)
           <=> /\ procs[x].parent \notin {r.proc : r \in census.rows1}
               /\ \A s \in census.rows1 : s.pid = procs[x].ppid => s.stamped
<1>2. q.proc = x /\ q.pid = procs[x].pid /\ q.ppid = procs[x].ppid
  BY SamplesShow
<1>3. x \in DOMAIN procs /\ q \in census.rows0
  BY SamplesShow
<1>4. /\ TableHolds(procs) /\ SecondSample(census, procs) /\ census.rows1 \subseteq Rows(procs)
      /\ \A y \in DOMAIN procs : y \in Nat \ {0}
  BY DEF ProbesInv, CensusHolds, SecondSample, TableHolds
<1>5. /\ procs[x].parent = 0 => procs[x].ppid = 0
      /\ procs[x].parent # 0 =>
           /\ procs[x].parent \in DOMAIN procs /\ procs[x].parent < x
           /\ procs[x].ppid = procs[procs[x].parent].pid
           /\ \A y \in DOMAIN procs : procs[x].parent < y /\ y <= x => procs[y].pid # procs[x].ppid
  BY <1>3, <1>4 DEF TableHolds, Descends
<1>6. \A s \in census.rows1 : s.proc \in DOMAIN procs /\ s.pid = procs[s.proc].pid
  BY <1>4, RowFields
<1>7. ASSUME Probes!ParentGone(q, census.rows1), NEW s \in census.rows1, s.proc = procs[x].parent PROVE FALSE
  <2>1. s.proc < x /\ s.pid = q.ppid /\ s.proc \in Nat
    BY <1>2, <1>4, <1>5, <1>6, <1>7
  <2>2. s.proc > x
    BY <1>2, <1>7, <2>1 DEF Probes!ParentGone
  <2> QED BY <1>3, <1>4, <2>1, <2>2
<1>8. ASSUME procs[x].parent \notin {r.proc : r \in census.rows1}, NEW s \in census.rows1, s.pid = q.ppid
      PROVE  s.proc > q.proc
  <2> SUFFICES ASSUME s.proc <= x PROVE FALSE
    BY <1>2, <1>3, <1>4, <1>6
  <2>1. procs[s.proc] \in ProcSet
    BY <1>4, <1>6 DEF TableHolds
  <2>2. s.pid # 0
    BY <1>6, <2>1, ProbeAssumption DEF ProcSet
  <2>3. procs[x].parent # 0
    BY <1>2, <1>5, <1>8, <2>2
  <2>4. PICK p : p = procs[x].parent
    OBVIOUS
  <2>5. /\ p \in DOMAIN procs /\ p < x /\ procs[x].ppid = procs[p].pid /\ s.proc # p
        /\ \A y \in DOMAIN procs : p < y /\ y <= x => procs[y].pid # procs[x].ppid
    BY <1>5, <1>8, <2>3, <2>4
  <2>6. CASE p < s.proc
    BY <1>2, <1>6, <1>8, <2>5, <2>6
  <2>7. CASE s.proc < p
    <3>1. procs[p].pid # s.pid
      BY <1>2, <1>3, <1>4, <2>5, <2>7 DEF SecondSample
    <3> QED BY <1>2, <1>8, <2>5, <3>1
  <2> QED BY <1>4, <1>6, <2>5, <2>6, <2>7
<1> QED BY <1>2, <1>7, <1>8 DEF Probes!ParentGone

LEMMA WorkIsSeen ==
  ASSUME ProbesInv, census.step = "cpu1", NEW x \in There, NEW q \in census.rows0, q.proc = x
  PROVE  Probes!Idle(q, census.cpu0, Probes!Readings(census.rows1, {}))
           <=> /\ census.cpu0[procs[x].pid] # Probes!Unread
               /\ procs[x].cpu - census.cpu0[procs[x].pid] = 0
<1>2. q.proc = x /\ q.pid = procs[x].pid
  BY SamplesShow
<1>3. x \in DOMAIN procs /\ procs[x].live
  BY SamplesShow
<1>10. PICK s \in census.rows1 : s.proc = x /\ s.pid = q.pid
  BY <1>2, SamplesShow
<1>4. TableHolds(procs) /\ FirstWork(census, procs) /\ census.rows1 \subseteq Rows(procs)
  BY DEF ProbesInv, CensusHolds, SecondSample
<1>5. PICK c0, c1 : c0 = census.cpu0[q.pid] /\ c1 = Probes!Readings(census.rows1, {})[q.pid]
  OBVIOUS
<1>6. c1 = procs[x].cpu /\ procs[x].cpu \in {0, 1}
  BY <1>3, <1>4, <1>5, <1>10, Reads
<1>7. c0 = Probes!Unread \/ (c0 \in {0, 1} /\ c0 <= procs[x].cpu)
  BY <1>2, <1>3, <1>4, <1>5 DEF FirstWork
<1>8. Probes!Unread = 99
  BY DEF Probes!Unread
<1>9. (c0 # Probes!Unread /\ c1 # Probes!Unread /\ ~(c1 > c0))
        <=> (c0 # Probes!Unread /\ procs[x].cpu - c0 = 0)
  BY <1>6, <1>7, <1>8
<1> QED BY <1>2, <1>5, <1>9 DEF Probes!Idle

LEMMA NotLeftOut ==
  ASSUME ProbesInv, census.step = "cpu1", NEW x \in There, x \notin Ours
  PROVE  procs[x].pid \notin Probes!Excluded(census.rows1)
<1>2. PICK q \in census.rows1 : q.proc = x /\ q.pid = procs[x].pid /\ q.ppid = procs[x].ppid
  BY SamplesShow
<1>3. x \in DOMAIN procs /\ procs[x].live
  BY SamplesShow
<1>4. TableHolds(procs) /\ SecondSample(census, procs) /\ census.me \in DOMAIN procs /\ procs[census.me].live
  BY DEF ProbesInv, CensusHolds, FirstSample
<1>5. x # census.me /\ procs[x].ppid # OwnPid
  BY DEF Ours
<1>6. procs[x].pid # OwnPid
  <2>1. OneHolder(procs) /\ x \in Nat /\ census.me \in Nat
    BY <1>3, <1>4 DEF TableHolds
  <2>2. x < census.me \/ census.me < x
    BY <1>5, <2>1
  <2> QED BY <1>3, <1>4, <2>1, <2>2 DEF OneHolder, OwnPid
<1>7. ASSUME NEW s \in census.rows1, s.ppid = OwnPid, s.pid = procs[x].pid PROVE FALSE
  <2>1. s = q
    BY <1>2, <1>3, <1>4, <1>7 DEF SecondSample
  <2> QED BY <1>2, <1>5, <1>7, <2>1
<1> QED BY <1>6, <1>7 DEF Probes!Excluded, OwnPid

LEMMA ShownAreOrphans ==
  ASSUME ProbesInv, census.step = "cpu1"
  PROVE  (Shown \cap There) \ Ours = (Orphans \ Unknown) \ Ours
<1> SUFFICES ASSUME NEW x \in There, x \notin Ours PROVE x \in Shown <=> x \in Orphans \ Unknown
  BY DEF Orphans
<1>1. PICK q \in census.rows0 : q.proc = x
  BY SamplesShow
<1>2. /\ q.pid = procs[x].pid /\ q.ppid = procs[x].ppid
      /\ \A r \in census.rows0 : r.proc = x => r = q
      /\ \E s \in census.rows1 : s.pid = q.pid
  BY <1>1, SamplesShow
<1>4. PICK c1 : c1 = Probes!Readings(census.rows1, {})
  OBVIOUS
<1>5. q.pid \notin Probes!Excluded(census.rows1)
  BY <1>2, NotLeftOut
<1>6. x \in Shown <=> /\ q.stamped /\ Probes!Old(q) /\ Probes!ParentGone(q, census.rows1)
                      /\ Probes!Idle(q, census.cpu0, c1)
  <2>1. x \in Shown <=> \E r \in census.rows0 :
          /\ x = r.proc
          /\ r.pid \notin Probes!Excluded(census.rows1)
          /\ \E s \in census.rows1 : s.pid = r.pid
          /\ r.stamped /\ Probes!Old(r) /\ Probes!ParentGone(r, census.rows1)
          /\ Probes!Idle(r, census.cpu0, c1)
    BY <1>4 DEF Shown, Probes!Classify
  <2> QED BY <1>1, <1>2, <1>5, <2>1
<1>7. Probes!Old(q) <=> clock - Probes!Born(x) >= OldAge
  BY <1>1 DEF Probes!Old
<1>8. Probes!ParentGone(q, census.rows1)
        <=> /\ procs[x].parent \notin {r.proc : r \in census.rows1}
            /\ \A s \in census.rows1 : s.pid = procs[x].ppid => s.stamped
  BY <1>1, ParentIsSeen
<1>9. Probes!Idle(q, census.cpu0, c1)
        <=> /\ census.cpu0[procs[x].pid] # Probes!Unread
            /\ procs[x].cpu - census.cpu0[procs[x].pid] = 0
  BY <1>1, <1>4, WorkIsSeen
<1>10. x \in Orphans <=> /\ procs[x].parent \notin {r.proc : r \in census.rows1}
                         /\ clock - Probes!Born(x) >= OldAge
                         /\ census.cpu0[procs[x].pid] # Probes!Unread
                         /\ procs[x].cpu - census.cpu0[procs[x].pid] = 0
  BY DEF Orphans
<1>11. x \notin Unknown <=> /\ q.stamped
                            /\ \A s \in census.rows1 : s.pid = procs[x].ppid => s.stamped
  BY <1>1, <1>2 DEF Unknown
<1> QED BY <1>6, <1>7, <1>8, <1>9, <1>10, <1>11

\* Who is shown and has gone, by the end, left its pid to another: that one's work was
\* read.
LEMMA ShownOrSucceeded ==
  ASSUME ProbesInv, census.step = "cpu1"
  PROVE  Shown \ There \subseteq Succeeded
<1> SUFFICES ASSUME NEW x \in Shown, x \notin There PROVE x \in Succeeded
  OBVIOUS
<1>1. PICK c1 : c1 = Probes!Readings(census.rows1, {})
  OBVIOUS
<1>2. PICK r \in census.rows0 :
        /\ x = r.proc /\ \E s \in census.rows1 : s.pid = r.pid
        /\ Probes!Idle(r, census.cpu0, c1)
  BY <1>1 DEF Shown, Probes!Classify
<1>3. x \in DOMAIN procs /\ r.pid = procs[x].pid
  BY <1>2, RowFields DEF ProbesInv, CensusHolds, FirstSample
<1>4. x \notin Probes!Alive
  BY <1>2 DEF There
<1>5. c1[r.pid] = Probes!Cpu(r.pid)
  <2>1. r.pid \in {s.pid : s \in census.rows1} /\ r.pid \notin {}
    BY <1>2
  <2> QED BY <1>1, <2>1 DEF Probes!Readings
<1>6. c1[r.pid] # Probes!Unread
  BY <1>2 DEF Probes!Idle
<1>7. Probes!Holding(procs[x].pid) # {}
  BY <1>3, <1>5, <1>6 DEF Probes!Cpu
<1> QED BY <1>3, <1>4, <1>7 DEF Succeeded, Probes!Started

LEMMA ReportStep == ProbesInv /\ Probes!Report => ProbesInv'
<1> SUFFICES ASSUME ProbesInv, Probes!Report PROVE ProbesInv'
  OBVIOUS
<1>1. /\ census.step = "cpu1" /\ report' = Shown
      /\ UNCHANGED <<tool, clock, procs, leg, probe>>
  BY DEF Probes!Report, Shown
<1>2. truth' = [there |-> There, orphans |-> Orphans, unknown |-> Unknown, succeeded |-> Succeeded,
                ours |-> Ours]
  BY DEF Probes!Report, There, Orphans, Unknown, Succeeded, Ours, OwnPid
<1>3. /\ truth'.there = There /\ truth'.orphans = Orphans /\ truth'.unknown = Unknown
      /\ truth'.succeeded = Succeeded /\ truth'.ours = Ours
  BY <1>2
<1>4. Probes!CensusIsExact'
  BY <1>1, <1>3, ShownAreOrphans, ShownOrSucceeded DEF Probes!CensusIsExact
<1>5. Probes!ProbesAreTrue'
  BY <1>1, <1>4 DEF ProbesInv, Probes!ProbesAreTrue, Probes!VerdictIsExact
<1>6. CensusHolds(census', procs)
  <2>1. PICK k, z : k = "done" /\ z = "rest"
    OBVIOUS
  <2>2. PICK c : c = Probes!Resting
    OBVIOUS
  <2>3. Fields(c, z, 0, {}, <<>>, {})
    BY <2>1, <2>2 DEF Probes!Resting, Fields
  <2>4. Fields(Ended(c, k, census.me), k, census.me, {}, <<>>, {})
    BY <2>3, StepSet
  <2>5. census' = Ended(c, k, census.me)
    BY <2>1, <2>2 DEF Probes!Report, Ended
  <2>6. Fields(census', k, census.me, {}, <<>>, {})
    BY <2>4, <2>5
  <2>7. census'.step = k /\ CensusShape(census')
    BY <2>6 DEF Fields, CensusShape
  <2> QED BY <2>1, <2>7 DEF CensusHolds, FirstSample, FirstWork, SecondSample
<1>7. report' \subseteq DOMAIN procs
  <2>1. census.rows0 \subseteq Rows(procs)
    BY <1>1 DEF ProbesInv, CensusHolds, FirstSample
  <2>2. \A r \in census.rows0 : r.proc \in DOMAIN procs
    BY <2>1, RowFields
  <2> QED BY <1>1, <2>2 DEF Shown, Probes!Classify
<1> QED BY <1>1, <1>5, <1>6, <1>7 DEF ProbesInv

LEMMA VerdictStep == ProbesInv /\ Probes!Probe => ProbesInv'
<1> SUFFICES ASSUME ProbesInv, Probes!Probe PROVE ProbesInv'
  OBVIOUS
<1>1. PICK x : x = leg.proc
  OBVIOUS
<1>2. PICK said \in {Probes!Verdict(x), "UNKNOWN"} : probe' = [said |-> said, live |-> procs[x].live]
  BY <1>1 DEF Probes!Probe
<1>3. /\ probe'.said = said /\ probe'.live = procs[x].live
      /\ UNCHANGED <<tool, clock, procs, census, report, truth, leg>>
  BY <1>2 DEF Probes!Probe
<1>4. x \in DOMAIN procs /\ TableHolds(procs)
  BY <1>1 DEF ProbesInv, Probes!Probe
<1>5. PICK h, y : h = Probes!Holding(procs[x].pid) /\ y = CHOOSE z \in h : TRUE
  OBVIOUS
<1>6. Probes!Verdict(x) =
        CASE h = {} -> "EXITED"
          [] h # {} /\ ~leg.read -> "ALIVE-UNVERIFIED"
          [] h # {} /\ leg.read ->
               IF Probes!Apart(x, y) > Near THEN "EXITED"
                 ELSE IF x = y THEN "ALIVE" ELSE "ALIVE-UNVERIFIED"
  BY <1>5 DEF Probes!Verdict, Probes!Same
<1>7. CASE h = {}
  <2>1. Probes!Verdict(x) = "EXITED" /\ ~procs[x].live
    BY <1>4, <1>5, <1>6, <1>7 DEF Probes!Holding, Probes!Alive, Probes!Started
  <2>2. Probes!VerdictIsExact'
    BY <1>2, <1>3, <2>1 DEF Probes!VerdictIsExact
  <2> QED BY <1>2, <1>3, <2>1, <2>2 DEF ProbesInv, Probes!ProbesAreTrue, Probes!CensusIsExact
<1>8. CASE h # {} /\ ~leg.read
  <2>1. Probes!Verdict(x) = "ALIVE-UNVERIFIED"
    BY <1>6, <1>8
  <2>2. Probes!VerdictIsExact'
    BY <1>2, <1>3, <2>1 DEF Probes!VerdictIsExact
  <2> QED BY <1>2, <1>3, <2>1, <2>2 DEF ProbesInv, Probes!ProbesAreTrue, Probes!CensusIsExact
<1>9. CASE h # {} /\ leg.read
  <2>1. y \in h
    BY <1>5, <1>9
  <2>2. procs[y].live
    BY <1>5, <2>1 DEF Probes!Holding, Probes!Alive
  <2>3. procs[x].live => y = x
    BY <1>4, <1>5, <2>1, HolderIsOne
  <2>4. ~(Probes!Apart(x, x) > Near)
    <3>1. procs[x] \in ProcSet
      BY <1>4 DEF TableHolds
    <3>2. procs[x].born \in Nat
      BY <3>1 DEF ProcSet
    <3> QED BY <3>2, ProbeAssumption DEF Probes!Apart, Probes!Born
  <2>5. Probes!Verdict(x) = IF Probes!Apart(x, y) > Near THEN "EXITED"
                              ELSE IF x = y THEN "ALIVE" ELSE "ALIVE-UNVERIFIED"
    BY <1>6, <1>9
  <2>6. /\ Probes!Verdict(x) \in {"EXITED", "ALIVE", "ALIVE-UNVERIFIED"}
        /\ Probes!Verdict(x) = "EXITED" => ~procs[x].live
        /\ Probes!Verdict(x) = "ALIVE" => procs[x].live
    BY <2>2, <2>3, <2>4, <2>5
  <2>7. Probes!VerdictIsExact'
    BY <1>2, <1>3, <2>6 DEF Probes!VerdictIsExact
  <2> QED BY <1>2, <1>3, <2>6, <2>7 DEF ProbesInv, Probes!ProbesAreTrue, Probes!CensusIsExact
<1> QED BY <1>7, <1>8, <1>9

LEMMA ProbesStep == ProbesInv /\ [Probes!Next]_probesOnly => ProbesInv'
<1> SUFFICES ASSUME ProbesInv, [Probes!Next]_probesOnly PROVE ProbesInv'
  OBVIOUS
<1>1. CASE UNCHANGED probesOnly
  BY <1>1 DEF ProbesInv, probesOnly, Probes!ProbesAreTrue, Probes!CensusIsExact, Probes!VerdictIsExact
<1>2. CASE Probes!Next
  BY <1>2, StartStep, ChangeStep, ClockStep, BeginStep, FirstCpuStep, SecondStep, ReportStep, VerdictStep
  DEF Probes!Next, Probes!Census
<1> QED BY <1>1, <1>2

\* The table of two processes a run begins with.
LEMMA ProbesStart == Probes!Init => ProbesInv
<1> SUFFICES ASSUME Probes!Init PROVE ProbesInv
  OBVIOUS
<1>1. PICK one, other : /\ one \in Pids /\ other \in Pids /\ one # other
                        /\ procs = << [pid |-> one, ppid |-> 0, parent |-> 0, born |-> 0, live |-> TRUE, cpu |-> 0],
                                      [pid |-> other, ppid |-> one, parent |-> 1, born |-> 0, live |-> TRUE,
                                       cpu |-> 0] >>
  <2>1. PICK p, q \in Pids : p # q
    BY ProbeAssumption
  <2>2. PICK a \in Pids : a = CHOOSE z \in Pids : TRUE
    BY <2>1
  <2>3. PICK P : P = Pids \ {a}
    OBVIOUS
  <2>4. PICK b \in P : b = CHOOSE z \in P : TRUE
    <3>1. p \in P \/ q \in P
      BY <2>1, <2>3
    <3> QED BY <3>1
  <2> QED BY <2>2, <2>3, <2>4 DEF Probes!Init
<1>2. PICK x, y : /\ x = [pid |-> one, ppid |-> 0, parent |-> 0, born |-> 0, live |-> TRUE, cpu |-> 0]
                  /\ y = [pid |-> other, ppid |-> one, parent |-> 1, born |-> 0, live |-> TRUE, cpu |-> 0]
  OBVIOUS
<1>3. procs = <<x, y>>
  BY <1>1, <1>2
<1>4. x \in ProcSet /\ y \in ProcSet
  BY <1>1, <1>2, ProbeAssumption DEF ProcSet
<1>5. procs \in Seq(ProcSet) /\ Len(procs) = 2 /\ DOMAIN procs = {1, 2} /\ procs[1] = x /\ procs[2] = y
  BY <1>3, <1>4
<1>6. /\ x.pid = one /\ x.ppid = 0 /\ x.parent = 0
      /\ y.pid = other /\ y.ppid = one /\ y.parent = 1
  BY <1>2
<1>7. OneHolder(procs)
  BY <1>1, <1>5, <1>6 DEF OneHolder
<1>8. Descends(procs)
  BY <1>1, <1>5, <1>6 DEF Descends
<1>9. TableHolds(procs)
  BY <1>5, <1>7, <1>8, ProbeAssumption DEF TableHolds
<1>10. census = [step |-> "rest", me |-> 0, rows0 |-> {}, cpu0 |-> <<>>, rows1 |-> {}]
  BY DEF Probes!Init, Probes!Resting
<1>11. census.step = "rest" /\ CensusShape(census)
  BY <1>10 DEF CensusShape
<1>12. CensusHolds(census, procs)
  BY <1>11 DEF CensusHolds, FirstSample, FirstWork, SecondSample
<1>13. /\ clock = 0 /\ report = {} /\ leg.proc = 0 /\ probe.said = "UNKNOWN" /\ tool \in {"census", "probe"}
  BY DEF Probes!Init
<1>14. Probes!ProbesAreTrue
  BY <1>11, <1>13 DEF Probes!ProbesAreTrue, Probes!CensusIsExact, Probes!VerdictIsExact
<1> QED BY <1>9, <1>12, <1>13, <1>14, ProbeAssumption DEF ProbesInv

LEMMA ProbesTypes == ProbesInv => Probes!TypeOK
<1> SUFFICES ASSUME ProbesInv PROVE Probes!TypeOK
  OBVIOUS
<1>1. TableHolds(procs) /\ Len(procs) <= MaxBirths
  BY DEF ProbesInv, TableHolds
<1>2. ASSUME NEW x \in DOMAIN procs
      PROVE  procs[x].pid \in Pids /\ Probes!Cardinality(Probes!Holding(procs[x].pid)) <= 1
  <2>1. procs[x] \in ProcSet
    BY <1>1 DEF TableHolds
  <2>2. procs[x].pid \in Pids
    BY <2>1 DEF ProcSet
  <2>3. PICK h : h = Probes!Holding(procs[x].pid)
    OBVIOUS
  <2>4. CASE h = {}
    BY <2>2, <2>3, <2>4, CountsAlike, FS_EmptySet
  <2>5. CASE h # {}
    <3>1. PICK y \in h : TRUE
      BY <2>5
    <3>2. y \in DOMAIN procs /\ procs[y].live /\ procs[y].pid = procs[x].pid
      BY <2>3, <3>1 DEF Probes!Holding, Probes!Alive, Probes!Started
    <3>3. h = {y}
      BY <1>1, <2>3, <3>2, HolderIsOne
    <3>4. Cardinality(h) = 1
      BY <3>3, FS_Singleton
    <3> QED BY <2>2, <2>3, <3>4, CountsAlike
  <2> QED BY <2>4, <2>5
<1>3. census.step \in {"rest", "cpu0", "sleep", "cpu1", "done"}
  BY DEF ProbesInv, CensusHolds
<1>4. /\ tool \in {"census", "probe"} /\ clock \in 0..MaxTime /\ report \subseteq DOMAIN procs
      /\ leg.proc \in {0} \cup DOMAIN procs
      /\ probe.said \in {"ALIVE", "ALIVE-UNVERIFIED", "EXITED", "UNKNOWN"}
  BY DEF ProbesInv
<1> QED BY <1>1, <1>2, <1>3, <1>4 DEF Probes!TypeOK, Probes!Started

-----------------------------------------------------------------------------
(* Together.  A behaviour runs one of the four; the others do not move.    *)

LEMMA StepsApart ==
  EvidenceSpec => /\ Spec
                  /\ Probes!Init /\ [][Probes!Next]_probesOnly
                  /\ Ticks!Init /\ [][Ticks!Next]_ticksOnly
                  /\ Binding!Init /\ [][Binding!Next]_bindingOnly
<1>1. EvidenceInit => Init /\ Probes!Init /\ Ticks!Init /\ Binding!Init
  BY DEF EvidenceInit
<1>2. [EvidenceNext]_all => [Next]_vars
  BY DEF EvidenceNext, all
<1>3. [EvidenceNext]_all => [Probes!Next]_probesOnly
  BY DEF EvidenceNext, all
<1>4. [EvidenceNext]_all => [Ticks!Next]_ticksOnly
  BY DEF EvidenceNext, all
<1>5. [EvidenceNext]_all => [Binding!Next]_bindingOnly
  BY DEF EvidenceNext, all
<1> QED BY <1>1, <1>2, <1>3, <1>4, <1>5, PTL DEF EvidenceSpec, Spec

\* Each invariant, at every moment of every behaviour.
LEMMA AlwaysSound ==
  EvidenceSpec => [](PublicationInv /\ DetectorInv /\ SeatTypes /\ RecordsInv /\ BindingInv /\ ProbesInv)
<1>1. Spec => []PublicationInv
  BY InitIsSound, NextKeepsPublicationInv, PTL DEF Spec
<1>2. Probes!Init /\ [][Probes!Next]_probesOnly => []ProbesInv
  BY ProbesStart, ProbesStep, PTL
<1>3. Ticks!Init /\ [][Ticks!Next]_ticksOnly => [](DetectorInv /\ SeatTypes /\ RecordsInv)
  <2>1. Ticks!Init => DetectorInv /\ SeatTypes /\ RecordsInv
    BY DetectorInit, SeatInit, RecordsInit
  <2>2. DetectorInv /\ SeatTypes /\ RecordsInv /\ [Ticks!Next]_ticksOnly
          => (DetectorInv /\ SeatTypes /\ RecordsInv)'
    BY DetectorStep, SeatStep, RecordsStep DEF SeatTypes
  <2> QED BY <2>1, <2>2, PTL
<1>4. Binding!Init /\ [][Binding!Next]_bindingOnly => []BindingInv
  BY BindingInit, BindingStep, PTL
<1> QED BY <1>1, <1>2, <1>3, <1>4, StepsApart, PTL

\* Whatever a publication, an undo, a kill or a sweep leaves half done, in any order and
\* with any reuse of pids: no temp is out of the sweep's reach, no file of a living
\* publisher is taken or replaced, the slot's reader gets a whole record and the
\* launch record's reader always the same one (Invoke-PcxPublication and
\* Remove-PcxPublicationPair).
THEOREM PublicationIsOneUnit == EvidenceSpec => []PublicationHolds
<1>1. ASSUME PublicationInv PROVE PublicationHolds
  <2>1. TempHasSidecar
    BY <1>1 DEF PublicationInv
  <2>2. LiveIsSpared
    BY <1>1 DEF PublicationInv, PublishersOwn, Publishing, LiveIsSpared
  <2>3. ReadersAreSafe
    BY <1>1 DEF PublicationInv, RecordIsOnce, ReadersAreSafe
  <2> QED BY <2>1, <2>2, <2>3 DEF PublicationHolds
<1> QED BY <1>1, AlwaysSound, PTL

\* However processes start, work and exit between the two readings of orphan_census.py,
\* whoever is given a dead process' pid, and whichever stamps cannot be read: of the
\* processes that were there all along exactly those that are old, idle, without their
\* parent and not in doubt are reported, and of the others only some whose pid has
\* another holder; and proc_alive.ps1 says neither ALIVE of a dead process nor EXITED of a live one.
THEOREM ProbesNeverMistake == EvidenceSpec => []ProbesAreTrue
<1>1. ASSUME PublicationInv, DetectorInv, SeatTypes, RecordsInv, BindingInv, ProbesInv
      PROVE  ProbesAreTrue
  <2>1. TypeOK /\ Probes!TypeOK /\ Binding!TypeOK
    BY <1>1, ProbesTypes, BindingTypes DEF PublicationInv
  <2>2. Ticks!TypeOK
    BY <1>1 DEF DetectorInv, BodyFrame, SeatTypes, RecordsInv, LedgerTypes, TickFrame, Verdicts, Pens, DayNumbers, Hands,
                Ticks!TypeOK, Ticks!AllDays, Ticks!Writers
  <2> QED BY <1>1, <2>1, <2>2 DEF TypesOK, ProbesAreTrue, ProbesInv
<1> QED BY <1>1, AlwaysSound, PTL

\* Of a fire that began on a clean clone, however many bodies it composed and landed,
\* ORPHANED is said only when it left something undecided; NOT ORPHANED, with no marker
\* and a git status that answered, never over a delta in the bank, and over an undecided
\* body only when the first body by name is in the tree (tick_orphan_record.py,
\* whichever of its other reads fail).
THEOREM OrphansAreTold == EvidenceSpec => []DetectorIsRight
<1>1. DetectorInv => DetectorIsRight
  BY DEF DetectorInv, DetectorIsRight
<1> QED BY <1>1, AlwaysSound, PTL

\* A record that was ever written to its day's file is in it, and one that was ever
\* committed is in the file's last commit, though the two writers share the file and the
\* index, their commits fail, and they die at any step (append_record).
THEOREM BookedIsKept == EvidenceSpec => []RecordsAreKept
<1>1. RecordsInv => RecordsAreKept
  BY DEF RecordsInv, Kept, DayNumbers, Hands, RecordsAreKept, Ticks!RecordsAreKept, Ticks!AllDays,
         Ticks!Writers
<1> QED BY <1>1, AlwaysSound, PTL

\* An append that runs to its end puts what its preview showed on the lane it was shown
\* for, and a refusal names a cause that was the case, whatever was written, edited or
\* rolled over since.
THEOREM AppendIsAsPreviewed == EvidenceSpec => []BindingHolds
<1>1. BindingInv => BindingHolds
  BY BindingSound DEF BindingHolds
<1> QED BY <1>1, AlwaysSound, PTL
=============================================================================
