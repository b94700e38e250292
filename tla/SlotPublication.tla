--------------------------- MODULE SlotPublication ---------------------------
(***************************************************************************)
(* tools/pcx: a process publishes its record into a slot of the registry   *)
(* through a pair of files, the sidecar that names it and the temp that is *)
(* moved over the slot, and writes its launch record once.  It may be      *)
(* killed, or an operation may throw, between any two of them, and its pid *)
(* may be given to another process.  What the dead leave is deleted by a   *)
(* sweep, one at a time; the sweep itself is not in the repository, its    *)
(* test of liveness and its delete are.                                    *)
(***************************************************************************)
CONSTANTS
  SlotPids,      \* process ids that its takers get
  Takers,        \* processes that publish into the one slot
  NoTaker,
  Epochs         \* promotion epochs

ASSUME SlotAssumption == NoTaker \notin Takers /\ SlotPids # {} /\ Epochs # {}

VARIABLES
  pid, pc, epoch,   \* of each taker
  sidecar, temp,    \* the files of the pair <<pid, epoch>>
  slot,             \* slot_<n>.json
  launch,           \* launch_record_a<attempt>.json
  read,             \* the launch record as a reader first got it
  sweep

vars == <<pid, pc, epoch, sidecar, temp, slot, launch, read, sweep>>

-----------------------------------------------------------------------------
(* Files and the processes they name.                                      *)

Keys == SlotPids \X Epochs

\* A file opened and not yet written is torn: it holds nothing that parses.
Nothing == [by |-> NoTaker, whole |-> FALSE]
Torn(p) == [by |-> p, whole |-> FALSE]
Whole(p) == [by |-> p, whole |-> TRUE]

\* CREATE_NEW throws on a name that is there, whatever it holds.
CreateOver(file) == ~file.whole
CanCreate(file) == file = Nothing

Live(p) == pc[p] \notin {"unborn", "dead"}
Holders(n) == {p \in Takers : Live(p) /\ pid[p] = n}

\* Test-PcxTripleLiveness() says DEAD: the pid is free, or held by a process that
\* is not the recorded one.  A torn sidecar has only the pid in its name.  A query
\* that fails says UNKNOWN, and nothing is deleted.
Dead(k) ==
  IF sidecar[k].whole THEN sidecar[k].by \notin Holders(k[1]) ELSE Holders(k[1]) = {}

\* Remove-PcxPublicationPair() unlinks the temp first.
Unlink(step, k) ==
  IF step = "first"
    THEN temp' = [temp EXCEPT ![k] = Nothing] /\ UNCHANGED sidecar
    ELSE sidecar' = [sidecar EXCEPT ![k] = Nothing] /\ UNCHANGED temp

-----------------------------------------------------------------------------
(* A taker.                                                                *)

Key(p) == <<pid[p], epoch[p]>>
Goto(p, next) == pc' = [pc EXCEPT ![p] = next]

Born(p) ==
  /\ pc[p] = "unborn"
  /\ \E n \in SlotPids : Holders(n) = {} /\ pid' = [pid EXCEPT ![p] = n]
  /\ Goto(p, "ready")
  /\ UNCHANGED <<epoch, sidecar, temp, slot, launch, read, sweep>>

\* Invoke-PcxPublication(), from the exclusive creation of the sidecar...
OpenSidecar(p) ==
  /\ pc[p] = "ready"
  /\ \E e \in Epochs :
       /\ CanCreate(sidecar[<<pid[p], e>>])
       /\ epoch' = [epoch EXCEPT ![p] = e]
       /\ sidecar' = [sidecar EXCEPT ![<<pid[p], e>>] = Torn(p)]
  /\ Goto(p, "sidecar")
  /\ UNCHANGED <<pid, temp, slot, launch, read, sweep>>
WriteSidecar(p) ==
  /\ pc[p] = "sidecar"
  /\ sidecar' = [sidecar EXCEPT ![Key(p)] = Whole(p)]
  /\ Goto(p, "temp")
  /\ UNCHANGED <<pid, epoch, temp, slot, launch, read, sweep>>
\* ...the temp, which WriteAllText opens over whatever is there...
OpenTemp(p) ==
  /\ pc[p] = "temp"
  /\ temp' = [temp EXCEPT ![Key(p)] = Torn(p)]
  /\ Goto(p, "content")
  /\ UNCHANGED <<pid, epoch, sidecar, slot, launch, read, sweep>>
WriteTemp(p) ==
  /\ pc[p] = "content"
  /\ temp' = [temp EXCEPT ![Key(p)] = Whole(p)]
  /\ Goto(p, "move")
  /\ UNCHANGED <<pid, epoch, sidecar, slot, launch, read, sweep>>
\* ...the move over the slot, which throws without its source...
Move(p) ==
  /\ pc[p] = "move"
  /\ temp[Key(p)] # Nothing
  /\ slot' = temp[Key(p)]
  /\ temp' = [temp EXCEPT ![Key(p)] = Nothing]
  /\ Goto(p, "first")
  /\ UNCHANGED <<pid, epoch, sidecar, launch, read, sweep>>
\* ...to the ordered delete of the pair, which Undo-PcxPublicationAttempt() shares.
Retire(p) ==
  /\ pc[p] \in {"first", "second"}
  /\ Unlink(pc[p], Key(p))
  /\ Goto(p, IF pc[p] = "first" THEN "second" ELSE "ready")
  /\ UNCHANGED <<pid, epoch, slot, launch, read, sweep>>
Undo(p) ==
  /\ pc[p] = "ready"
  /\ \E e \in Epochs : /\ sidecar[<<pid[p], e>>].by = p
                       /\ epoch' = [epoch EXCEPT ![p] = e]
  /\ Goto(p, "first")
  /\ UNCHANGED <<pid, sidecar, temp, slot, launch, read, sweep>>

\* Write-PcxLaunchRecord() and Read-PcxLaunchRecord(), which returns nothing for a
\* record that is torn or still open.
Register(p) ==
  /\ \/ pc[p] = "ready" /\ CanCreate(launch) /\ launch' = Torn(p) /\ Goto(p, "twin")
     \/ pc[p] = "twin" /\ launch' = Whole(p) /\ Goto(p, "ready")
  /\ UNCHANGED <<pid, epoch, sidecar, temp, slot, read, sweep>>
ReadTwin ==
  /\ launch.whole /\ read = Nothing
  /\ read' = launch
  /\ UNCHANGED <<pid, pc, epoch, sidecar, temp, slot, launch, sweep>>

\* An operation throws and its caller lives on, or the process is killed.
Stop(p) ==
  /\ Live(p)
  /\ \/ pc[p] # "ready" /\ Goto(p, "ready")
     \/ Goto(p, "dead")
  /\ UNCHANGED <<pid, epoch, sidecar, temp, slot, launch, read, sweep>>

Take(p) ==
  \/ Born(p) \/ OpenSidecar(p) \/ WriteSidecar(p) \/ OpenTemp(p) \/ WriteTemp(p)
  \/ Move(p) \/ Retire(p) \/ Undo(p) \/ Register(p) \/ Stop(p)

-----------------------------------------------------------------------------
(* The sweep.                                                              *)

Rest == [step |-> "rest", key |-> CHOOSE k \in Keys : TRUE]

Judge ==
  /\ sweep = Rest
  /\ \E k \in Keys : /\ sidecar[k] # Nothing /\ Dead(k)
                     /\ sweep' = [step |-> "first", key |-> k]
  /\ UNCHANGED <<pid, pc, epoch, sidecar, temp, slot, launch, read>>
Sweep ==
  /\ sweep # Rest
  /\ Unlink(sweep.step, sweep.key)
  /\ sweep' = IF sweep.step = "first" THEN [sweep EXCEPT !.step = "second"] ELSE Rest
  /\ UNCHANGED <<pid, pc, epoch, slot, launch, read>>
SweepDies ==
  /\ sweep # Rest
  /\ sweep' = Rest
  /\ UNCHANGED <<pid, pc, epoch, sidecar, temp, slot, launch, read>>

Init ==
  /\ pid = [p \in Takers |-> CHOOSE n \in SlotPids : TRUE]
  /\ epoch = [p \in Takers |-> CHOOSE e \in Epochs : TRUE]
  /\ pc = [p \in Takers |-> "unborn"]
  /\ sidecar = [k \in Keys |-> Nothing] /\ temp = [k \in Keys |-> Nothing]
  /\ slot = Whole(NoTaker) /\ launch = Nothing /\ read = Nothing
  /\ sweep = Rest

Next == (\E p \in Takers : Take(p)) \/ ReadTwin \/ Judge \/ Sweep \/ SweepDies

Spec == Init /\ [][Next]_vars

-----------------------------------------------------------------------------
(* Properties.                                                             *)

Files == [by : Takers \cup {NoTaker}, whole : BOOLEAN]

\* Every variable has its type.
TypeOK ==
  /\ pid \in [Takers -> SlotPids] /\ epoch \in [Takers -> Epochs]
  /\ pc \in [Takers -> {"unborn", "ready", "sidecar", "temp", "content", "move", "first",
                        "second", "twin", "dead"}]
  /\ sidecar \in [Keys -> Files] /\ temp \in [Keys -> Files]
  /\ {slot, launch, read} \subseteq Files
  /\ sweep \in [step : {"rest", "first", "second"}, key : Keys]

\* A temp never outlives its sidecar, whoever dies where: no rule would reach it.
TempHasSidecar == \A k \in Keys : temp[k] # Nothing => sidecar[k] # Nothing

\* Nobody takes away or replaces the files of a publication under way: a sweep that
\* judged them dead before their pid was handed out again has found another's.
LiveIsSpared ==
  \A p \in Takers :
    /\ pc[p] \in {"temp", "content", "move", "first"} => sidecar[Key(p)].by = p
    /\ pc[p] = "content" => temp[Key(p)] = Torn(p)
    /\ pc[p] = "move" => temp[Key(p)] = Whole(p)

\* The slot always holds a whole record; a launch record that was read never changes.
ReadersAreSafe == slot.whole /\ (read # Nothing => launch = read)

\* Publication is one unit: what it leaves can be reached, what is alive is spared,
\* and a reader never sees a half of it.
PublicationHolds == TempHasSidecar /\ LiveIsSpared /\ ReadersAreSafe
==============================================================================
