----------------------------- MODULE MCEvidence -----------------------------
(***************************************************************************)
(* TLC instances of slot publication, the process probes, the orphan       *)
(* detector and the preview binding.  They share no state, so a behaviour  *)
(* runs one of them: `focus`.                                              *)
(***************************************************************************)
EXTENDS SlotPublication, Naturals, TLC

CONSTANTS
  Pids, MaxBirths, MaxTime, OldAge, Near,         \* ProcessProbes'
  Days, MaxFires, MaxBodies, MaxRecords,         \* TickOrphan's
  Clients, Dates, MaxLength, MaxPreviews          \* PreviewBinding's

\* 0 is no process' pid; a run begins with two processes.
ASSUME ProbeAssumption ==
  /\ Pids \subseteq Nat \ {0} /\ \E a, b \in Pids : a # b
  /\ MaxBirths \in Nat \ {0, 1} /\ MaxTime \in Nat /\ OldAge \in Nat /\ Near \in Nat
ASSUME TickAssumption == Days \in Nat \ {0} /\ MaxFires \in Nat /\ MaxBodies \in Nat /\ MaxRecords \in Nat
ASSUME PreviewAssumption == Dates \in Nat \ {0} /\ MaxLength \in Nat /\ MaxPreviews \in Nat

VARIABLES
  focus,
  tool, clock, procs, census, report, truth, leg, probe,
  day, fires, fire, body, bank, marker, open, clean, verdict, tree, staged, head, pen, lost,
  wrote, shown,
  today, lanes, minted, flight, refusal

Probes == INSTANCE ProcessProbes
Ticks == INSTANCE TickOrphan
Binding == INSTANCE PreviewBinding

probesOnly == <<tool, clock, procs, census, report, truth, leg, probe>>
ticksOnly == <<day, fires, fire, body, bank, marker, open, clean, verdict, tree, staged, head,
               pen, lost, wrote, shown>>
bindingOnly == <<today, lanes, minted, flight, refusal>>
all == <<focus, vars, probesOnly, ticksOnly, bindingOnly>>

\* A component that does not run starts in one of its states.
EvidenceInit ==
  /\ focus \in {"slots", "probes", "ticks", "binding"}
  /\ Init /\ Probes!Init /\ Ticks!Init /\ Binding!Init
  /\ focus # "probes" => tool = "census"

EvidenceNext ==
  \/ focus = "slots" /\ Next /\ UNCHANGED <<focus, probesOnly, ticksOnly, bindingOnly>>
  \/ focus = "probes" /\ Probes!Next /\ UNCHANGED <<focus, vars, ticksOnly, bindingOnly>>
  \/ focus = "ticks" /\ Ticks!Next /\ UNCHANGED <<focus, vars, probesOnly, bindingOnly>>
  \/ focus = "binding" /\ Binding!Next /\ UNCHANGED <<focus, vars, probesOnly, ticksOnly>>

EvidenceSpec == EvidenceInit /\ [][EvidenceNext]_all

\* Each part is stated, and explained, in the module of its component; PublicationHolds
\* is SlotPublication's.
TypesOK == TypeOK /\ Probes!TypeOK /\ Ticks!TypeOK /\ Binding!TypeOK
DetectorIsRight == Ticks!DetectorIsRight
RecordsAreKept == Ticks!RecordsAreKept
BindingHolds == Binding!BindingHolds

\* The census reports exactly the orphans, and the probe mistakes no process for
\* another; and every variable of the tools has its type.
ProbesAreTrue == TypesOK /\ Probes!ProbesAreTrue
=============================================================================
