----------------------------- MODULE MCWorkspace -----------------------------
(***************************************************************************)
(* TLC instances of the tools of a workspace's life.  They share no state, *)
(* so a behaviour runs one of them: `focus`.                               *)
(***************************************************************************)
EXTENDS Naturals, TLC

CONSTANTS
  Stampers, NoStamper, MaxDeaths,                 \* WorkspaceStamp's
  Newest, MaxRuns, MaxCrashes, MaxAppends,        \* WorkspaceUpgrade's
  Names, MaxEdits,                                \* VendoredCopy's
  Lanes, Channel, MaxLines, MaxCount, MaxPushes   \* IntegrityGate's

ASSUME StampAssumption == NoStamper \notin Stampers /\ MaxDeaths \in Nat
ASSUME UpgradeAssumption ==
  /\ Newest \in Nat \ {0}
  /\ MaxRuns \in Nat /\ MaxCrashes \in Nat /\ MaxAppends \in Nat
ASSUME VendorAssumption == MaxEdits \in Nat
ASSUME IntegrityAssumption ==
  /\ Channel \in Lanes
  /\ MaxLines \in Nat /\ MaxCount \in Nat /\ MaxPushes \in Nat

VARIABLES
  focus,
  tree, stampPc, stamped, step, rows, repo, deaths,
  disk, slots, pc, dry, leg, at, new, pending, unread, todo, said, began, preview, born, written, appends,
  raced, runs, crashes,
  canonical, defined, clean, copy, old, fixPc, want, known, saw, status, exit, lost, changes,
  push, fresh, pushes, all, ever, mixed, forged, rebound, count, deleted

Stamping == INSTANCE WorkspaceStamp WITH pc <- stampPc, profile <- stamped, at <- step, slots <- rows
Upgrade == INSTANCE WorkspaceUpgrade
Vendored == INSTANCE VendoredCopy WITH ever <- defined, pc <- fixPc
Gate == INSTANCE IntegrityGate

stampOnly == <<tree, stampPc, stamped, step, rows, repo, deaths>>
upgradeOnly == <<disk, slots, pc, dry, leg, at, new, pending, unread, todo, said, began, preview, born,
                 written, appends, raced, runs, crashes>>
vendorOnly == <<canonical, defined, clean, copy, old, fixPc, want, known, saw, status, exit, lost,
                changes>>
gateOnly == <<push, fresh, pushes, all, ever, mixed, forged, rebound, count, deleted>>
vars == <<focus, stampOnly, upgradeOnly, vendorOnly, gateOnly>>

\* A component that does not run starts in one of its states.
Init ==
  /\ focus \in {"stamp", "upgrade", "vendor", "gate"}
  /\ Stamping!Init /\ Upgrade!Init /\ Vendored!Init /\ Gate!Init
  /\ focus # "upgrade" => slots.pin = 0 /\ slots.profile = "2agent"
  /\ focus # "vendor" => canonical = [names |-> {}, way |-> 1, parses |-> TRUE]
  /\ focus # "gate" => push[1].may = {} /\ push[1].author = CHOOSE r \in Gate!Logs : TRUE

Next ==
  \/ focus = "stamp" /\ Stamping!Next /\ UNCHANGED <<focus, upgradeOnly, vendorOnly, gateOnly>>
  \/ focus = "upgrade" /\ Upgrade!Next /\ UNCHANGED <<focus, stampOnly, vendorOnly, gateOnly>>
  \/ focus = "vendor" /\ Vendored!Next /\ UNCHANGED <<focus, stampOnly, upgradeOnly, gateOnly>>
  \/ focus = "gate" /\ Gate!Next /\ UNCHANGED <<focus, stampOnly, upgradeOnly, vendorOnly>>

Spec == Init /\ [][Next]_vars

\* Each part is stated, and explained, in the module of its component, with the
\* types of its variables; of the others there is nothing to say, for they stay as
\* they began.
StampIsWhole == focus = "stamp" => Stamping!TypeOK /\ Stamping!StampIsWhole
RecordsAsWritten == focus = "upgrade" => Upgrade!TypeOK /\ Upgrade!RecordsAsWritten
ScaledIsComplete == focus = "upgrade" => Upgrade!ScaledIsComplete
OnlyRotIsOverwritten == focus = "vendor" => Vendored!TypeOK /\ Vendored!OnlyRotIsOverwritten
GreenKeepsLogs == focus = "gate" => Gate!TypeOK /\ Gate!GreenKeepsLogs

\* A run that says "migrated" has carried every file all the way, and done what its
\* preview said.
MigrationHolds == focus = "upgrade" => Upgrade!MigratedIsCarried /\ Upgrade!PreviewIsKept
=============================================================================
