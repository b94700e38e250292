-------------------------- MODULE WorkspaceUpgrade --------------------------
(***************************************************************************)
(* tools/scale_workspace.py and tools/migrate_workspace.py on a workspace  *)
(* that is in use: sessions append to it, the principal edits BINDINGS.md, *)
(* a run may die at any file operation, and conformance_check grades what  *)
(* is left.  Versions are the positions on the ladder of HOPS.  A file is  *)
(* the version of its banner and the rows its sessions have added.         *)
(***************************************************************************)
EXTENDS Naturals, Sequences, SequencesExt, FiniteSets

CONSTANTS
  Newest,        \* HOPS lead from version 0 to this one
  MaxRuns,       \* bound on the runs of the two tools
  MaxCrashes,    \* bound on the runs that die half way
  MaxAppends     \* bound on the rows that sessions append

NoVersion == Newest + 1       \* no banner, or no pin
Versions == 0 .. Newest

\* In the order of sorted(rglob).  A path stands for the files that are treated
\* like it: "seats" for owner and builder, TASKQUEUE for the orchestrator's start file.
Order == <<"BINDINGS", "TASKQUEUE", "INDEX", "orch auth-log", "dispatch-log", "seats auth-log",
           "START seats">>
Paths == ToSet(Order)
OrchFiles == <<"orch auth-log", "dispatch-log", "TASKQUEUE">>
Kept == {"INDEX", "orch auth-log", "dispatch-log", "seats auth-log"}
OfOrch == ToSet(OrchFiles)
Blank == [banner |-> NoVersion, rows |-> 0]
Absent == [banner |-> NoVersion, rows |-> MaxAppends + 1]

VARIABLES
  disk,          \* disk[p]: its banner and rows, or Absent
  slots,         \* the rows of BINDINGS.md: the pin, words beside it, the profile, how
                 \* many SIDE_NAMES
  pc,            \* the tool that runs: "idle", "scale", "fill", "visit", "open", "write"
  dry, leg, at,  \* migrate(): a preview?, the version this leg starts from, the file it visits
  new,           \* _plan_file()'s result for that file: the file and its slots
  pending,       \* a preview's would-be files
  unread,        \* what this run had to rewrite and passed over, for it could not read it
  todo,          \* scale(): what was missing when it looked, and is still to be copied
  said,          \* what the last run answered
  began,         \* history: the files, the slots and the grade when that run started
  preview,       \* history: what the last preview started from, and promised
  born, written, \* history: the first banner each file had, and every row people gave it
  appends,       \* history: the rows given to all of them
  raced,         \* history: files written to after scale() had found them missing, before
                 \* its copy of them was whole
  runs, crashes

workspace == <<disk, slots>>
run == <<dry, leg, at, new, pending, unread, todo>>
history == <<born, written, appends, raced>>
vars == <<workspace, pc, run, said, began, preview, history, runs, crashes>>

NoSlots == [pin |-> NoVersion, noted |-> FALSE, profile |-> "none", names |-> 0]
NoFile == [file |-> Blank, slots |-> NoSlots]
NoPreview == <<>>

-----------------------------------------------------------------------------
(* conformance_check: what it asks of the roles, the files and the stamps. *)

Here(p) == disk[p] # Absent
OrchRole == Here("orch auth-log") \/ Here("dispatch-log")
Required == (Paths \ OfOrch) \cup (IF OrchRole THEN OfOrch ELSE {})
Blocked ==
  \/ \E p \in Required : ~Here(p)
  \/ slots.pin \notin Versions
  \/ slots.profile # IF OrchRole THEN "3agent" ELSE "2agent"
\* A record keeps the stamp it was created under, at or below the pin.
StampOk(p) == disk[p].banner \in Versions /\ disk[p].banner <= slots.pin
Warned ==
  \/ \E p \in {"INDEX", "orch auth-log", "seats auth-log"} : Here(p) /\ ~StampOk(p)
  \/ slots.names # IF OrchRole THEN 3 ELSE 2
Green == ~Blocked /\ ~Warned

-----------------------------------------------------------------------------
(* The people of the workspace.                                            *)

Init ==
  \E v \in Versions, profile \in {"2agent", "3agent"} :
    /\ disk = [p \in Paths |-> IF p \in OfOrch /\ profile = "2agent" THEN Absent
                                                     ELSE [banner |-> v, rows |-> 0]]
    /\ slots = [pin |-> v, noted |-> FALSE, profile |-> profile,
                names |-> IF profile = "2agent" THEN 2 ELSE 3]
    /\ born = [p \in Paths |-> disk[p].banner] /\ written = [p \in Paths |-> 0]
    /\ appends = 0 /\ raced = {}
    /\ pc = "idle" /\ dry = FALSE /\ leg = 0 /\ at = 1 /\ new = NoFile
    /\ pending = <<>> /\ unread = {} /\ todo = <<>>
    /\ said = "" /\ began = NoPreview /\ preview = NoPreview /\ runs = 0 /\ crashes = 0

\* A session appends a row to a record, or to the task queue; also to a file that is
\* being made.
AddRow(p) ==
  /\ p \in Kept \cup {"TASKQUEUE"} /\ Here(p) /\ appends < MaxAppends /\ appends' = appends + 1
  /\ disk' = [disk EXCEPT ![p].rows = @ + 1]
  /\ written' = [written EXCEPT ![p] = @ + 1]
  /\ raced' = raced \cup ({p} \cap ToSet(todo))
  /\ UNCHANGED <<slots, pc, run, said, began, preview, born, runs, crashes>>

\* Someone writes a file of the orchestrator's by hand, with a row in it.
Create(p) ==
  /\ p \in OfOrch /\ ~Here(p) /\ slots.pin \in Versions
  /\ appends < MaxAppends /\ appends' = appends + 1
  /\ disk' = [disk EXCEPT ![p] = [banner |-> slots.pin, rows |-> 1]]
  /\ born' = [born EXCEPT ![p] = slots.pin] /\ written' = [written EXCEPT ![p] = @ + 1]
  /\ raced' = raced \cup ({p} \cap ToSet(todo))
  /\ said' = ""
  /\ UNCHANGED <<slots, pc, run, began, preview, runs, crashes>>

\* The principal follows what scale_workspace printed, and may think of the third
\* side's name, which it does not ask for; or he makes a note at the pin.
Flip ==
  /\ OrchRole /\ slots.profile = "2agent"
  /\ \E n \in {slots.names, 3} : slots' = [slots EXCEPT !.profile = "3agent", !.names = n]
  /\ UNCHANGED <<disk, pc, run, said, began, preview, history, runs, crashes>>
Annotate ==
  /\ slots.pin \in Versions /\ ~slots.noted
  /\ slots' = [slots EXCEPT !.noted = TRUE]
  /\ UNCHANGED <<disk, pc, run, said, began, preview, history, runs, crashes>>

-----------------------------------------------------------------------------
(* scale_workspace.                                                        *)

Start(name) ==
  /\ pc = "idle" /\ runs < MaxRuns /\ runs' = runs + 1
  /\ began' = [disk |-> disk, slots |-> slots, green |-> Green]

\* Mutants: nothing is missing where the orchestrator has a directory; every file is
\* copied, also over those that are there.
NoDirectory == IF OrchRole THEN <<>> ELSE OrchFiles
Everything == OrchFiles
IfMissing(p) == IF Here(p) THEN <<>> ELSE <<p>>
Missing == IfMissing("orch auth-log") \o IfMissing("dispatch-log") \o IfMissing("TASKQUEUE")

\* validate_target() and the list of what is missing.  The preview answers here.
StartScale ==
  /\ Start("scale")
  /\ \/ /\ slots.profile = "none" /\ said' = "not a workspace"
        /\ UNCHANGED <<pc, todo>>
     \/ /\ slots.profile # "none" /\ Missing = <<>> /\ said' = "present"
        /\ UNCHANGED <<pc, todo>>
     \/ /\ slots.profile # "none" /\ Missing # <<>>
        /\ pc' = "scale" /\ todo' = Missing /\ said' = ""
  /\ UNCHANGED <<workspace, dry, leg, at, new, pending, unread, preview, history, crashes>>

\* shutil.copy() from a workspace this checkout has just stamped: it opens the file,
\* whatever is there by now, and fills it.
Copy ==
  /\ pc = "scale" /\ todo # <<>> /\ pc' = "fill"
  /\ disk' = [disk EXCEPT ![Head(todo)] = Blank]
  /\ UNCHANGED <<slots, run, said, began, preview, history, runs, crashes>>
FillCopy ==
  /\ pc = "fill"
  /\ disk' = [disk EXCEPT ![Head(todo)] = [banner |-> Newest, rows |-> 0]]
  /\ born' = [born EXCEPT ![Head(todo)] = IF @ = NoVersion THEN Newest ELSE @]
  /\ todo' = Tail(todo)
  /\ IF Tail(todo) = <<>> THEN pc' = "idle" /\ said' = "scaled" ELSE pc' = "scale" /\ said' = ""
  /\ UNCHANGED <<slots, dry, leg, at, new, pending, unread, began, preview, written, appends,
                 raced, runs, crashes>>

-----------------------------------------------------------------------------
(* migrate_workspace.                                                      *)

\* _hop_chain(): the legs from the pin to the newest version.  The pin is the
\* version that is found anywhere in the cell.
Chain == IF slots.pin = NoVersion THEN {} ELSE slots.pin .. (Newest - 1)

StartMigrate ==
  /\ Start("migrate")
  /\ \/ /\ Chain = {} /\ said' = IF slots.pin = Newest THEN "already" ELSE "unsupported"
        /\ UNCHANGED <<pc, dry, leg, at, pending, unread>>
     \/ /\ Chain # {} /\ said' = ""
        /\ pc' = "visit" /\ dry' \in BOOLEAN /\ leg' = slots.pin /\ at' = 1 /\ pending' = <<>>
        /\ unread' = {}
  /\ UNCHANGED <<workspace, new, todo, preview, history, crashes>>

\* _is_append_only_record().  Mutant: the logs of scheduled tasks are no records.
NotTheTickLogs(p) == p \in Kept \ {"dispatch-log"}
IsRecord(p) == p \in Kept

\* _plan_file(): the banner, and the row whose cell is the version and nothing else.
Planned(f) ==
  [file |-> IF f.file.banner = leg THEN [f.file EXCEPT !.banner = leg + 1] ELSE f.file,
   slots |-> IF f.slots.pin = leg /\ ~f.slots.noted
               THEN [f.slots EXCEPT !.pin = leg + 1] ELSE f.slots]
\* What is read: the file, or the text this preview would have written.
Read(p) == IF dry /\ p \in DOMAIN pending THEN pending[p] ELSE
             [file |-> disk[p], slots |-> IF p = "BINDINGS" THEN slots ELSE NoSlots]

\* Mutants: one hop to a run, or one too many.
OneHop == at = Len(Order)
OneTooMany == at = Len(Order) /\ leg = Newest
Final == at = Len(Order) /\ leg + 1 = Newest
Onward ==
  /\ at' = IF at = Len(Order) THEN 1 ELSE at + 1
  /\ leg' = IF at = Len(Order) /\ ~Final THEN leg + 1 ELSE leg
  /\ pc' = IF Final THEN "idle" ELSE "visit"
  /\ said' = IF ~Final THEN "" ELSE IF dry THEN "dry-run" ELSE "migrated"

Seen == [p \in Paths |-> IF p \in DOMAIN pending THEN pending[p] ELSE
           [file |-> disk[p], slots |-> IF p = "BINDINGS" THEN slots ELSE NoSlots]]
Promise(would) == [from |-> began, to |-> would, unread |-> unread']

Untouched(p) == ~Here(p) \/ IsRecord(p) \/ Planned(Read(p)) = Read(p)

\* Open or decode fails: the file counts as one that needs no change, and nobody is
\* told.  A text that the preview has at hand is not read again.
PassOver(p) ==
  /\ ~Untouched(p) /\ ~(dry /\ p \in DOMAIN pending)
  /\ unread' = unread \cup {p}

Pass ==
  /\ pc = "visit" /\ Onward
  /\ (Untouched(Order[at]) /\ unread' = unread) \/ PassOver(Order[at])
  /\ preview' = IF Final /\ dry THEN Promise(Seen) ELSE preview
  /\ UNCHANGED <<workspace, dry, new, pending, todo, began, history, runs, crashes>>

Preview ==
  /\ pc = "visit" /\ dry /\ ~Untouched(Order[at]) /\ Onward /\ unread' = unread
  /\ pending' = [p \in DOMAIN pending \cup {Order[at]} |->
                   IF p = Order[at] THEN Planned(Read(p)) ELSE pending[p]]
  /\ preview' = IF Final THEN Promise([Seen EXCEPT ![Order[at]] = Planned(Read(Order[at]))])
                         ELSE preview
  /\ UNCHANGED <<workspace, dry, new, todo, began, history, runs, crashes>>

Plan ==
  /\ pc = "visit" /\ ~dry /\ ~Untouched(Order[at])
  /\ pc' = "open" /\ new' = Planned(Read(Order[at]))
  /\ UNCHANGED <<workspace, dry, leg, at, pending, unread, todo, said, began, preview, history, runs,
                 crashes>>

\* open("w") empties the file, with the slots of BINDINGS.md.
Open ==
  /\ pc = "open" /\ pc' = "write"
  /\ disk' = [disk EXCEPT ![Order[at]] = Blank]
  /\ slots' = IF Order[at] = "BINDINGS" THEN NoSlots ELSE slots
  /\ UNCHANGED <<run, said, began, preview, history, runs, crashes>>

Write ==
  /\ pc = "write" /\ Onward
  /\ disk' = [disk EXCEPT ![Order[at]] = new.file]
  /\ slots' = IF Order[at] = "BINDINGS" THEN new.slots ELSE slots
  /\ UNCHANGED <<dry, new, pending, unread, todo, began, preview, history, runs, crashes>>

-----------------------------------------------------------------------------

Crash ==
  /\ pc # "idle" /\ crashes < MaxCrashes /\ crashes' = crashes + 1
  /\ pc' = "idle" /\ said' = "died" /\ todo' = <<>>
  /\ UNCHANGED <<workspace, dry, leg, at, new, pending, unread, began, preview, history, runs>>

People == (\E p \in Paths : AddRow(p) \/ Create(p)) \/ Flip \/ Annotate
Scale == StartScale \/ Copy \/ FillCopy
Migrate == StartMigrate \/ Pass \/ Preview \/ Plan \/ Open \/ Write
Next == People \/ Scale \/ Migrate \/ Crash
Spec == Init /\ [][Next]_vars
-----------------------------------------------------------------------------
(* Properties.                                                             *)

Contents == [banner : Versions \cup {NoVersion}, rows : 0 .. MaxAppends + 1]
SlotRows == [pin : Versions \cup {NoVersion}, noted : BOOLEAN,
             profile : {"2agent", "3agent", "none"}, names : {0, 2, 3}]

TypeOK ==
  /\ disk \in [Paths -> Contents] /\ slots \in SlotRows
  /\ pc \in {"idle", "scale", "fill", "visit", "open", "write"}
  /\ dry \in BOOLEAN /\ leg \in 0 .. Newest - 1 /\ at \in DOMAIN Order
  /\ new \in [file : Contents, slots : SlotRows]
  /\ \A p \in DOMAIN pending : p \in Paths /\ pending[p] \in [file : Contents, slots : SlotRows]
  /\ unread \subseteq Paths \ Kept /\ ToSet(todo) \subseteq OfOrch /\ raced \subseteq OfOrch
  /\ born \in [Paths -> Versions \cup {NoVersion}] /\ written \in [Paths -> 0 .. MaxAppends]
  /\ runs \in 0 .. MaxRuns /\ crashes \in 0 .. MaxCrashes

\* "append-only records ... are NEVER touched", and scale "WITHOUT touching anything
\* already there": whatever runs, and wherever it dies, a record holds every row
\* that people gave it, also those given while a tool ran, under the first banner it
\* had.  The one exception is a file that someone wrote to between scale()'s look and
\* the end of its copy: the copy goes over it.
RecordsAsWritten ==
  \A p \in Kept \ raced :
    Here(p) => disk[p] = [banner |-> born[p], rows |-> written[p]]

SameTree == \A p \in Paths : Here(p) <=> began.disk[p] # Absent

\* A run that answers "migrated" has carried the workspace all the way: the pin is
\* the newest version, every banner that was at the pin or above it is too, those
\* below are as they were, and a workspace that conformed conforms; whatever
\* other tools, sessions and dead runs did before it.  There are two exceptions, of
\* which the run says nothing: a file that it could not read when it had to rewrite
\* it, and words beside the version in the cell, see MigratedIsPinned.
MigratedIsCarried ==
  said = "migrated" /\ ~slots.noted =>
    /\ "BINDINGS" \notin unread => slots.pin = Newest
    /\ \A p \in Paths \ (Kept \cup unread) :
         began.disk[p].banner \in Versions =>
           disk[p].banner = IF began.disk[p].banner >= began.slots.pin
                              THEN Newest ELSE began.disk[p].banner
    /\ began.green /\ SameTree => Green

\* "--dry-run previews the WHOLE chain": a migration that starts from the slots a
\* preview started from ends, for each file the preview started from and with the
\* same banner, in the banner and the slots the preview ended in, unless one of the
\* two could not read the file.
PreviewIsKept ==
  said = "migrated" /\ preview # NoPreview /\ ~slots.noted
  /\ began.slots = preview.from.slots
  => \A p \in Paths \ (unread \cup preview.unread) :
      preview.from.disk[p] # Absent /\ began.disk[p].banner = preview.from.disk[p].banner =>
        /\ disk[p].banner = preview.to[p].file.banner
        /\ p = "BINDINGS" => slots.pin = preview.to[p].slots.pin

\* "this tool just materializes the extra files": once it has answered, and no
\* run has died, the orchestrator's files are all there, and when the principal
\* has followed the instructions it prints, the workspace is not blocked.  It may be
\* warned of, which --strict refuses: the new records are stamped above an older
\* pin, and nothing it prints asks for a third name in SIDE_NAMES.
ScaledIsComplete ==
  said \in {"scaled", "present"} /\ crashes = 0 =>
    /\ \A p \in OfOrch : Here(p)
    /\ slots.profile = "3agent" =>
         ~Blocked /\ (Warned => slots.pin < Newest \/ slots.names = 2)

\* "version detection and the rewrite can never disagree": a run that says the
\* workspace was migrated, and could read BINDINGS.md, leaves the newest version pinned.
MigratedIsPinned == said = "migrated" /\ "BINDINGS" \notin unread => slots.pin = Newest

\* "a pin already at NEWEST is a no-op ... (idempotent; safe to re-run)": when
\* there is nothing to do, no file is left behind.  A run that died behind the pin
\* leaves files that no later run carries on.
NothingLeftBehind ==
  said = "already" => \A p \in Paths \ Kept : Here(p) => disk[p].banner = Newest
=============================================================================
