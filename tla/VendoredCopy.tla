---------------------------- MODULE VendoredCopy ----------------------------
(***************************************************************************)
(* tools/reconcile_vendored.py: the copy of conformance_check.py that a    *)
(* workspace carries is compared with the canonical one, and replaced when *)
(* it has merely fallen behind.  A text is the names it defines, one of    *)
(* two ways to write them, and whether it parses; equal texts have equal   *)
(* digests.                                                                *)
(***************************************************************************)
EXTENDS Naturals, FiniteSets

CONSTANTS
  Names,         \* module-level names of the checker
  MaxEdits       \* bound on the changes made to it and to the vendored copy

Texts == [names : SUBSET Names, way : {1, 2}, parses : BOOLEAN]
Other(n) == [names |-> {}, way |-> n, parses |-> TRUE]
Emptied == Other(0)                   \* a file that has just been opened
\* A stamp is the text whose digest it records, or one of these.
NoStamp == Other(3)
Unclosed == Other(4)
NoCopy == [body |-> Emptied, stamp |-> Other(5)]

VARIABLES
  canonical,     \* the checker in the working tree of the checkout
  ever,          \* every name one of its commits has defined
  clean,         \* is the working tree what was last committed?
  copy,          \* the vendored copy in the workspace: its body and its stamp
  old,           \* history: the copy is as vendored, from a commit
  pc,            \* "idle", "write" or "opened"
  want, known,   \* the run: the canonical text, and what it knows of the history
  saw,           \* the copy that it judged
  status, exit,  \* the run's verdict and its exit code
  lost,          \* history: names that a run has destroyed, and nobody else has
  changes        \* how often somebody has changed the checker or the copy

run == <<want, known, saw>>
vars == <<canonical, ever, clean, copy, old, pc, run, status, exit, lost, changes>>

Init ==
  /\ canonical \in {t \in Texts : t.parses} /\ ever = canonical.names /\ clean = TRUE
  /\ copy = [body |-> canonical, stamp |-> canonical] /\ old = TRUE
  /\ pc = "idle" /\ want = Emptied /\ known = {} /\ saw = NoCopy
  /\ status = "" /\ exit = 0 /\ lost = {} /\ changes = 0

-----------------------------------------------------------------------------
(* The people.                                                             *)

Change ==
  /\ changes < MaxEdits /\ changes' = changes + 1
  /\ pc = "idle" /\ status' = "" /\ exit' = 0
  /\ want' = Emptied /\ known' = {} /\ saw' = NoCopy

\* Someone edits the canonical checker, and commits it or not.
Develop ==
  /\ Change
  /\ \E t \in Texts \ {canonical}, commit \in BOOLEAN :
       /\ canonical' = t /\ clean' = commit
       /\ ever' = IF commit /\ t.parses THEN ever \cup t.names ELSE ever
  /\ UNCHANGED <<copy, old, pc, lost>>

\* new_project writes the copy: vendor_text() of the working tree.
Vendor ==
  /\ Change
  /\ copy' = [body |-> canonical, stamp |-> canonical] /\ old' = clean
  /\ UNCHANGED <<canonical, ever, clean, pc, lost>>

\* Someone edits the copy in place: its body or its stamp, or deletes it.
Edit ==
  /\ Change /\ old' = FALSE
  /\ \/ /\ copy # NoCopy
        /\ \/ \E t \in Texts : copy' = [copy EXCEPT !.body = t]
           \/ \E s \in {NoStamp, Unclosed, canonical} : copy' = [copy EXCEPT !.stamp = s]
     \/ copy' = NoCopy
  /\ UNCHANGED <<canonical, ever, clean, pc, lost>>

-----------------------------------------------------------------------------
(* The tool.                                                               *)

\* canonical_ever_defined(): nothing, when the checkout is shallow or no
\* repository.
Histories == {ever, {}}

\* local_additions().  Mutant: judged against the canonical of today alone.
OfToday(body, text, history) ==
  IF body.parses /\ text.parses THEN body.names \ text.names ELSE {}
LocalAdditions(body, text, history) ==
  IF body.parses /\ text.parses THEN body.names \ (text.names \cup history) ELSE {}

\* inspect().
Inspect(c, text, history) ==
  IF c = NoCopy THEN "MISSING"
  ELSE IF c.stamp = Unclosed THEN "DRIFT"
  ELSE IF c.body = text THEN (IF c.stamp = text THEN "OK" ELSE "DRIFT")
  ELSE IF LocalAdditions(c.body, text, history) # {} THEN "DIVERGED" ELSE "DRIFT"

\* main(): everything is read, and the copy judged.
Run ==
  /\ pc = "idle"
  /\ want' = canonical /\ saw' = copy
  /\ \E history \in Histories, fix \in BOOLEAN :
       LET verdict == Inspect(copy, canonical, history) IN
         /\ known' = history
         /\ status' = verdict
         /\ exit' = IF verdict = "OK" THEN 0 ELSE 1
         /\ pc' = IF fix /\ verdict = "DRIFT" THEN "write" ELSE "idle"
  /\ UNCHANGED <<canonical, ever, clean, copy, old, lost, changes>>

\* write_vendored(); the run may die with the file just opened.
OpenCopy ==
  /\ pc = "write" /\ pc' = "opened"
  /\ copy' = [body |-> Emptied, stamp |-> NoStamp] /\ old' = FALSE
  /\ lost' = lost \cup (IF saw.stamp # Unclosed /\ saw.body.parses /\ want.parses
                          THEN saw.body.names \ (ever \cup want.names) ELSE {})
  /\ UNCHANGED <<canonical, ever, clean, run, status, exit, changes>>

\* Vendored again, and inspected again.
Rewrite ==
  /\ pc = "opened" /\ pc' = "idle"
  /\ copy' = [body |-> want, stamp |-> want] /\ old' = clean
  /\ status' = Inspect(copy', want, known)
  /\ exit' = IF status' = "OK" THEN 0 ELSE 1
  /\ UNCHANGED <<canonical, ever, clean, run, lost, changes>>
Die ==
  /\ pc = "opened" /\ pc' = "idle" /\ status' = "" /\ exit' = 1
  /\ UNCHANGED <<canonical, ever, clean, copy, old, run, lost, changes>>

Next == Develop \/ Vendor \/ Edit \/ Run \/ OpenCopy \/ Rewrite \/ Die
Spec == Init /\ [][Next]_vars

-----------------------------------------------------------------------------
(* Properties.                                                             *)

TypeOK ==
  /\ canonical \in Texts /\ ever \subseteq Names /\ clean \in BOOLEAN
  /\ copy.body \in Texts \cup {Emptied}
  /\ copy.stamp \in Texts \cup {NoStamp, Unclosed, NoCopy.stamp}
  /\ pc \in {"idle", "write", "opened"} /\ known \subseteq Names /\ lost \subseteq Names
  /\ status \in {"", "OK", "DRIFT", "DIVERGED", "MISSING"} /\ exit \in {0, 1}
  /\ changes \in 0 .. MaxEdits

\* "Being merely OLD is not divergence", and "--fix REFUSES" local work: however
\* the checker and the copy have changed, no run destroys a name that only the
\* copy defined, if both texts parse; a copy that nobody touched since it was
\* vendored from a commit is never DIVERGED when the history can be read; and a
\* run that answers 0 leaves the canonical text under a true stamp.
OnlyRotIsOverwritten ==
  /\ lost = {}
  /\ old /\ saw = copy /\ known = ever /\ pc = "idle" => status # "DIVERGED"
  /\ status = "OK" => exit = 0 /\ copy = [body |-> want, stamp |-> want] /\ want = canonical
=============================================================================
