-------------------------- MODULE Workspace_proofs --------------------------
(***************************************************************************)
(* The vendored copy, the integrity workflow, the two upgrade tools and    *)
(* the stamp, for any number of stampers, versions, lanes, names, runs,    *)
(* crashes and edits.  Each has its inductive invariant:                   *)
(*                                                                         *)
(*   VendorInv    what a run of fix knows of the history is so, and while  *)
(*                it writes, it writes the canonical text;                 *)
(*   GateInv      the tree of a push that is green is the one it says it   *)
(*                was compared with;                                       *)
(*   UpInv        where a run is, the files it has still to visit, and     *)
(*                the records that everybody's writing has left;           *)
(*   MoveInv      how far a run, or the last of a series of them, has      *)
(*                carried each file's banner;                              *)
(*   DryOK,       a preview that is under way shows what a run would       *)
(*   PreviewOK    write, and what it promised still comes out so;          *)
(*   StampInv     whoever has made the channel is the only one ahead, and  *)
(*                has written just the files of the steps it has taken.    *)
(***************************************************************************)
EXTENDS MCWorkspace, TLAPS, FiniteSetTheorems, SequenceTheorems


(***************************************************************************)
(* The vendored copy.                                                      *)
(***************************************************************************)

Text == [names : SUBSET Names, way : {1, 2}, parses : BOOLEAN]
Mark(n) == [names |-> {}, way |-> n, parses |-> TRUE]
Pair(body, stamp) == [body |-> body, stamp |-> stamp]

\* A run knows of the history what is true; while it writes, it writes the canonical
\* text over a copy that it judged, and nobody else moves.
VendorTypes ==
  /\ canonical \in Text /\ defined \in SUBSET Names /\ clean \in BOOLEAN
  /\ copy = Pair(copy.body, copy.stamp)
  /\ copy.body \in Text \cup {Mark(0)} /\ copy.stamp \in Text \cup {Mark(3), Mark(4), Mark(5)}
  /\ fixPc \in {"idle", "write", "opened"} /\ known \in SUBSET Names
  /\ status \in {"", "OK", "DRIFT", "DIVERGED", "MISSING"} /\ exit \in {0, 1}
  /\ changes \in 0 .. MaxEdits
Committed ==
  /\ clean /\ canonical.parses => canonical.names \subseteq defined
  /\ old => copy.body = copy.stamp /\ (copy.body.parses => copy.body.names \subseteq defined)
Judged ==
  /\ known \subseteq defined
  /\ fixPc # "idle" => want = canonical /\ status = "DRIFT"
  /\ fixPc = "write" /\ saw.stamp # Mark(4) /\ saw.body.parses /\ want.parses =>
       saw.body.names \subseteq want.names \cup known
  /\ lost = {}
  /\ old /\ saw = copy /\ known = defined /\ fixPc = "idle" => status # "DIVERGED"
  /\ status = "OK" => exit = 0 /\ copy = Pair(want, want) /\ want = canonical
VendorInv == VendorTypes /\ Committed /\ Judged

LEMMA Marks ==
  /\ Vendored!Texts = Text /\ Vendored!Emptied = Mark(0) /\ Vendored!NoStamp = Mark(3)
  /\ Vendored!Unclosed = Mark(4) /\ Vendored!NoCopy = Pair(Mark(0), Mark(5))
BY DEF Vendored!Texts, Vendored!Emptied, Vendored!NoStamp, Vendored!Unclosed, Vendored!NoCopy,
       Vendored!Other, Text, Mark, Pair

LEMMA PairFields == \A b, s : Pair(b, s).body = b /\ Pair(b, s).stamp = s
BY DEF Pair

LEMMA VendorStart == Vendored!Init => VendorInv
<1> SUFFICES ASSUME Vendored!Init PROVE VendorInv
  OBVIOUS
<1>1. /\ canonical \in Text /\ defined = canonical.names /\ clean = TRUE
      /\ copy = Pair(canonical, canonical) /\ old = TRUE
      /\ fixPc = "idle" /\ known = {} /\ status = "" /\ exit = 0 /\ lost = {} /\ changes = 0
  BY Marks DEF Vendored!Init, Pair
<1>2. canonical.names \in SUBSET Names
  BY <1>1 DEF Text
<1>3. 0 \in 0 .. MaxEdits
  BY VendorAssumption
<1> QED BY <1>1, <1>2, <1>3, PairFields DEF VendorInv, VendorTypes, Committed, Judged

\* The verdicts.
LEMMA Verdicts ==
  ASSUME NEW c, c = Pair(c.body, c.stamp), NEW text, NEW history, NEW v, v = Vendored!Inspect(c, text, history)
  PROVE  /\ v \in {"OK", "DRIFT", "DIVERGED", "MISSING"}
         /\ v = "OK" => c = Pair(text, text)
         /\ v = "DRIFT" /\ c.stamp # Mark(4) /\ c.body.parses /\ text.parses =>
              c.body.names \subseteq text.names \cup history
         /\ v = "DIVERGED" => /\ c.body.parses /\ text.parses
                                 /\ ~(c.body.names \subseteq text.names \cup history)
         /\ c.body = text => v # "DIVERGED"
<1>1. v = IF c = Pair(Mark(0), Mark(5)) THEN "MISSING"
             ELSE IF c.stamp = Mark(4) THEN "DRIFT"
             ELSE IF c.body = text THEN (IF c.stamp = text THEN "OK" ELSE "DRIFT")
             ELSE IF Vendored!LocalAdditions(c.body, text, history) # {} THEN "DIVERGED" ELSE "DRIFT"
  BY Marks DEF Vendored!Inspect
<1>2. Vendored!LocalAdditions(c.body, text, history) # {} <=>
        /\ c.body.parses /\ text.parses
        /\ ~(c.body.names \subseteq text.names \cup history)
  BY DEF Vendored!LocalAdditions
<1>3. v \in {"OK", "DRIFT", "DIVERGED", "MISSING"}
  BY <1>1
<1>4. v = "OK" => c = Pair(text, text)
  BY <1>1
<1>5. v = "DRIFT" /\ c.stamp # Mark(4) /\ c.body.parses /\ text.parses =>
        c.body.names \subseteq text.names \cup history
  BY <1>1, <1>2
<1>6. v = "DIVERGED" => /\ c.body.parses /\ text.parses
                           /\ ~(c.body.names \subseteq text.names \cup history)
  BY <1>1, <1>2
<1>7. c.body = text => v # "DIVERGED"
  BY <1>1
<1> QED BY <1>3, <1>4, <1>5, <1>6, <1>7

\* People change the checker or the copy while no run writes.
LEMMA ChangeKeeps ==
  ASSUME VendorInv, Vendored!Change
  PROVE  fixPc = "idle" /\ status' = "" /\ exit' = 0 /\ known' = {} /\ changes' \in 0 .. MaxEdits
<1>1. fixPc = "idle" /\ status' = "" /\ exit' = 0 /\ known' = {}
  BY DEF Vendored!Change
<1>4. changes < MaxEdits /\ changes' = changes + 1
  BY DEF Vendored!Change
<1>2. changes \in 0 .. MaxEdits
  BY DEF VendorInv, VendorTypes
<1>3. changes' \in 0 .. MaxEdits
  BY <1>2, <1>4, VendorAssumption
<1> QED BY <1>1, <1>3

LEMMA DevelopStep == VendorInv /\ Vendored!Develop => VendorInv'
<1> SUFFICES ASSUME VendorInv, Vendored!Develop PROVE VendorInv'
  OBVIOUS
<1>1. PICK t \in Text, commit \in BOOLEAN :
        /\ canonical' = t /\ clean' = commit
        /\ defined' = IF commit /\ t.parses THEN defined \cup t.names ELSE defined
  BY Marks DEF Vendored!Develop
<1>2. fixPc = "idle" /\ status' = "" /\ exit' = 0 /\ known' = {} /\ changes' \in 0 .. MaxEdits
  BY ChangeKeeps DEF Vendored!Develop
<1>3. UNCHANGED <<copy, old, fixPc, lost>>
  BY DEF Vendored!Develop
<1>4. defined \subseteq defined' /\ defined' \in SUBSET Names /\ (commit /\ t.parses => t.names \subseteq defined')
  BY <1>1 DEF VendorInv, VendorTypes, Text
<1>5. VendorTypes'
  BY <1>1, <1>2, <1>3, <1>4 DEF VendorInv, VendorTypes
<1>6. Committed'
  BY <1>1, <1>3, <1>4 DEF VendorInv, Committed
<1> QED BY <1>2, <1>3, <1>5, <1>6 DEF VendorInv, Judged

LEMMA VendorStep0 == VendorInv /\ (Vendored!Vendor \/ Vendored!Edit) => VendorInv'
<1> SUFFICES ASSUME VendorInv, Vendored!Vendor \/ Vendored!Edit PROVE VendorInv'
  OBVIOUS
<1>1. fixPc = "idle" /\ status' = "" /\ exit' = 0 /\ known' = {} /\ changes' \in 0 .. MaxEdits
  BY ChangeKeeps DEF Vendored!Vendor, Vendored!Edit
<1>2. UNCHANGED <<canonical, defined, clean, fixPc, lost>>
  BY DEF Vendored!Vendor, Vendored!Edit
<1>3. /\ copy' = Pair(copy'.body, copy'.stamp)
      /\ copy'.body \in Text \cup {Mark(0)} /\ copy'.stamp \in Text \cup {Mark(3), Mark(4), Mark(5)}
      /\ old' => copy'.body = copy'.stamp /\ (copy'.body.parses => copy'.body.names \subseteq defined)
  <2>1. CASE Vendored!Vendor
    <3>1. copy' = Pair(canonical, canonical) /\ old' = clean
      BY <2>1 DEF Vendored!Vendor, Pair
    <3>2. canonical \in Text /\ (clean /\ canonical.parses => canonical.names \subseteq defined)
      BY DEF VendorInv, VendorTypes, Committed
    <3>3. copy'.body = canonical /\ copy'.stamp = canonical
      BY <3>1, PairFields
    <3>4. copy' = Pair(copy'.body, copy'.stamp)
      BY <3>1, <3>3
    <3> QED BY <3>1, <3>2, <3>3, <3>4
  <2>2. CASE Vendored!Edit
    <3>1. old' = FALSE
      BY <2>2 DEF Vendored!Edit
    <3>2. PICK b, s : copy = Pair(b, s) /\ copy.body = b /\ copy.stamp = s
      BY DEF VendorInv, VendorTypes
    <3>3. \/ \E t \in Text : copy' = [copy EXCEPT !.body = t]
          \/ \E t \in {Mark(3), Mark(4), canonical} : copy' = [copy EXCEPT !.stamp = t]
          \/ copy' = Pair(Mark(0), Mark(5))
      BY <2>2, Marks DEF Vendored!Edit
    <3>4. CASE \E t \in Text : copy' = [copy EXCEPT !.body = t]
      <4>1. PICK t \in Text : copy' = [copy EXCEPT !.body = t]
        BY <3>4
      <4>2. copy' = Pair(t, s)
        BY <3>2, <4>1 DEF Pair
      <4>3. copy'.body = t /\ copy'.stamp = s
        BY <4>2, PairFields
      <4>4. s \in Text \cup {Mark(3), Mark(4), Mark(5)}
        BY <3>2 DEF VendorInv, VendorTypes
      <4>5. copy' = Pair(copy'.body, copy'.stamp)
        BY <4>2, <4>3
      <4> QED BY <3>1, <4>1, <4>3, <4>4, <4>5
    <3>5. CASE \E t \in {Mark(3), Mark(4), canonical} : copy' = [copy EXCEPT !.stamp = t]
      <4>1. PICK t \in {Mark(3), Mark(4), canonical} : copy' = [copy EXCEPT !.stamp = t]
        BY <3>5
      <4>2. copy' = Pair(b, t)
        BY <3>2, <4>1 DEF Pair
      <4>3. copy'.body = b /\ copy'.stamp = t
        BY <4>2, PairFields
      <4>4. b \in Text \cup {Mark(0)} /\ t \in Text \cup {Mark(3), Mark(4), Mark(5)}
        BY <3>2, <4>1 DEF VendorInv, VendorTypes
      <4>5. copy' = Pair(copy'.body, copy'.stamp)
        BY <4>2, <4>3
      <4> QED BY <3>1, <4>3, <4>4, <4>5
    <3>6. CASE copy' = Pair(Mark(0), Mark(5))
      BY <3>1, <3>6, PairFields
    <3> QED BY <3>3, <3>4, <3>5, <3>6
  <2> QED BY <2>1, <2>2
<1>4. VendorTypes'
  BY <1>1, <1>2, <1>3 DEF VendorInv, VendorTypes
<1>5. Committed'
  BY <1>2, <1>3 DEF VendorInv, Committed
<1> QED BY <1>1, <1>2, <1>4, <1>5 DEF VendorInv, Judged

LEMMA RunStep == VendorInv /\ Vendored!Run => VendorInv'
<1> SUFFICES ASSUME VendorInv, Vendored!Run PROVE VendorInv'
  OBVIOUS
<1>0. PICK history \in {defined, {}}, fix \in BOOLEAN :
        /\ known' = history /\ status' = Vendored!Inspect(copy, canonical, history)
        /\ exit' = IF status' = "OK" THEN 0 ELSE 1
        /\ fixPc' = IF fix /\ status' = "DRIFT" THEN "write" ELSE "idle"
  BY DEF Vendored!Run, Vendored!Histories
<1>1. PICK v : /\ v = Vendored!Inspect(copy, canonical, history)
               /\ known' = history /\ status' = v
               /\ exit' = IF v = "OK" THEN 0 ELSE 1
               /\ fixPc' = IF fix /\ v = "DRIFT" THEN "write" ELSE "idle"
  BY <1>0
<1>2. /\ want' = canonical /\ saw' = copy
      /\ UNCHANGED <<canonical, defined, clean, copy, old, lost, changes>>
  BY DEF Vendored!Run
<1>3. copy = Pair(copy.body, copy.stamp)
  BY DEF VendorInv, VendorTypes
<1>4. /\ v \in {"OK", "DRIFT", "DIVERGED", "MISSING"}
      /\ v = "OK" => copy = Pair(canonical, canonical)
      /\ v = "DRIFT" /\ copy.stamp # Mark(4) /\ copy.body.parses /\ canonical.parses =>
           copy.body.names \subseteq canonical.names \cup history
      /\ v = "DIVERGED" => /\ copy.body.parses /\ canonical.parses
                              /\ ~(copy.body.names \subseteq canonical.names \cup history)
  BY <1>1, <1>3, Verdicts
<1>5. VendorTypes'
  BY <1>1, <1>2, <1>4 DEF VendorInv, VendorTypes
<1>6. Committed'
  BY <1>2 DEF VendorInv, Committed
<1>7. old /\ history = defined => v # "DIVERGED"
  BY <1>4 DEF VendorInv, Committed
<1>8. Judged'
  BY <1>1, <1>2, <1>4, <1>7 DEF VendorInv, Judged
<1> QED BY <1>5, <1>6, <1>8 DEF VendorInv

LEMMA RewriteStep == VendorInv /\ (Vendored!OpenCopy \/ Vendored!Rewrite \/ Vendored!Die) => VendorInv'
<1> SUFFICES ASSUME VendorInv, Vendored!OpenCopy \/ Vendored!Rewrite \/ Vendored!Die PROVE VendorInv'
  OBVIOUS
<1>1. CASE Vendored!OpenCopy
  <2>1. /\ fixPc = "write" /\ fixPc' = "opened" /\ copy' = Pair(Mark(0), Mark(3)) /\ old' = FALSE
        /\ UNCHANGED <<canonical, defined, clean, want, known, saw, status, exit, changes>>
    BY <1>1, Marks DEF Vendored!OpenCopy, Vendored!run, Pair
  <2>2. lost' = lost \cup (IF saw.stamp # Mark(4) /\ saw.body.parses /\ want.parses
                             THEN saw.body.names \ (defined \cup want.names) ELSE {})
    BY <1>1, Marks DEF Vendored!OpenCopy
  <2>3. lost' = {}
    BY <2>1, <2>2 DEF VendorInv, Judged
  <2>4. VendorTypes'
    <3>1. PICK c : c = copy' /\ c = Pair(Mark(0), Mark(3)) /\ c.body = Mark(0) /\ c.stamp = Mark(3)
      BY <2>1, PairFields
    <3>2. /\ c = Pair(c.body, c.stamp)
          /\ c.body \in Text \cup {Mark(0)} /\ c.stamp \in Text \cup {Mark(3), Mark(4), Mark(5)}
      BY <3>1
    <3>3. /\ canonical' \in Text /\ defined' \in SUBSET Names /\ clean' \in BOOLEAN
          /\ fixPc' \in {"idle", "write", "opened"} /\ known' \in SUBSET Names
      BY <2>1 DEF VendorInv, VendorTypes
    <3>4. /\ status' \in {"", "OK", "DRIFT", "DIVERGED", "MISSING"} /\ exit' \in {0, 1}
          /\ changes' \in 0 .. MaxEdits
      BY <2>1 DEF VendorInv, VendorTypes
    <3> QED BY <3>1, <3>2, <3>3, <3>4 DEF VendorTypes
  <2>5. Committed'
    BY <2>1 DEF VendorInv, Committed
  <2>6. Judged'
    BY <2>1, <2>3 DEF VendorInv, Judged
  <2> QED BY <2>4, <2>5, <2>6 DEF VendorInv
<1>2. CASE Vendored!Rewrite
  <2>1. /\ fixPc = "opened" /\ fixPc' = "idle" /\ copy' = Pair(want, want) /\ old' = clean
        /\ exit' = IF status' = "OK" THEN 0 ELSE 1
        /\ UNCHANGED <<canonical, defined, clean, want, known, saw, lost, changes>>
    BY <1>2 DEF Vendored!Rewrite, Vendored!run, Pair
  <2>2. PICK c : c = Pair(want, want) /\ c.body = want /\ c.stamp = want
    BY PairFields
  <2>3. status' = Vendored!Inspect(c, want, known)
    BY <1>2, <2>1, <2>2 DEF Vendored!Rewrite
  <2>4. status' \in {"OK", "DRIFT", "DIVERGED", "MISSING"} /\ status' # "DIVERGED"
    <3>1. PICK v : v = Vendored!Inspect(c, want, known)
      OBVIOUS
    <3>2. c = Pair(c.body, c.stamp)
      BY <2>2
    <3>3. v \in {"OK", "DRIFT", "DIVERGED", "MISSING"} /\ (c.body = want => v # "DIVERGED")
      BY <3>1, <3>2, Verdicts
    <3> QED BY <2>2, <2>3, <3>1, <3>3
  <2>5. want = canonical
    BY <2>1 DEF VendorInv, Judged
  <2>6. copy'.body = canonical /\ copy'.stamp = canonical
    BY <2>1, <2>5, PairFields
  <2>7. VendorTypes'
    BY <2>1, <2>4, <2>5, <2>6 DEF VendorInv, VendorTypes
  <2>8. Committed'
    BY <2>1, <2>6 DEF VendorInv, Committed
  <2>9. Judged'
    BY <2>1, <2>4, <2>5 DEF VendorInv, Judged
  <2> QED BY <2>7, <2>8, <2>9 DEF VendorInv
<1>3. CASE Vendored!Die
  <2>1. /\ fixPc' = "idle" /\ status' = "" /\ exit' = 1
        /\ UNCHANGED <<canonical, defined, clean, copy, old, want, known, saw, lost, changes>>
    BY <1>3 DEF Vendored!Die, Vendored!run
  <2>2. VendorTypes'
    BY <2>1 DEF VendorInv, VendorTypes
  <2>3. Committed'
    BY <2>1 DEF VendorInv, Committed
  <2>4. Judged'
    BY <2>1 DEF VendorInv, Judged
  <2> QED BY <2>2, <2>3, <2>4 DEF VendorInv
<1> QED BY <1>1, <1>2, <1>3

LEMMA VendorStep == VendorInv /\ [Vendored!Next]_vendorOnly => VendorInv'
<1> SUFFICES ASSUME VendorInv, [Vendored!Next]_vendorOnly PROVE VendorInv'
  OBVIOUS
<1>1. CASE UNCHANGED vendorOnly
  <2>1. UNCHANGED <<canonical, defined, clean, copy, old, fixPc, want, known, saw, status, exit, lost, changes>>
    BY <1>1 DEF vendorOnly
  <2>2. VendorTypes'
    BY <2>1 DEF VendorInv, VendorTypes
  <2>3. Committed'
    BY <2>1 DEF VendorInv, Committed
  <2>4. Judged'
    BY <2>1 DEF VendorInv, Judged
  <2> QED BY <2>2, <2>3, <2>4 DEF VendorInv
<1> QED BY <1>1, DevelopStep, VendorStep0, RunStep, RewriteStep DEF Vendored!Next

LEMMA VendorSound == VendorInv => Vendored!TypeOK /\ Vendored!OnlyRotIsOverwritten
<1> SUFFICES ASSUME VendorInv PROVE Vendored!TypeOK /\ Vendored!OnlyRotIsOverwritten
  OBVIOUS
<1>1. Vendored!NoCopy.stamp = Mark(5)
  BY Marks, PairFields
<1>2. Vendored!TypeOK
  BY <1>1, Marks DEF VendorInv, VendorTypes, Judged, Vendored!TypeOK
<1>3. Vendored!OnlyRotIsOverwritten
  BY Marks DEF VendorInv, Judged, Vendored!OnlyRotIsOverwritten, Pair
<1> QED BY <1>2, <1>3

(***************************************************************************)
(* The workflow.                                                           *)
(***************************************************************************)

CommitSet ==
  [lines : [Lanes -> SUBSET (1 .. MaxLines)], state : 0 .. MaxCount,
   may : SUBSET ((Lanes \ {Channel}) \X (Lanes \ {Channel})),
   logs : SUBSET (Lanes \ {Channel}), beyond : BOOLEAN, author : Lanes \ {Channel}]

GateTypes ==
  /\ push \in Seq(CommitSet) /\ Len(push) \in 1 .. 3
  /\ fresh \in [Lanes -> 1 .. MaxLines + 1]
  /\ all \in BOOLEAN /\ mixed \in BOOLEAN /\ forged \in BOOLEAN /\ rebound \in BOOLEAN
  /\ deleted \in BOOLEAN
  /\ ever \in [Lanes -> SUBSET (1 .. MaxLines)]
  /\ pushes \in 0 .. MaxPushes /\ count \in 0 .. MaxCount
\* Nobody commits after a push that was not green.
Compared == Len(push) > 1 => all /\ pushes < MaxPushes
LogsKept ==
  all => /\ \A l \in Lanes : ever[l] \ {1} \subseteq push[1].lines[l]
         /\ ~mixed /\ (~rebound => ~forged)
         /\ ~deleted => push[1].state = count
GateInv == GateTypes /\ Compared /\ LogsKept

LEMMA CommitsAre == Gate!Commits = CommitSet
BY DEF Gate!Commits, Gate!Open, Gate!Logs, Gate!Gone, CommitSet

LEMMA FieldsOfCommits ==
  ASSUME NEW c \in CommitSet
  PROVE  /\ c.lines \in [Lanes -> SUBSET (1 .. MaxLines)] /\ c.state \in 0 .. MaxCount
         /\ c.may \in SUBSET ((Lanes \ {Channel}) \X (Lanes \ {Channel}))
         /\ c.logs \subseteq Lanes \ {Channel} /\ c.beyond \in BOOLEAN
         /\ c.author \in Lanes \ {Channel}
BY DEF CommitSet

LEMMA EndsOfSeq ==
  ASSUME NEW S, NEW s \in Seq(S), Len(s) \in 1 .. 3
  PROVE  s[Len(s)] \in S /\ s[1] \in S
OBVIOUS

LEMMA GateStart == Gate!Init => GateInv
<1> SUFFICES ASSUME Gate!Init PROVE GateInv
  OBVIOUS
<1>0. PICK may \in Gate!Maps, author \in Lanes \ {Channel} : push = <<Gate!Root(may, author)>>
  BY DEF Gate!Init, Gate!Logs
<1>1. PICK root : root = [lines |-> [l \in Lanes |-> {}], state |-> 0, may |-> may, logs |-> {},
                          beyond |-> FALSE, author |-> author]
  OBVIOUS
<1>2. /\ push = <<root>> /\ fresh = [l \in Lanes |-> 1]
      /\ pushes = 0 /\ all = TRUE /\ ever = [l \in Lanes |-> {}] /\ mixed = FALSE /\ forged = FALSE
      /\ rebound = FALSE /\ count = 0 /\ deleted = FALSE
  BY <1>0, <1>1 DEF Gate!Init, Gate!Root, Gate!None, Gate!Gone
<1>3. root \in CommitSet
  <2>1. [l \in Lanes |-> {}] \in [Lanes -> SUBSET (1 .. MaxLines)]
    OBVIOUS
  <2>2. 0 \in 0 .. MaxCount
    BY IntegrityAssumption
  <2>3. may \in SUBSET ((Lanes \ {Channel}) \X (Lanes \ {Channel}))
    BY DEF Gate!Maps, Gate!Open, Gate!Logs
  <2> QED BY <1>1, <2>1, <2>2, <2>3 DEF CommitSet
<1>4. push \in Seq(CommitSet) /\ Len(push) = 1 /\ push[1] = root
  BY <1>2, <1>3
<1>5. root.state = 0
  BY <1>1
<1>6. /\ fresh \in [Lanes -> 1 .. MaxLines + 1] /\ ever \in [Lanes -> SUBSET (1 .. MaxLines)]
      /\ pushes \in 0 .. MaxPushes /\ count \in 0 .. MaxCount
  BY <1>2, IntegrityAssumption
<1>7. GateTypes
  <2>1. push \in Seq(CommitSet) /\ Len(push) \in 1 .. 3
    BY <1>4
  <2>2. /\ all \in BOOLEAN /\ mixed \in BOOLEAN /\ forged \in BOOLEAN /\ rebound \in BOOLEAN
        /\ deleted \in BOOLEAN
    BY <1>2
  <2> QED BY <1>2, <1>6, <2>1, <2>2 DEF GateTypes
<1>8. Compared
  BY <1>4 DEF Compared
<1>9. LogsKept
  BY <1>2, <1>4, <1>5 DEF LogsKept
<1> QED BY <1>7, <1>8, <1>9 DEF GateInv

\* What a commit puts on the branch is one more commit.
LEMMA OneMoreCommit ==
  ASSUME GateInv, Gate!CanCommit, UNCHANGED Gate!branch, NEW c \in CommitSet, push' = Append(push, c),
         fresh' \in [Lanes -> 1 .. MaxLines + 1]
  PROVE  GateInv'
<1>1. /\ Len(push) <= 2 /\ pushes < MaxPushes /\ all
      /\ UNCHANGED <<pushes, all, ever, mixed, forged, rebound, count, deleted>>
  BY DEF Gate!CanCommit, Gate!branch
<1>2. push \in Seq(CommitSet) /\ Len(push) \in 1 .. 3
  BY DEF GateInv, GateTypes
<1>3. push' \in Seq(CommitSet) /\ Len(push') \in 1 .. 3 /\ push'[1] = push[1]
  BY <1>1, <1>2
<1>4. GateTypes'
  BY <1>1, <1>3 DEF GateInv, GateTypes
<1>5. Compared'
  BY <1>1 DEF Compared
<1>6. LogsKept'
  BY <1>1, <1>3 DEF GateInv, LogsKept
<1> QED BY <1>4, <1>5, <1>6 DEF GateInv

LEMMA AfterIs ==
  ASSUME GateInv, NEW add \in SUBSET Lanes, NEW drop \in SUBSET Lanes, NEW line \in 1 .. MaxLines,
         NEW state \in 0 .. MaxCount, NEW may \in SUBSET ((Lanes \ {Channel}) \X (Lanes \ {Channel})),
         NEW other \in BOOLEAN, NEW author \in Lanes \ {Channel}, \A l \in add : fresh[l] <= MaxLines
  PROVE  Gate!After(add, drop, line, state, may, other, author) \in CommitSet
<1>1. push \in Seq(CommitSet) /\ Len(push) \in 1 .. 3 /\ fresh \in [Lanes -> 1 .. MaxLines + 1]
  BY DEF GateInv, GateTypes
<1>2. PICK tip \in CommitSet : tip = push[Len(push)]
  BY <1>1, EndsOfSeq
<1>3. PICK m : m = [l \in Lanes |-> (tip.lines[l] \ IF l \in drop THEN {line} ELSE {})
                                 \cup IF l \in add THEN {fresh[l]} ELSE {}]
  OBVIOUS
<1>4. m \in [Lanes -> SUBSET (1 .. MaxLines)]
  <2>1. ASSUME NEW l \in Lanes
        PROVE  (tip.lines[l] \ IF l \in drop THEN {line} ELSE {})
                                 \cup (IF l \in add THEN {fresh[l]} ELSE {}) \in SUBSET (1 .. MaxLines)
    <3>1. tip.lines[l] \in SUBSET (1 .. MaxLines)
      BY FieldsOfCommits
    <3>2. l \in add => fresh[l] \in 1 .. MaxLines
      BY <1>1, IntegrityAssumption
    <3> QED BY <3>1, <3>2
  <2> QED BY <1>3, <2>1
<1>5. PICK g : g = (add \cup drop) \cap (Lanes \ {Channel})
  OBVIOUS
<1>6. PICK b \in BOOLEAN : b = (other \/ Channel \in add \cup drop \/ state # tip.state \/ may # tip.may)
  OBVIOUS
<1>7. Gate!After(add, drop, line, state, may, other, author)
        = [lines |-> m, state |-> state, may |-> may, logs |-> g, beyond |-> b, author |-> author]
  BY <1>2, <1>3, <1>5, <1>6 DEF Gate!After, Gate!Last, Gate!Logs
<1>8. g \in SUBSET (Lanes \ {Channel})
  BY <1>5
<1> QED BY <1>4, <1>7, <1>8 DEF CommitSet

LEMMA CommitStep == GateInv /\ Gate!Commit => GateInv'
<1> SUFFICES ASSUME GateInv, Gate!Commit PROVE GateInv'
  OBVIOUS
<1>1. /\ push \in Seq(CommitSet) /\ Len(push) \in 1 .. 3 /\ fresh \in [Lanes -> 1 .. MaxLines + 1]
  BY DEF GateInv, GateTypes
<1>2. PICK tip \in CommitSet : tip = push[Len(push)]
  BY <1>1, EndsOfSeq
<1>3. Gate!CanCommit /\ UNCHANGED Gate!branch
  BY DEF Gate!Commit
<1>4. PICK add \in SUBSET Lanes, drop \in SUBSET Lanes, line \in 1 .. MaxLines, other \in BOOLEAN,
           author \in Lanes \ {Channel} :
        /\ \A l \in add : fresh[l] <= MaxLines
        /\ push' = Append(push, Gate!After(add, drop, line, tip.state, tip.may, other, author))
        /\ fresh' = [l \in Lanes |-> IF l \in add THEN fresh[l] + 1 ELSE fresh[l]]
  BY <1>2 DEF Gate!Commit, Gate!Logs, Gate!Last
<1>5. fresh' \in [Lanes -> 1 .. MaxLines + 1]
  <2>1. ASSUME NEW l \in Lanes
        PROVE  (IF l \in add THEN fresh[l] + 1 ELSE fresh[l]) \in 1 .. MaxLines + 1
    BY <1>1, <1>4, IntegrityAssumption
  <2> QED BY <1>4, <2>1
<1>6. Gate!After(add, drop, line, tip.state, tip.may, other, author) \in CommitSet
  BY <1>4, FieldsOfCommits, AfterIs
<1> QED BY <1>3, <1>4, <1>5, <1>6, OneMoreCommit

LEMMA ConfigureStep == GateInv /\ Gate!Configure => GateInv'
<1> SUFFICES ASSUME GateInv, Gate!Configure PROVE GateInv'
  OBVIOUS
<1>1. /\ push \in Seq(CommitSet) /\ Len(push) \in 1 .. 3 /\ fresh \in [Lanes -> 1 .. MaxLines + 1]
  BY DEF GateInv, GateTypes
<1>2. PICK tip \in CommitSet : tip = push[Len(push)]
  BY <1>1, EndsOfSeq
<1>3. Gate!CanCommit /\ UNCHANGED Gate!branch /\ fresh' = fresh
  BY DEF Gate!Configure
<1>4. PICK state \in 0 .. MaxCount, may \in Gate!Maps :
        push' = Append(push, Gate!After({}, {}, 1, state, may, FALSE, tip.author))
  BY <1>2 DEF Gate!Configure, Gate!Gone, Gate!Last
<1>5. may \in SUBSET ((Lanes \ {Channel}) \X (Lanes \ {Channel}))
  BY DEF Gate!Maps, Gate!Open, Gate!Logs
<1>6. PICK c : c = Gate!After({}, {}, 1, state, may, FALSE, tip.author)
  OBVIOUS
<1>7. c \in CommitSet
  <2>1. PICK m : m = [l \in Lanes |-> tip.lines[l]]
    OBVIOUS
  <2>2. m \in [Lanes -> SUBSET (1 .. MaxLines)]
    BY <2>1, FieldsOfCommits
  <2>3. m = [l \in Lanes |-> (tip.lines[l] \ IF l \in {} THEN {1} ELSE {})
                              \cup IF l \in {} THEN {fresh[l]} ELSE {}]
    BY <2>1
  <2>4. PICK b \in BOOLEAN : b = (FALSE \/ Channel \in {} \cup {} \/ state # tip.state \/ may # tip.may)
    OBVIOUS
  <2>5. c = [lines |-> m, state |-> state, may |-> may, logs |-> ({} \cup {}) \cap (Lanes \ {Channel}),
             beyond |-> b, author |-> tip.author]
    BY <1>2, <1>6, <2>3, <2>4 DEF Gate!After, Gate!Last, Gate!Logs
  <2>6. ({} \cup {}) \cap (Lanes \ {Channel}) \in SUBSET (Lanes \ {Channel})
    OBVIOUS
  <2> QED BY <1>5, <2>2, <2>5, <2>6, FieldsOfCommits DEF CommitSet
<1> QED BY <1>1, <1>3, <1>4, <1>6, <1>7, OneMoreCommit

\* What a green run that compared with the head it replaces has seen.
SeenGreen(base, tip) ==
  /\ \A l \in Lanes : base.lines[l] \ {1} \subseteq tip.lines[l]
  /\ \A i \in 2 .. Len(push) :
       push[i].logs # {} =>
         ~Gate!Mixed(push[i]) /\ \A r \in push[i].logs : <<r, push[i].author>> \in tip.may
  /\ tip.state = 0 \/ base.state = 0 \/ tip.state >= base.state

LEMMA GreenRun ==
  ASSUME GateInv, NEW recorded \in BOOLEAN, recorded \/ Len(push) = 2, Len(push) > 1, Gate!Green(recorded)
  PROVE  SeenGreen(push[1], push[Len(push)])
<1>1. Gate!Base(recorded) = 1
  BY DEF Gate!Base
<1>2. 1 + 1 = 2
  OBVIOUS
<1>3. /\ Gate!AppendOnly(push[1], push[Len(push)])
      /\ \A i \in 2 .. Len(push) : push[i].logs # {} => Gate!Provenance(push[i], push[Len(push)].may)
      /\ Gate!Monotonic(push[1], push[Len(push)])
  BY <1>1, <1>2 DEF Gate!Green, Gate!Last
<1> QED BY <1>3 DEF SeenGreen, Gate!AppendOnly, Gate!Rules, Gate!Provenance, Gate!Monotonic, Gate!Gone

LEMMA PushStep == GateInv /\ (\E recorded \in BOOLEAN : Gate!Push(recorded)) => GateInv'
<1> SUFFICES ASSUME GateInv, NEW recorded \in BOOLEAN, Gate!Push(recorded) PROVE GateInv'
  OBVIOUS
<1>1. /\ push \in Seq(CommitSet) /\ Len(push) \in 1 .. 3 /\ ever \in [Lanes -> SUBSET (1 .. MaxLines)]
      /\ pushes \in 0 .. MaxPushes /\ count \in 0 .. MaxCount
  BY DEF GateInv, GateTypes
<1>2. PICK base \in CommitSet, tip \in CommitSet : base = push[1] /\ tip = push[Len(push)]
  BY <1>1, EndsOfSeq
<1>3. /\ Len(push) > 1 /\ pushes' = pushes + 1 /\ push' = <<tip>>
      /\ all' = (Gate!Green(recorded) /\ (recorded \/ Len(push) = 2))
      /\ ever' = [l \in Lanes |-> ever[l] \cup tip.lines[l]]
      /\ count' = IF tip.state > count THEN tip.state ELSE count
      /\ deleted' = (deleted \/ (base.state # 0 /\ tip.state = 0))
      /\ fresh' = fresh
  BY <1>2 DEF Gate!Push, Gate!Last, Gate!Gone
<1>4. /\ mixed' = (mixed \/ \E i \in 2 .. Len(push) : push[i].logs # {} /\ Gate!Mixed(push[i]))
      /\ forged' = (forged \/ \E i \in 2 .. Len(push) :
                                \E r \in push[i].logs : <<r, push[i].author>> \notin base.may)
      /\ rebound' = (rebound \/ tip.may # base.may)
  BY <1>2 DEF Gate!Push, Gate!Last
<1>5. all /\ pushes < MaxPushes
  BY <1>3 DEF GateInv, Compared
<1>6. push' \in Seq(CommitSet) /\ Len(push') = 1 /\ push'[1] = tip
  BY <1>3
<1>7. base.state \in 0 .. MaxCount /\ tip.state \in 0 .. MaxCount
      /\ tip.lines \in [Lanes -> SUBSET (1 .. MaxLines)]
  BY FieldsOfCommits
<1>8. GateTypes'
  <2>1. ever' \in [Lanes -> SUBSET (1 .. MaxLines)]
    BY <1>1, <1>3, <1>7
  <2>2. pushes' \in 0 .. MaxPushes /\ count' \in 0 .. MaxCount
    BY <1>1, <1>3, <1>5, <1>7, IntegrityAssumption
  <2>3. /\ all' \in BOOLEAN /\ mixed' \in BOOLEAN /\ forged' \in BOOLEAN /\ rebound' \in BOOLEAN
        /\ deleted' \in BOOLEAN
    BY <1>3, <1>4 DEF GateInv, GateTypes
  <2>4. fresh' \in [Lanes -> 1 .. MaxLines + 1]
    BY <1>3 DEF GateInv, GateTypes
  <2> QED BY <1>6, <2>1, <2>2, <2>3, <2>4 DEF GateTypes
<1>9. Compared'
  BY <1>6 DEF Compared
<1>10. LogsKept'
  <2> SUFFICES ASSUME all' PROVE LogsKept'
    BY DEF LogsKept
  <2>1. SeenGreen(base, tip)
    BY <1>2, <1>3, GreenRun
  <2>2. /\ \A l \in Lanes : ever[l] \ {1} \subseteq base.lines[l]
        /\ ~mixed /\ (~rebound => ~forged)
        /\ ~deleted => base.state = count
    BY <1>2, <1>5 DEF GateInv, LogsKept
  <2>3. \A l \in Lanes : ever'[l] \ {1} \subseteq tip.lines[l]
    <3> TAKE l \in Lanes
    <3>1. ever'[l] = ever[l] \cup tip.lines[l]
      BY <1>3
    <3>2. base.lines[l] \ {1} \subseteq tip.lines[l]
      BY <2>1 DEF SeenGreen
    <3> QED BY <2>2, <3>1, <3>2
  <2>4. ~mixed'
    BY <1>4, <2>1, <2>2 DEF SeenGreen
  <2>5. ~rebound' => ~forged'
    <3> SUFFICES ASSUME ~rebound' PROVE ~forged'
      OBVIOUS
    <3>1. ~rebound /\ tip.may = base.may
      BY <1>4
    <3>2. \A i \in 2 .. Len(push) : \A r \in push[i].logs : <<r, push[i].author>> \in base.may
      BY <2>1, <3>1 DEF SeenGreen
    <3> QED BY <1>4, <2>2, <3>1, <3>2
  <2>6. ~deleted' => tip.state = count'
    <3>1. tip.state = 0 \/ base.state = 0 \/ tip.state >= base.state
      BY <2>1 DEF SeenGreen
    <3>2. ~deleted' => base.state = count /\ (base.state = 0 \/ tip.state # 0)
      BY <1>3, <2>2
    <3>3. count' = IF tip.state > count THEN tip.state ELSE count
      BY <1>3
    <3> HIDE DEF GateInv
    <3> QED BY <1>1, <1>7, <3>1, <3>2, <3>3
  <2> QED BY <1>6, <2>3, <2>4, <2>5, <2>6 DEF LogsKept
<1> QED BY <1>8, <1>9, <1>10 DEF GateInv

LEMMA GateStep == GateInv /\ [Gate!Next]_gateOnly => GateInv'
<1> SUFFICES ASSUME GateInv, [Gate!Next]_gateOnly PROVE GateInv'
  OBVIOUS
<1>1. CASE UNCHANGED gateOnly
  <2>1. UNCHANGED <<push, fresh, pushes, all, ever, mixed, forged, rebound, count, deleted>>
    BY <1>1 DEF gateOnly
  <2>2. GateTypes'
    BY <2>1 DEF GateInv, GateTypes
  <2>3. Compared'
    BY <2>1 DEF GateInv, Compared
  <2>4. LogsKept'
    BY <2>1 DEF GateInv, LogsKept
  <2> QED BY <2>2, <2>3, <2>4 DEF GateInv
<1> QED BY <1>1, CommitStep, ConfigureStep, PushStep DEF Gate!Next

LEMMA GateSound == GateInv => Gate!TypeOK /\ Gate!GreenKeepsLogs
<1> SUFFICES ASSUME GateInv PROVE Gate!TypeOK /\ Gate!GreenKeepsLogs
  OBVIOUS
<1>1. \A i \in DOMAIN push : push[i] \in CommitSet
  BY DEF GateInv, GateTypes
<1>2. {all, mixed, forged, rebound, deleted} \subseteq BOOLEAN
  BY DEF GateInv, GateTypes
<1>3. Gate!TypeOK
  BY <1>1, <1>2, CommitsAre DEF GateInv, GateTypes, Gate!TypeOK, Gate!Gone
<1>4. Gate!GreenKeepsLogs
  BY DEF GateInv, LogsKept, Gate!GreenKeepsLogs, Gate!Rules
<1> QED BY <1>3, <1>4

(***************************************************************************)
(* The workspace and its two tools.                                        *)
(***************************************************************************)

Vers == 0 .. Newest
Bann == Vers \cup {Newest + 1}
PathSet == {"BINDINGS", "TASKQUEUE", "INDEX", "orch auth-log", "dispatch-log", "seats auth-log",
            "START seats"}
Ord == <<"BINDINGS", "TASKQUEUE", "INDEX", "orch auth-log", "dispatch-log", "seats auth-log",
         "START seats">>
OrchOrd == <<"orch auth-log", "dispatch-log", "TASKQUEUE">>
KeptSet == {"INDEX", "orch auth-log", "dispatch-log", "seats auth-log"}
OrchSet == {"orch auth-log", "dispatch-log", "TASKQUEUE"}
Row(b, r) == [banner |-> b, rows |-> r]
FileSet == [banner : Bann, rows : 0 .. MaxAppends + 1]
SlotSet == [pin : Bann, noted : BOOLEAN, profile : {"2agent", "3agent", "none"}, names : {0, 2, 3}]
ResultSet == [file : FileSet, slots : SlotSet]
Void == Row(Newest + 1, 0)
Nothing == Row(Newest + 1, MaxAppends + 1)

LEMMA Seven == ASSUME NEW u PROVE {u[i] : i \in 1 .. 7} = {u[1], u[2], u[3], u[4], u[5], u[6], u[7]}
<1>1. 1 .. 7 = {1, 2, 3, 4, 5, 6, 7}
  OBVIOUS
<1> QED BY <1>1

LEMMA PathNames ==
  /\ Upgrade!Paths = PathSet /\ Upgrade!Order = Ord /\ Upgrade!OfOrch = OrchSet
  /\ Upgrade!Kept = KeptSet /\ OrchSet \subseteq PathSet /\ KeptSet \subseteq PathSet
<1>1. DOMAIN Ord = 1 .. 7 /\ Len(Ord) = 7
  BY DEF Ord
<1>2. {Ord[i] : i \in 1 .. 7} = PathSet
  <2>1. /\ Ord[1] = "BINDINGS" /\ Ord[2] = "TASKQUEUE" /\ Ord[3] = "INDEX" /\ Ord[4] = "orch auth-log"
        /\ Ord[5] = "dispatch-log" /\ Ord[6] = "seats auth-log" /\ Ord[7] = "START seats"
    BY DEF Ord
  <2>2. PathSet = {Ord[1], Ord[2], Ord[3], Ord[4], Ord[5], Ord[6], Ord[7]}
    BY <2>1 DEF PathSet
  <2> QED BY <2>2, Seven
<1>3. Upgrade!Paths = PathSet
  BY <1>1, <1>2 DEF Upgrade!Paths, Upgrade!ToSet, Upgrade!Order, Ord
<1>4. Upgrade!OfOrch = OrchSet
  <2>1. DOMAIN OrchOrd = 1 .. 3 /\ 1 .. 3 = {1, 2, 3}
    BY DEF OrchOrd
  <2>2. OrchOrd[1] = "orch auth-log" /\ OrchOrd[2] = "dispatch-log" /\ OrchOrd[3] = "TASKQUEUE"
    BY DEF OrchOrd
  <2>3. Upgrade!OfOrch = {OrchOrd[i] : i \in DOMAIN OrchOrd}
    BY DEF Upgrade!OfOrch, Upgrade!ToSet, Upgrade!OrchFiles, OrchOrd
  <2>4. {OrchOrd[i] : i \in {1, 2, 3}} = OrchSet
    BY <2>2 DEF OrchSet
  <2> QED BY <2>1, <2>3, <2>4
<1> QED BY <1>3, <1>4 DEF Upgrade!Order, Ord, Upgrade!Kept, KeptSet, OrchSet, PathSet

LEMMA DataNames ==
  /\ Upgrade!Versions = Vers /\ Upgrade!NoVersion = Newest + 1 /\ Upgrade!Contents = FileSet
  /\ Upgrade!SlotRows = SlotSet /\ Upgrade!Blank = Void /\ Upgrade!Absent = Nothing
BY DEF Upgrade!Versions, Upgrade!NoVersion, Upgrade!Contents, Upgrade!SlotRows, Upgrade!Blank,
       Upgrade!Absent, Vers, Bann, FileSet, SlotSet, Void, Nothing, Row

\* The places of the files.
LEMMA Places ==
  /\ Len(Ord) = 7 /\ DOMAIN Ord = 1 .. 7
  /\ \A i \in 1 .. 7 : Ord[i] \in PathSet
  /\ \A i \in 1 .. 7 : Ord[i] = "BINDINGS" <=> i = 1
  /\ \A i \in 1 .. 7 : Ord[i] = "TASKQUEUE" <=> i = 2
  /\ \A i \in 1 .. 7 : Ord[i] = "START seats" <=> i = 7
  /\ \A i \in 1 .. 7 : Ord[i] \notin KeptSet <=> i \in {1, 2, 7}
BY DEF Ord, PathSet, KeptSet

LEMMA RowFields == \A b, r : Row(b, r).banner = b /\ Row(b, r).rows = r
BY DEF Row

LEMMA RowIn ==
  ASSUME NEW b \in Bann, NEW r \in 0 .. MaxAppends + 1 PROVE Row(b, r) \in FileSet
BY DEF Row, FileSet

LEMMA FilesAreRows ==
  ASSUME NEW f \in FileSet
  PROVE  f = Row(f.banner, f.rows) /\ f.banner \in Bann /\ f.rows \in 0 .. MaxAppends + 1
BY DEF Row, FileSet

LEMMA SlotFields ==
  ASSUME NEW s \in SlotSet
  PROVE  /\ s = [pin |-> s.pin, noted |-> s.noted, profile |-> s.profile, names |-> s.names]
         /\ s.pin \in Bann /\ s.noted \in BOOLEAN /\ s.profile \in {"2agent", "3agent", "none"}
         /\ s.names \in {0, 2, 3}
BY DEF SlotSet

LEMMA ResultFields ==
  ASSUME NEW r \in ResultSet
  PROVE  r = [file |-> r.file, slots |-> r.slots] /\ r.file \in FileSet /\ r.slots \in SlotSet
BY DEF ResultSet

LEMMA SomeFiles == Void \in FileSet /\ Nothing \in FileSet /\ Void # Nothing /\ Void.banner = Newest + 1
                   /\ Nothing.banner = Newest + 1 /\ Void.rows = 0 /\ Nothing.rows = MaxAppends + 1
<1>1. Newest + 1 \in Bann
  BY DEF Bann
<1>2. 0 \in 0 .. MaxAppends + 1 /\ MaxAppends + 1 \in 0 .. MaxAppends + 1 /\ 0 # MaxAppends + 1
  BY UpgradeAssumption
<1> QED BY <1>1, <1>2, RowIn, RowFields DEF Void, Nothing

\* One entry is replaced.
LEMMA OneEntry ==
  ASSUME NEW T, NEW d \in [PathSet -> T], NEW p \in PathSet, NEW f \in T, NEW e, e = [d EXCEPT ![p] = f]
  PROVE  /\ e \in [PathSet -> T] /\ e[p] = f
         /\ \A q \in PathSet : q # p => e[q] = d[q]
OBVIOUS

TreeOK ==
  /\ disk \in [PathSet -> FileSet] /\ born \in [PathSet -> Bann] /\ written \in [PathSet -> Nat]
  /\ appends \in 0 .. MaxAppends
  /\ \A p \in PathSet : written[p] <= appends /\ (disk[p] # Nothing => disk[p].rows <= appends)
  /\ \A p \in PathSet : disk[p] = Nothing => p \in OrchSet
RunOK ==
  /\ slots \in SlotSet
  /\ pc \in {"idle", "scale", "fill", "visit", "open", "write"}
  /\ dry \in BOOLEAN /\ leg \in 0 .. Newest - 1 /\ at \in 1 .. 7 /\ new \in ResultSet
  /\ \A p \in DOMAIN pending : p \in PathSet /\ pending[p] \in ResultSet
  /\ unread \subseteq PathSet \ KeptSet
  /\ todo \in Seq(OrchSet) /\ raced \subseteq OrchSet
  /\ runs \in 0 .. MaxRuns /\ crashes \in 0 .. MaxCrashes
  /\ said # "" => pc = "idle"
\* Only a file that is no record is emptied, and it is there.
WriteOK ==
  pc \in {"open", "write"} =>
    ~dry /\ Ord[at] \notin KeptSet /\ new.file.rows <= appends /\ disk[Ord[at]] # Nothing
\* Nobody has given a file that is not there a row or a banner.
AbsentOK == \A p \in PathSet : disk[p] = Nothing => written[p] = 0 /\ born[p] = Newest + 1
Member(s, x) == \E i \in 1 .. Len(s) : s[i] = x
Single(u) == \A i, j \in 1 .. Len(u) : u[i] = u[j] => i = j
\* What is to be copied is what is missing, each once, and unless someone has written
\* to it, it is missing still; the file that is being copied is empty.
Uncopied(p) ==
  /\ written[p] = 0 /\ born[p] = Newest + 1
  /\ disk[p] = IF pc = "fill" /\ p = Head(todo) THEN Void ELSE Nothing
CopyOK ==
  /\ pc \in {"scale", "fill"} =>
       /\ todo # <<>> /\ Single(todo)
       /\ \A p \in OrchSet : disk[p] = Nothing => Member(todo, p)
       /\ \A p \in PathSet : Member(todo, p) /\ p \notin raced => Uncopied(p)
  /\ pc = "fill" => disk[Head(todo)] # Nothing
RecordsOK ==
  \A p \in KeptSet : p \notin raced /\ disk[p] # Nothing => disk[p] = Row(born[p], written[p])
\* As long as no run has died, a version is pinned beside the names of the sides, and
\* every record has a version.
PinOK ==
  crashes = 0 =>
    /\ ~(pc = "write" /\ at = 1) => slots.pin \in Vers /\ slots.names # 0
    /\ pc \in {"open", "write"} /\ at = 1 => new.slots.pin \in Vers /\ new.slots.names # 0
    /\ \A p \in KeptSet : disk[p] # Nothing =>
         disk[p].banner \in Vers \/ (pc = "fill" /\ p = Head(todo))
    /\ said \in {"scaled", "present"} => \A p \in OrchSet : disk[p] # Nothing
UpInv == TreeOK /\ RunOK /\ WriteOK /\ AbsentOK /\ CopyOK /\ RecordsOK /\ PinOK

LEMMA HereIs == \A p : Upgrade!Here(p) <=> disk[p] # Nothing
BY DataNames DEF Upgrade!Here

LEMMA UpgradeStart == Upgrade!Init => UpInv
<1> SUFFICES ASSUME Upgrade!Init PROVE UpInv
  OBVIOUS
<1>1. PICK v \in Vers, profile \in {"2agent", "3agent"} :
        /\ disk = [p \in PathSet |-> IF p \in OrchSet /\ profile = "2agent" THEN Nothing ELSE Row(v, 0)]
        /\ slots = [pin |-> v, noted |-> FALSE, profile |-> profile,
                    names |-> IF profile = "2agent" THEN 2 ELSE 3]
        /\ born = [p \in PathSet |-> disk[p].banner]
  <2>1. PICK v \in Upgrade!Versions, profile \in {"2agent", "3agent"} :
          /\ disk = [p \in Upgrade!Paths |-> IF p \in Upgrade!OfOrch /\ profile = "2agent"
                                             THEN Upgrade!Absent ELSE [banner |-> v, rows |-> 0]]
          /\ slots = [pin |-> v, noted |-> FALSE, profile |-> profile,
                    names |-> IF profile = "2agent" THEN 2 ELSE 3]
          /\ born = [p \in Upgrade!Paths |-> disk[p].banner]
    BY DEF Upgrade!Init
  <2>2. v \in Vers
    BY DataNames
  <2>3. [banner |-> v, rows |-> 0] = Row(v, 0)
    BY DEF Row
  <2>4. /\ Upgrade!Paths = PathSet /\ Upgrade!OfOrch = OrchSet /\ Upgrade!Absent = Nothing
    BY PathNames, DataNames
  <2>5. disk = [p \in PathSet |-> IF p \in OrchSet /\ profile = "2agent" THEN Nothing ELSE Row(v, 0)]
    BY <2>1, <2>3, <2>4
  <2>6. born = [p \in PathSet |-> disk[p].banner]
    BY <2>1, <2>4
  <2> QED BY <2>1, <2>2, <2>5, <2>6
<1>2. /\ written = [p \in PathSet |-> 0] /\ appends = 0 /\ raced = {}
      /\ pc = "idle" /\ dry = FALSE /\ leg = 0 /\ at = 1
      /\ new = [file |-> Void, slots |-> [pin |-> Newest + 1, noted |-> FALSE, profile |-> "none", names |-> 0]]
      /\ pending = <<>> /\ unread = {} /\ todo = <<>> /\ said = "" /\ runs = 0 /\ crashes = 0
  BY PathNames, DataNames DEF Upgrade!Init, Upgrade!NoFile, Upgrade!NoSlots
<1>12. appends = 0 /\ leg = 0 /\ at = 1 /\ runs = 0 /\ crashes = 0
  BY <1>2
<1>3. v \in Bann /\ Newest + 1 \in Bann /\ 0 \in 0 .. MaxAppends + 1 /\ 0 # MaxAppends + 1
  BY UpgradeAssumption DEF Bann
<1>4. PICK f \in FileSet : f = Row(v, 0) /\ f.banner = v /\ f.rows = 0 /\ f # Nothing
  <2>1. Row(v, 0) \in FileSet
    BY <1>3, RowIn
  <2>2. Row(v, 0) # Nothing
    BY <1>3, RowFields, SomeFiles
  <2> QED BY <2>1, <2>2, RowFields
<1>5. \A p \in PathSet : disk[p] \in FileSet /\ disk[p].banner \in Bann
                          /\ (disk[p] = Nothing \/ disk[p] = f) /\ (p \notin OrchSet => disk[p] = f)
                          /\ born[p] = disk[p].banner /\ written[p] = 0
  BY <1>1, <1>2, <1>3, <1>4, SomeFiles
<1>6. TreeOK
  <2>1. disk \in [PathSet -> FileSet] /\ born \in [PathSet -> Bann] /\ written \in [PathSet -> Nat]
    BY <1>1, <1>2, <1>5
  <2>2. appends \in 0 .. MaxAppends
    BY <1>12, UpgradeAssumption
  <2>3. \A p \in PathSet : written[p] <= appends /\ (disk[p] # Nothing => disk[p].rows <= appends)
    BY <1>12, <1>4, <1>5
  <2>4. \A p \in PathSet : disk[p] = Nothing => p \in OrchSet
    BY <1>4, <1>5
  <2> QED BY <2>1, <2>2, <2>3, <2>4 DEF TreeOK
<1>7. RunOK
  <2>1. slots \in SlotSet /\ new \in ResultSet
    BY <1>1, <1>2, <1>3, SomeFiles DEF SlotSet, ResultSet
  <2>2. leg \in 0 .. Newest - 1 /\ at \in 1 .. 7 /\ runs \in 0 .. MaxRuns /\ crashes \in 0 .. MaxCrashes
    BY <1>12, UpgradeAssumption
  <2>3. DOMAIN pending = {} /\ todo \in Seq(OrchSet)
    <3>1. pending = <<>> /\ todo = <<>>
      BY <1>2
    <3> QED BY <3>1
  <2> QED BY <1>2, <2>1, <2>2, <2>3 DEF RunOK
<1>8. WriteOK /\ CopyOK
  BY <1>2 DEF WriteOK, CopyOK
<1>11. AbsentOK
  BY <1>5, SomeFiles DEF AbsentOK
<1>9. RecordsOK
  <2>1. ASSUME NEW p \in KeptSet, disk[p] # Nothing PROVE disk[p] = Row(born[p], written[p])
    BY <1>4, <1>5, <2>1, PathNames
  <2> QED BY <2>1 DEF RecordsOK
<1>10. PinOK
  <2>1. slots.pin = v /\ slots.names # 0
    BY <1>1
  <2>2. \A p \in KeptSet : disk[p] # Nothing => disk[p].banner \in Vers
    BY <1>4, <1>5, PathNames
  <2> QED BY <1>2, <2>1, <2>2 DEF PinOK
<1> QED BY <1>6, <1>7, <1>8, <1>9, <1>10, <1>11 DEF UpInv

LEMMA WriteFacts ==
  ASSUME UpInv, pc \in {"open", "write"}
  PROVE  /\ ~dry /\ Ord[at] \notin KeptSet /\ new.file.rows <= appends /\ disk[Ord[at]] # Nothing
         /\ Ord[at] \in PathSet /\ new.file.rows \in Nat /\ new.file \in FileSet /\ new.slots \in SlotSet
         /\ at \in 1 .. 7 /\ new.file # Nothing
<1>1. ~dry /\ Ord[at] \notin KeptSet /\ new.file.rows <= appends /\ disk[Ord[at]] # Nothing
  BY DEF UpInv, WriteOK
<1>2. at \in 1 .. 7 /\ new \in ResultSet
  BY DEF UpInv, RunOK
<1>3. new.file \in FileSet /\ new.slots \in SlotSet
  BY <1>2, ResultFields
<1>4. new.file.rows \in 0 .. MaxAppends + 1
  BY <1>3, FilesAreRows
<1>5. Ord[at] \in PathSet
  BY <1>2, Places
<1>6. appends \in 0 .. MaxAppends
  BY DEF UpInv, TreeOK
<1>7. new.file.rows \in Nat /\ new.file.rows # MaxAppends + 1
  BY <1>1, <1>4, <1>6, UpgradeAssumption
<1> QED BY <1>1, <1>2, <1>3, <1>5, <1>7, SomeFiles

LEMMA Targets ==
  ASSUME UpInv PROVE Upgrade!ToSet(todo) \subseteq OrchSet /\ \A q : Member(todo, q) => q \in Upgrade!ToSet(todo)
<1>1. todo \in Seq(OrchSet)
  BY DEF UpInv, RunOK
<1>2. DOMAIN todo = 1 .. Len(todo) /\ \A i \in 1 .. Len(todo) : todo[i] \in OrchSet
  BY <1>1
<1> QED BY <1>2 DEF Upgrade!ToSet, Member

\* scale() copies the first of what is missing.
LEMMA CopyFacts ==
  ASSUME UpInv, pc \in {"scale", "fill"}
  PROVE  /\ todo \in Seq(OrchSet) /\ todo # <<>> /\ Head(todo) \in OrchSet /\ Head(todo) \in PathSet
         /\ Tail(todo) \in Seq(OrchSet)
         /\ \A x : Member(todo, x) => x = Head(todo) \/ Member(Tail(todo), x)
<1>1. todo \in Seq(OrchSet) /\ todo # <<>>
  BY DEF UpInv, RunOK, CopyOK
<1>2. /\ Head(todo) = todo[1] /\ Head(todo) \in OrchSet /\ Tail(todo) \in Seq(OrchSet)
      /\ Len(Tail(todo)) = Len(todo) - 1 /\ Len(todo) \in Nat
      /\ \A i \in 1 .. Len(todo) - 1 : Tail(todo)[i] = todo[i + 1]
  BY <1>1
<1>3. ASSUME NEW x, NEW i \in 1 .. Len(todo), todo[i] = x, i # 1 PROVE Member(Tail(todo), x)
  <2>1. PICK j : j = i - 1
    OBVIOUS
  <2>2. j \in 1 .. Len(Tail(todo)) /\ j \in 1 .. Len(todo) - 1 /\ j + 1 = i
    BY <1>2, <1>3, <2>1
  <2> QED BY <1>2, <1>3, <2>2 DEF Member
<1>4. \A x : Member(todo, x) => x = Head(todo) \/ Member(Tail(todo), x)
  BY <1>2, <1>3 DEF Member
<1> QED BY <1>1, <1>2, <1>4, PathNames

LEMMA RowAdded ==
  ASSUME UpInv, NEW p, Upgrade!AddRow(p)
  PROVE  /\ UpInv'
         /\ \A q \in PathSet : (disk'[q] = Nothing <=> disk[q] = Nothing) /\ disk'[q].banner = disk[q].banner
         /\ UNCHANGED <<slots, pc, dry, leg, at, new, pending, unread, todo, said, began, preview>>
<1>1. /\ p \in KeptSet \cup {"TASKQUEUE"} /\ disk[p] # Nothing
      /\ raced' = raced \cup ({p} \cap Upgrade!ToSet(todo))
      /\ UNCHANGED <<slots, pc, dry, leg, at, new, pending, unread, todo, said, began, preview, born, runs,
                     crashes>>
  BY PathNames, HereIs DEF Upgrade!AddRow, Upgrade!run
<1>2. appends < MaxAppends /\ appends' = appends + 1
  BY DEF Upgrade!AddRow
<1>3. p \in PathSet
  BY <1>1, PathNames DEF PathSet
<1>4. /\ disk \in [PathSet -> FileSet] /\ written \in [PathSet -> Nat] /\ appends \in 0 .. MaxAppends
      /\ written[p] <= appends /\ disk[p].rows <= appends
  BY <1>1, <1>3 DEF UpInv, TreeOK
<1>5. PICK b \in Bann, r \in 0 .. MaxAppends + 1 : disk[p] = Row(b, r) /\ disk[p].banner = b /\ disk[p].rows = r
  BY <1>3, <1>4, FilesAreRows
<1>6. r + 1 \in 0 .. MaxAppends + 1 /\ r + 1 <= appends' /\ r + 1 # MaxAppends + 1
      /\ appends' \in 0 .. MaxAppends
  BY <1>2, <1>4, <1>5, UpgradeAssumption
<1>7. disk' = [disk EXCEPT ![p] = Row(b, r + 1)]
  <2>1. disk' = [disk EXCEPT ![p].rows = @ + 1]
    BY DEF Upgrade!AddRow
  <2>2. [Row(b, r) EXCEPT !.rows = Row(b, r).rows + 1] = Row(b, r + 1)
    BY RowFields DEF Row
  <2>3. disk' = [disk EXCEPT ![p] = [disk[p] EXCEPT !.rows = disk[p].rows + 1]]
    BY <2>1
  <2> QED BY <1>5, <2>2, <2>3
<1>8. PICK f \in FileSet : f = Row(b, r + 1) /\ f.banner = b /\ f.rows = r + 1 /\ f # Nothing
  BY <1>5, <1>6, RowIn, RowFields, SomeFiles
<1>9. /\ disk' \in [PathSet -> FileSet] /\ disk'[p] = f
      /\ \A q \in PathSet : q # p => disk'[q] = disk[q]
  BY <1>3, <1>4, <1>7, <1>8, OneEntry
<1>10. /\ written' \in [PathSet -> Nat] /\ written'[p] = written[p] + 1
       /\ \A q \in PathSet : q # p => written'[q] = written[q]
  <2>1. written' = [written EXCEPT ![p] = written[p] + 1] /\ written[p] + 1 \in Nat
    BY <1>3, <1>4 DEF Upgrade!AddRow
  <2> QED BY <1>3, <1>4, <2>1, OneEntry
<1>11. TreeOK'
  <2>1. ASSUME NEW q \in PathSet
        PROVE  written'[q] <= appends' /\ (disk'[q] # Nothing => disk'[q].rows <= appends')
    <3>1. q = p => written'[q] <= appends' /\ disk'[q].rows <= appends'
      BY <1>2, <1>4, <1>6, <1>8, <1>9, <1>10
    <3>2. q # p => written'[q] <= appends' /\ (disk'[q] # Nothing => disk'[q].rows <= appends')
      <4> SUFFICES ASSUME q # p PROVE written'[q] <= appends' /\ (disk'[q] # Nothing => disk'[q].rows <= appends')
        OBVIOUS
      <4>1. written[q] \in Nat /\ written[q] <= appends /\ (disk[q] # Nothing => disk[q].rows <= appends)
        BY <1>4 DEF UpInv, TreeOK
      <4>2. disk[q].rows \in Nat
        BY <1>4, FilesAreRows
      <4> QED BY <1>2, <1>4, <1>9, <1>10, <4>1, <4>2
    <3> QED BY <3>1, <3>2
  <2>2. \A q \in PathSet : disk'[q] = Nothing => q \in OrchSet
    BY <1>8, <1>9 DEF UpInv, TreeOK
  <2>3. born' \in [PathSet -> Bann]
    BY <1>1 DEF UpInv, TreeOK
  <2> QED BY <1>6, <1>9, <1>10, <2>1, <2>2, <2>3 DEF TreeOK
<1>18. Upgrade!ToSet(todo) \subseteq OrchSet /\ \A q : Member(todo, q) => q \in Upgrade!ToSet(todo)
  BY Targets
<1>12. RunOK'
  <2>1. raced' \subseteq OrchSet
    BY <1>1, <1>18 DEF UpInv, RunOK
  <2> QED BY <1>1, <2>1 DEF UpInv, RunOK
<1>13. \A q \in PathSet : (disk'[q] = Nothing <=> disk[q] = Nothing) /\ disk'[q].banner = disk[q].banner
  BY <1>1, <1>5, <1>8, <1>9
<1>14. WriteOK'
  <2> SUFFICES ASSUME pc \in {"open", "write"}
               PROVE  ~dry /\ Ord[at] \notin KeptSet /\ new.file.rows <= appends' /\ disk'[Ord[at]] # Nothing
    BY <1>1 DEF WriteOK
  <2>1. ~dry /\ Ord[at] \notin KeptSet /\ new.file.rows <= appends /\ disk[Ord[at]] # Nothing /\ Ord[at] \in PathSet
        /\ new.file.rows \in Nat
    BY WriteFacts
  <2>2. new.file.rows <= appends'
    BY <1>2, <1>4, <2>1
  <2> QED BY <1>13, <2>1, <2>2
<1>19. AbsentOK'
  <2>1. ASSUME NEW q \in PathSet, disk'[q] = Nothing PROVE q # p /\ disk[q] = Nothing
    BY <1>1, <1>13, <2>1
  <2> QED BY <1>1, <1>10, <2>1 DEF UpInv, AbsentOK
<1>15. CopyOK'
  <2>1. ASSUME pc \in {"scale", "fill"}
        PROVE  /\ todo # <<>> /\ Single(todo)
               /\ \A q \in OrchSet : disk[q] = Nothing => Member(todo, q)
               /\ \A q \in PathSet : Member(todo, q) /\ q \notin raced => Uncopied(q)
    BY <2>1 DEF UpInv, CopyOK
  <2>2. ASSUME pc \in {"scale", "fill"}, NEW q \in PathSet, Member(todo, q), q \notin raced' PROVE Uncopied(q)'
    <3>1. q # p /\ q \notin raced
      BY <1>1, <1>18, <2>2
    <3>2. Uncopied(q)
      BY <2>1, <2>2, <3>1
    <3> QED BY <1>1, <1>9, <1>10, <3>1, <3>2 DEF Uncopied
  <2>3. \A q \in OrchSet : disk'[q] = Nothing => disk[q] = Nothing
    BY <1>13, PathNames
  <2>4. pc = "fill" => disk'[Head(todo)] # Nothing
    <3>1. pc = "fill" => Head(todo) \in PathSet /\ disk[Head(todo)] # Nothing
      BY CopyFacts DEF UpInv, CopyOK
    <3> QED BY <1>13, <3>1
  <2> QED BY <1>1, <2>1, <2>2, <2>3, <2>4 DEF CopyOK
<1>16. RecordsOK'
  <2>1. ASSUME NEW q \in KeptSet, q \notin raced', disk'[q] # Nothing PROVE disk'[q] = Row(born[q], written'[q])
    <3>1. q \in PathSet /\ disk[q] = Row(born[q], written[q])
      BY <1>1, <1>13, <2>1, PathNames DEF UpInv, RecordsOK
    <3>2. q # p => disk'[q] = Row(born[q], written'[q])
      BY <1>9, <1>10, <3>1
    <3>3. q = p => b = born[q] /\ r = written[q]
      BY <1>5, <3>1, RowFields
    <3> QED BY <1>8, <1>9, <1>10, <3>2, <3>3
  <2> QED BY <1>1, <2>1 DEF RecordsOK
<1>17. PinOK'
  BY <1>1, <1>13, PathNames DEF UpInv, PinOK
<1> QED BY <1>1, <1>11, <1>12, <1>13, <1>14, <1>15, <1>16, <1>17, <1>19 DEF UpInv

LEMMA FileCreated ==
  ASSUME UpInv, NEW p, Upgrade!Create(p)
  PROVE  /\ UpInv' /\ p \in PathSet /\ disk[p] = Nothing /\ disk'[p] # Nothing /\ said' = ""
         /\ \A q \in PathSet : q # p => disk'[q] = disk[q]
         /\ UNCHANGED <<slots, pc, dry, leg, at, new, pending, unread, todo, began, preview>>
<1>1. /\ p \in OrchSet /\ disk[p] = Nothing
      /\ raced' = raced \cup ({p} \cap Upgrade!ToSet(todo)) /\ said' = ""
      /\ UNCHANGED <<slots, pc, dry, leg, at, new, pending, unread, todo, began, preview, runs, crashes>>
  BY PathNames, HereIs DEF Upgrade!Create, Upgrade!run
<1>2. appends < MaxAppends /\ appends' = appends + 1
  BY DEF Upgrade!Create
<1>3. p \in PathSet /\ slots.pin \in Vers /\ slots.pin \in Bann
  BY <1>1, PathNames, DataNames DEF Upgrade!Create, Bann
<1>4. /\ disk \in [PathSet -> FileSet] /\ written \in [PathSet -> Nat] /\ born \in [PathSet -> Bann]
      /\ appends \in 0 .. MaxAppends /\ written[p] = 0
  BY <1>1, <1>3 DEF UpInv, TreeOK, AbsentOK
<1>6. 1 \in 0 .. MaxAppends + 1 /\ 1 <= appends' /\ 1 # MaxAppends + 1 /\ appends' \in 0 .. MaxAppends
  BY <1>2, <1>4, UpgradeAssumption
<1>7. disk' = [disk EXCEPT ![p] = Row(slots.pin, 1)]
  BY DEF Upgrade!Create, Row
<1>8. PICK f \in FileSet : f = Row(slots.pin, 1) /\ f.banner = slots.pin /\ f.rows = 1 /\ f # Nothing
  BY <1>3, <1>6, RowIn, RowFields, SomeFiles
<1>9. /\ disk' \in [PathSet -> FileSet] /\ disk'[p] = f
      /\ \A q \in PathSet : q # p => disk'[q] = disk[q]
  BY <1>3, <1>4, <1>7, <1>8, OneEntry
<1>10. /\ written' \in [PathSet -> Nat] /\ written'[p] = 1
       /\ \A q \in PathSet : q # p => written'[q] = written[q]
  <2>1. written' = [written EXCEPT ![p] = written[p] + 1]
    BY DEF Upgrade!Create
  <2>2. written' = [written EXCEPT ![p] = 1] /\ 1 \in Nat
    BY <1>4, <2>1
  <2> QED BY <1>3, <1>4, <2>2, OneEntry
<1>5. /\ born' \in [PathSet -> Bann] /\ born'[p] = slots.pin
      /\ \A q \in PathSet : q # p => born'[q] = born[q]
  <2>1. born' = [born EXCEPT ![p] = slots.pin]
    BY DEF Upgrade!Create
  <2> QED BY <1>3, <1>4, <2>1, OneEntry
<1>11. TreeOK'
  <2>1. ASSUME NEW q \in PathSet
        PROVE  written'[q] <= appends' /\ (disk'[q] # Nothing => disk'[q].rows <= appends')
    <3>1. q = p => written'[q] <= appends' /\ disk'[q].rows <= appends'
      BY <1>6, <1>8, <1>9, <1>10
    <3>2. q # p => written'[q] <= appends' /\ (disk'[q] # Nothing => disk'[q].rows <= appends')
      <4> SUFFICES ASSUME q # p PROVE written'[q] <= appends' /\ (disk'[q] # Nothing => disk'[q].rows <= appends')
        OBVIOUS
      <4>1. written[q] \in Nat /\ written[q] <= appends /\ (disk[q] # Nothing => disk[q].rows <= appends)
        BY <1>4 DEF UpInv, TreeOK
      <4>2. disk[q].rows \in Nat
        BY <1>4, FilesAreRows
      <4> QED BY <1>2, <1>4, <1>9, <1>10, <4>1, <4>2
    <3> QED BY <3>1, <3>2
  <2>2. \A q \in PathSet : disk'[q] = Nothing => q \in OrchSet
    BY <1>8, <1>9 DEF UpInv, TreeOK
  <2> QED BY <1>5, <1>6, <1>9, <1>10, <2>1, <2>2 DEF TreeOK
<1>18. Upgrade!ToSet(todo) \subseteq OrchSet /\ \A q : Member(todo, q) => q \in Upgrade!ToSet(todo)
  BY Targets
<1>12. RunOK'
  <2>1. raced' \subseteq OrchSet
    BY <1>1 DEF UpInv, RunOK
  <2> QED BY <1>1, <2>1 DEF UpInv, RunOK
<1>13. \A q \in PathSet : disk[q] # Nothing => q # p /\ disk'[q] = disk[q]
  BY <1>1, <1>9
<1>14. WriteOK'
  <2> SUFFICES ASSUME pc \in {"open", "write"}
               PROVE  ~dry /\ Ord[at] \notin KeptSet /\ new.file.rows <= appends' /\ disk'[Ord[at]] # Nothing
    BY <1>1 DEF WriteOK
  <2>1. ~dry /\ Ord[at] \notin KeptSet /\ new.file.rows <= appends /\ disk[Ord[at]] # Nothing /\ Ord[at] \in PathSet
        /\ new.file.rows \in Nat
    BY WriteFacts
  <2>2. new.file.rows <= appends'
    BY <1>2, <1>4, <2>1
  <2> QED BY <1>13, <2>1, <2>2
<1>19. AbsentOK'
  BY <1>5, <1>8, <1>9, <1>10 DEF UpInv, AbsentOK
<1>15. CopyOK'
  <2>1. ASSUME pc \in {"scale", "fill"}
        PROVE  /\ todo # <<>> /\ Single(todo)
               /\ \A q \in OrchSet : disk[q] = Nothing => Member(todo, q)
               /\ \A q \in PathSet : Member(todo, q) /\ q \notin raced => Uncopied(q)
    BY <2>1 DEF UpInv, CopyOK
  <2>2. ASSUME pc \in {"scale", "fill"}, NEW q \in PathSet, Member(todo, q), q \notin raced' PROVE Uncopied(q)'
    <3>1. q # p /\ q \notin raced
      BY <1>1, <1>18, <2>2
    <3>2. Uncopied(q)
      BY <2>1, <2>2, <3>1
    <3> QED BY <1>1, <1>5, <1>9, <1>10, <3>1, <3>2 DEF Uncopied
  <2>3. \A q \in OrchSet : disk'[q] = Nothing => disk[q] = Nothing
    BY <1>8, <1>9, PathNames
  <2>4. pc = "fill" => disk'[Head(todo)] # Nothing
    <3>1. pc = "fill" => Head(todo) \in PathSet /\ disk[Head(todo)] # Nothing
      BY CopyFacts DEF UpInv, CopyOK
    <3> QED BY <1>13, <3>1
  <2> QED BY <1>1, <2>1, <2>2, <2>3, <2>4 DEF CopyOK
<1>16. RecordsOK'
  <2>1. ASSUME NEW q \in KeptSet, q \notin raced', disk'[q] # Nothing PROVE disk'[q] = Row(born'[q], written'[q])
    <3>1. q \in PathSet /\ q \notin raced
      BY <1>1, <2>1, PathNames
    <3>2. q # p => disk'[q] = Row(born'[q], written'[q])
      BY <1>5, <1>9, <1>10, <2>1, <3>1 DEF UpInv, RecordsOK
    <3> QED BY <1>5, <1>8, <1>9, <1>10, <3>2
  <2> QED BY <2>1 DEF RecordsOK
<1>17. PinOK'
  <2>1. ASSUME NEW q \in KeptSet, disk'[q] # Nothing, crashes = 0
        PROVE  disk'[q].banner \in Vers \/ (pc = "fill" /\ q = Head(todo))
    <3>1. q = p => disk'[q].banner \in Vers
      BY <1>3, <1>8, <1>9
    <3>2. q # p => disk'[q].banner \in Vers \/ (pc = "fill" /\ q = Head(todo))
      BY <1>9, <2>1, PathNames DEF UpInv, PinOK
    <3> QED BY <3>1, <3>2
  <2> QED BY <1>1, <1>3, <2>1 DEF UpInv, PinOK
<1> QED BY <1>1, <1>3, <1>8, <1>9, <1>11, <1>12, <1>14, <1>15, <1>16, <1>17, <1>19 DEF UpInv

\* The principal edits the slots, never the pin.
LEMMA SlotsEdited ==
  ASSUME UpInv, Upgrade!Flip \/ Upgrade!Annotate
  PROVE  /\ UpInv' /\ slots'.pin = slots.pin /\ slots'.noted \in {slots.noted, TRUE}
         /\ \/ slots'.profile = slots.profile /\ slots'.names = slots.names
            \/ slots.profile = "2agent" /\ Upgrade!OrchRole
         /\ UNCHANGED <<disk, pc, dry, leg, at, new, pending, unread, todo, said, began, preview, born, written,
                        appends, raced, runs, crashes>>
<1>1. UNCHANGED <<disk, pc, dry, leg, at, new, pending, unread, todo, said, began, preview, born, written,
                  appends, raced, runs, crashes>>
  BY DEF Upgrade!Flip, Upgrade!Annotate, Upgrade!run, Upgrade!history
<1>2. PICK v \in Bann, n \in BOOLEAN, p \in {"2agent", "3agent", "none"}, m \in {0, 2, 3} :
        slots = [pin |-> v, noted |-> n, profile |-> p, names |-> m]
  <2>1. slots \in SlotSet
    BY DEF UpInv, RunOK
  <2> QED BY <2>1, SlotFields
<1>3. \/ /\ Upgrade!OrchRole /\ slots.profile = "2agent"
         /\ \E k \in {m, 3} : slots' = [pin |-> v, noted |-> n, profile |-> "3agent", names |-> k]
      \/ slots' = [pin |-> v, noted |-> TRUE, profile |-> p, names |-> m]
  <2>1. CASE Upgrade!Flip
    <3>1. PICK k \in {slots.names, 3} : slots' = [slots EXCEPT !.profile = "3agent", !.names = k]
      BY <2>1 DEF Upgrade!Flip
    <3>2. slots' = [pin |-> v, noted |-> n, profile |-> "3agent", names |-> k] /\ k \in {m, 3}
      BY <1>2, <3>1
    <3> QED BY <2>1, <3>2 DEF Upgrade!Flip
  <2>2. CASE Upgrade!Annotate
    BY <1>2, <2>2 DEF Upgrade!Annotate
  <2> QED BY <2>1, <2>2
<1>4. slots' \in SlotSet /\ slots'.pin = v /\ slots.pin = v /\ (slots.names # 0 => slots'.names # 0)
  <2>1. PICK j \in BOOLEAN, q \in {"2agent", "3agent", "none"}, k \in {m, 3} :
          slots' = [pin |-> v, noted |-> j, profile |-> q, names |-> k]
    BY <1>3
  <2>2. slots'.pin = v /\ slots.pin = v /\ slots.names = m /\ slots'.names = k
    BY <1>2, <2>1
  <2>3. k \in {0, 2, 3} /\ (m # 0 => k # 0)
    BY <2>1
  <2> QED BY <2>1, <2>2, <2>3 DEF SlotSet
<1>5. TreeOK'
  BY <1>1 DEF UpInv, TreeOK
<1>6. RunOK'
  BY <1>1, <1>4 DEF UpInv, RunOK
<1>7. WriteOK' /\ AbsentOK' /\ CopyOK' /\ RecordsOK'
  BY <1>1 DEF UpInv, WriteOK, AbsentOK, CopyOK, Uncopied, RecordsOK
<1>8. PinOK'
  BY <1>1, <1>4 DEF UpInv, PinOK
<1>9. /\ slots'.noted \in {slots.noted, TRUE}
      /\ \/ slots'.profile = slots.profile /\ slots'.names = slots.names
         \/ slots.profile = "2agent" /\ Upgrade!OrchRole
  <2>0. slots.noted = n /\ slots.profile = p /\ slots.names = m
    BY <1>2
  <2>1. CASE Upgrade!OrchRole /\ slots.profile = "2agent"
    <3>1. ASSUME NEW k \in {m, 3}, slots' = [pin |-> v, noted |-> n, profile |-> "3agent", names |-> k]
          PROVE  slots'.noted = n
      BY <3>1
    <3>2. slots' = [pin |-> v, noted |-> TRUE, profile |-> p, names |-> m] => slots'.noted = TRUE
      OBVIOUS
    <3>3. slots'.noted \in {n, TRUE}
      BY <1>3, <3>1, <3>2
    <3> QED BY <2>0, <2>1, <3>3
  <2>2. CASE slots' = [pin |-> v, noted |-> TRUE, profile |-> p, names |-> m]
    <3>1. slots'.noted = TRUE /\ slots'.profile = p /\ slots'.names = m
      BY <2>2
    <3> QED BY <2>0, <3>1
  <2> QED BY <1>3, <2>1, <2>2
<1>10. UpInv' /\ slots'.pin = slots.pin
  BY <1>4, <1>5, <1>6, <1>7, <1>8 DEF UpInv
<1> QED BY <1>1, <1>9, <1>10

\* The two starts.
LEMMA RunsCounted == ASSUME UpInv, NEW name, Upgrade!Start(name) PROVE pc = "idle" /\ runs' \in 0 .. MaxRuns
<1>1. runs < MaxRuns /\ runs' = runs + 1 /\ runs \in 0 .. MaxRuns
  BY DEF Upgrade!Start, UpInv, RunOK
<1>2. runs' \in 0 .. MaxRuns
  BY <1>1, UpgradeAssumption
<1> QED BY <1>2 DEF Upgrade!Start

LEMMA MembersJoined ==
  ASSUME NEW S, NEW s \in Seq(S), NEW t \in Seq(S)
  PROVE  /\ s \o t \in Seq(S) /\ \A x : Member(s \o t, x) <=> Member(s, x) \/ Member(t, x)
         /\ Single(s) /\ Single(t) /\ (\A x : ~(Member(s, x) /\ Member(t, x))) => Single(s \o t)
<1>1. PICK u \in Seq(S) : u = s \o t
  BY ConcatProperties
<1>2. Len(u) = Len(s) + Len(t) /\ Len(s) \in Nat /\ Len(t) \in Nat
  BY <1>1
<1>3. \A i \in 1 .. Len(s) : i \in 1 .. Len(u) /\ u[i] = s[i]
  BY <1>1, <1>2
<1>4. \A i \in 1 .. Len(t) : i + Len(s) \in 1 .. Len(u) /\ u[i + Len(s)] = t[i]
  BY <1>1, <1>2
<1>5. ASSUME NEW i \in 1 .. Len(u), i \notin 1 .. Len(s) PROVE \E j \in 1 .. Len(t) : u[i] = t[j]
  <2>1. PICK j : j = i - Len(s)
    OBVIOUS
  <2>2. j \in 1 .. Len(t) /\ i = j + Len(s)
    BY <1>2, <1>5, <2>1
  <2> QED BY <1>4, <2>2
<1>6. ASSUME NEW x PROVE Member(u, x) <=> Member(s, x) \/ Member(t, x)
  BY <1>3, <1>4, <1>5 DEF Member
<1>7. ASSUME Single(s), Single(t), \A x : ~(Member(s, x) /\ Member(t, x)) PROVE Single(u)
  <2> SUFFICES ASSUME NEW i \in 1 .. Len(u), NEW j \in 1 .. Len(u), u[i] = u[j] PROVE i = j
    BY DEF Single
  <2>1. CASE i \in 1 .. Len(s) /\ j \in 1 .. Len(s)
    BY <1>3, <1>7, <2>1 DEF Single
  <2>2. CASE i \notin 1 .. Len(s) /\ j \notin 1 .. Len(s)
    <3>1. PICK k, l : k = i - Len(s) /\ l = j - Len(s)
      OBVIOUS
    <3>2. k \in 1 .. Len(t) /\ i = k + Len(s) /\ l \in 1 .. Len(t) /\ j = l + Len(s)
      BY <1>2, <2>2, <3>1
    <3>3. t[k] = t[l]
      BY <1>4, <3>2
    <3> QED BY <1>7, <3>2, <3>3 DEF Single
  <2>3. CASE i \in 1 .. Len(s) /\ j \notin 1 .. Len(s)
    <3>1. Member(t, u[j]) /\ Member(s, u[i])
      BY <1>3, <1>5, <2>3 DEF Member
    <3> QED BY <1>7, <3>1
  <2>4. CASE i \notin 1 .. Len(s) /\ j \in 1 .. Len(s)
    <3>1. Member(t, u[i]) /\ Member(s, u[j])
      BY <1>3, <1>5, <2>4 DEF Member
    <3> QED BY <1>7, <3>1
  <2> QED BY <2>1, <2>2, <2>3, <2>4
<1> QED BY <1>1, <1>6, <1>7

OneMissing(p) == IF disk[p] = Nothing THEN <<p>> ELSE <<>>
LEMMA MissingIs ==
  /\ Upgrade!Missing \in Seq(OrchSet) /\ Single(Upgrade!Missing)
  /\ \A p \in OrchSet : disk[p] = Nothing <=> \E i \in 1 .. Len(Upgrade!Missing) : Upgrade!Missing[i] = p
<1>1. PICK a, b, c : /\ a = OneMissing("orch auth-log") /\ b = OneMissing("dispatch-log")
                     /\ c = OneMissing("TASKQUEUE")
  OBVIOUS
<1>2. Upgrade!Missing = a \o b \o c
  BY <1>1, HereIs DEF Upgrade!Missing, Upgrade!IfMissing, OneMissing
<1>3. ASSUME NEW p \in OrchSet
      PROVE  /\ OneMissing(p) \in Seq(OrchSet) /\ Single(OneMissing(p))
             /\ \A x : Member(OneMissing(p), x) <=> x = p /\ disk[p] = Nothing
  <2>1. CASE disk[p] = Nothing
    <3>4. OneMissing(p) = <<p>>
      BY <2>1 DEF OneMissing
    <3>1. PICK s \in Seq(OrchSet) : s = OneMissing(p) /\ Len(s) = 1 /\ s[1] = p
      BY <3>4
    <3>2. 1 .. Len(s) = {1}
      BY <3>1
    <3>3. \A x : (\E i \in {1} : s[i] = x) <=> x = p
      BY <3>1
    <3>5. Single(s)
      BY <3>2 DEF Single
    <3> QED BY <2>1, <3>1, <3>2, <3>3, <3>5 DEF Member
  <2>2. CASE disk[p] # Nothing
    <3>4. OneMissing(p) = <<>>
      BY <2>2 DEF OneMissing
    <3>5. <<>> \in Seq(OrchSet) /\ Len(<<>>) = 0
      OBVIOUS
    <3>1. PICK s \in Seq(OrchSet) : s = OneMissing(p) /\ Len(s) = 0
      BY <3>4, <3>5
    <3>2. 1 .. Len(s) = {}
      BY <3>1
    <3>3. Single(s)
      BY <3>2 DEF Single
    <3> QED BY <2>2, <3>1, <3>2, <3>3 DEF Member
  <2> QED BY <2>1, <2>2
<1>4. /\ a \in Seq(OrchSet) /\ \A x : Member(a, x) <=> x = "orch auth-log" /\ disk["orch auth-log"] = Nothing
      /\ b \in Seq(OrchSet) /\ \A x : Member(b, x) <=> x = "dispatch-log" /\ disk["dispatch-log"] = Nothing
      /\ c \in Seq(OrchSet) /\ \A x : Member(c, x) <=> x = "TASKQUEUE" /\ disk["TASKQUEUE"] = Nothing
  BY <1>1, <1>3 DEF OrchSet
<1>9. a \in Seq(OrchSet) /\ b \in Seq(OrchSet) /\ c \in Seq(OrchSet)
  BY <1>4
<1>12. Single(a) /\ Single(b) /\ Single(c)
  BY <1>1, <1>3 DEF OrchSet
<1>13. \A x : ~(Member(a, x) /\ Member(b, x))
  <2>1. "orch auth-log" # "dispatch-log"
    OBVIOUS
  <2> QED BY <1>4, <2>1
<1>10. a \o b \in Seq(OrchSet) /\ (\A x : Member(a \o b, x) <=> Member(a, x) \/ Member(b, x)) /\ Single(a \o b)
  BY <1>9, <1>12, <1>13, MembersJoined
<1>5. PICK d \in Seq(OrchSet) : d = a \o b /\ Single(d) /\ \A x : Member(d, x) <=> Member(a, x) \/ Member(b, x)
  BY <1>10
<1>14. \A x : ~(Member(d, x) /\ Member(c, x))
  <2>1. "orch auth-log" # "TASKQUEUE" /\ "dispatch-log" # "TASKQUEUE"
    OBVIOUS
  <2> QED BY <1>4, <1>5, <2>1
<1>11. d \o c \in Seq(OrchSet) /\ (\A x : Member(d \o c, x) <=> Member(d, x) \/ Member(c, x)) /\ Single(d \o c)
  BY <1>9, <1>5, <1>12, <1>14, MembersJoined
<1>6. PICK m \in Seq(OrchSet) : m = d \o c /\ Single(m) /\ \A x : Member(m, x) <=> Member(d, x) \/ Member(c, x)
  BY <1>11
<1>7. m = Upgrade!Missing
  BY <1>2, <1>5, <1>6
<1>8. \A p \in OrchSet : disk[p] = Nothing <=> Member(m, p)
  BY <1>4, <1>5, <1>6 DEF OrchSet
<1> QED BY <1>6, <1>7, <1>8 DEF Member

LEMMA ScaleStarted ==
  ASSUME UpInv, Upgrade!StartScale
  PROVE  UpInv'
<1>1. /\ pc = "idle" /\ runs' \in 0 .. MaxRuns
      /\ UNCHANGED <<disk, slots, dry, leg, at, new, pending, unread, preview, born, written, appends, raced,
                     crashes>>
  BY RunsCounted DEF Upgrade!StartScale, Upgrade!workspace, Upgrade!history
<1>2. \/ pc' = "idle" /\ said' = "not a workspace" /\ todo' = todo
      \/ pc' = "idle" /\ said' = "present" /\ todo' = todo /\ Upgrade!Missing = <<>>
      \/ pc' = "scale" /\ said' = "" /\ todo' = Upgrade!Missing /\ Upgrade!Missing # <<>>
  BY <1>1 DEF Upgrade!StartScale
<1>3. Upgrade!Missing = <<>> => \A p \in OrchSet : disk[p] # Nothing
  BY MissingIs
<1>4. TreeOK'
  BY <1>1 DEF UpInv, TreeOK
<1>5. RunOK'
  BY <1>1, <1>2, MissingIs DEF UpInv, RunOK
<1>6. WriteOK' /\ RecordsOK' /\ AbsentOK'
  BY <1>1, <1>2 DEF UpInv, WriteOK, RecordsOK, AbsentOK
<1>7. CopyOK'
  <2> SUFFICES ASSUME pc' = "scale" PROVE CopyOK'
    BY <1>2 DEF CopyOK
  <2>1. todo' = Upgrade!Missing /\ todo' # <<>> /\ Single(todo')
    BY <1>2, MissingIs
  <2>2. \A p \in OrchSet : disk[p] = Nothing <=> Member(todo', p)
    BY <2>1, MissingIs DEF Member
  <2>3. \A p : Member(todo', p) => p \in OrchSet
    <3>1. todo' \in Seq(OrchSet)
      BY <2>1, MissingIs
    <3> QED BY <3>1 DEF Member
  <2>4. ASSUME NEW p \in PathSet, Member(todo', p) PROVE Uncopied(p)'
    BY <1>1, <2>2, <2>3, <2>4 DEF UpInv, AbsentOK, Uncopied
  <2> QED BY <1>1, <2>1, <2>2, <2>4 DEF CopyOK
<1>8. PinOK'
  BY <1>1, <1>2, <1>3 DEF UpInv, PinOK
<1> QED BY <1>4, <1>5, <1>6, <1>7, <1>8 DEF UpInv

LEMMA MigrateStarted ==
  ASSUME UpInv, Upgrade!StartMigrate
  PROVE  UpInv'
<1>1. /\ pc = "idle" /\ runs' \in 0 .. MaxRuns
      /\ UNCHANGED <<disk, slots, new, todo, preview, born, written, appends, raced, crashes>>
  BY RunsCounted DEF Upgrade!StartMigrate, Upgrade!workspace, Upgrade!history
<1>2. \/ pc' = "idle" /\ said' \in {"unsupported", "already"} /\ UNCHANGED <<dry, leg, at, pending, unread>>
      \/ /\ pc' = "visit" /\ said' = "" /\ dry' \in BOOLEAN /\ leg' = slots.pin /\ at' = 1 /\ pending' = <<>>
         /\ unread' = {}
         /\ Upgrade!Chain # {}
  BY <1>1 DEF Upgrade!StartMigrate
<1>3. pc' = "visit" => leg' \in 0 .. Newest - 1
  <2> SUFFICES ASSUME pc' = "visit" PROVE leg' \in 0 .. Newest - 1
    OBVIOUS
  <2>1. Upgrade!Chain # {} /\ leg' = slots.pin
    BY <1>2
  <2>2. slots.pin \in Bann
    BY SlotFields DEF UpInv, RunOK
  <2>3. PICK v \in Bann : v = slots.pin
    BY <2>2
  <2>4. (IF v = Newest + 1 THEN {} ELSE v .. (Newest - 1)) # {}
    BY <2>1, <2>3, DataNames DEF Upgrade!Chain
  <2>5. v \in 0 .. Newest - 1
    BY <2>4, UpgradeAssumption DEF Bann, Vers
  <2> QED BY <2>1, <2>3, <2>5
<1>4. TreeOK'
  BY <1>1 DEF UpInv, TreeOK
<1>5. RunOK'
  <2>1. leg' \in 0 .. Newest - 1 /\ at' \in 1 .. 7
    <3>1. (pc' = "visit" /\ at' = 1) \/ (leg' = leg /\ at' = at)
      BY <1>2
    <3>2. leg \in 0 .. Newest - 1 /\ at \in 1 .. 7
      BY DEF UpInv, RunOK
    <3> QED BY <1>3, <3>1, <3>2
  <2>2. \A p \in DOMAIN pending' : p \in PathSet /\ pending'[p] \in ResultSet
    <3>1. pending' = pending \/ DOMAIN pending' = {}
      <4>1. pending' = pending \/ pending' = <<>>
        BY <1>2
      <4> QED BY <4>1
    <3> QED BY <3>1 DEF UpInv, RunOK
  <2>3. dry' \in BOOLEAN
    BY <1>2 DEF UpInv, RunOK
  <2>4. unread' \subseteq PathSet \ KeptSet
    BY <1>2 DEF UpInv, RunOK
  <2> QED BY <1>1, <1>2, <2>1, <2>2, <2>3, <2>4 DEF UpInv, RunOK
<1>6. WriteOK' /\ RecordsOK' /\ AbsentOK' /\ CopyOK'
  BY <1>1, <1>2 DEF UpInv, WriteOK, RecordsOK, AbsentOK, CopyOK
<1>8. PinOK'
  BY <1>1, <1>2 DEF UpInv, PinOK
<1> QED BY <1>4, <1>5, <1>6, <1>8 DEF UpInv

LEMMA CopyOpened ==
  ASSUME UpInv, Upgrade!Copy
  PROVE  UpInv'
<1>1. /\ pc = "scale" /\ pc' = "fill"
      /\ UNCHANGED <<slots, dry, leg, at, new, pending, unread, todo, said, born, written, appends, raced, runs,
                     crashes>>
  BY DEF Upgrade!Copy, Upgrade!run, Upgrade!history
<1>2. PICK p \in PathSet : p = Head(todo) /\ p \in OrchSet
  BY <1>1, CopyFacts
<1>3. /\ disk \in [PathSet -> FileSet] /\ written \in [PathSet -> Nat] /\ born \in [PathSet -> Bann]
      /\ appends \in 0 .. MaxAppends
  BY DEF UpInv, TreeOK
<1>4. /\ disk' \in [PathSet -> FileSet] /\ disk'[p] = Void
      /\ \A q \in PathSet : q # p => disk'[q] = disk[q]
  <2>1. disk' = [disk EXCEPT ![p] = Void]
    BY <1>2, DataNames DEF Upgrade!Copy
  <2> QED BY <1>3, <2>1, SomeFiles, OneEntry
<1>5. Member(todo, p) /\ \A q \in PathSet : Member(todo, q) /\ q \notin raced => Uncopied(q)
  <2>1. todo \in Seq(OrchSet) /\ todo # <<>>
    BY <1>1, CopyFacts
  <2>2. Head(todo) = todo[1] /\ 1 \in 1 .. Len(todo)
    BY <2>1
  <2> QED BY <1>1, <1>2, <2>2 DEF UpInv, CopyOK, Member
<1>6. Void # Nothing
  BY SomeFiles
<1>7. TreeOK'
  <2>1. ASSUME NEW q \in PathSet
        PROVE  written[q] <= appends /\ (disk'[q] # Nothing => disk'[q].rows <= appends)
    <3>1. q = p => disk'[q].rows <= appends
      BY <1>3, <1>4, SomeFiles
    <3> QED BY <1>4, <3>1 DEF UpInv, TreeOK
  <2>2. \A q \in PathSet : disk'[q] = Nothing => q \in OrchSet
    BY <1>2, <1>4 DEF UpInv, TreeOK
  <2> QED BY <1>1, <1>3, <1>4, <2>1, <2>2 DEF TreeOK
<1>8. RunOK'
  <2>1. said = ""
    BY <1>1 DEF UpInv, RunOK
  <2> QED BY <1>1, <2>1 DEF UpInv, RunOK
<1>9. WriteOK'
  BY <1>1 DEF WriteOK
<1>13. AbsentOK'
  BY <1>1, <1>4, <1>6 DEF UpInv, AbsentOK
<1>10. CopyOK'
  <2>1. \A q \in OrchSet : disk'[q] = Nothing => disk[q] = Nothing
    BY <1>4, SomeFiles, PathNames
  <2>2. ASSUME NEW q \in PathSet, Member(todo, q), q \notin raced PROVE Uncopied(q)'
    <3>1. Uncopied(q)
      BY <1>5, <2>2
    <3>2. disk'[q] = IF q = p THEN Void ELSE Nothing
      BY <1>1, <1>4, <3>1 DEF Uncopied
    <3> QED BY <1>1, <1>2, <3>1, <3>2 DEF Uncopied
  <2>3. disk'[Head(todo)] # Nothing
    BY <1>2, <1>4, <1>6
  <2> QED BY <1>1, <2>1, <2>2, <2>3 DEF UpInv, CopyOK
<1>11. RecordsOK'
  <2>1. ASSUME NEW q \in KeptSet, q \notin raced, disk'[q] # Nothing PROVE disk'[q] = Row(born[q], written[q])
    <3>1. q \in PathSet
      BY PathNames
    <3>2. q = p => disk'[q] = Row(born[q], written[q])
      BY <1>4, <1>5, <2>1 DEF Uncopied, Void
    <3> QED BY <1>4, <2>1, <3>1, <3>2 DEF UpInv, RecordsOK
  <2> QED BY <1>1, <2>1 DEF RecordsOK
<1>12. PinOK'
  <2>1. said = ""
    BY <1>1 DEF UpInv, RunOK
  <2>2. ASSUME NEW q \in KeptSet, disk'[q] # Nothing, crashes = 0, q # p PROVE disk'[q].banner \in Vers
    BY <1>1, <1>4, <2>2, PathNames DEF UpInv, PinOK
  <2> QED BY <1>1, <1>2, <2>1, <2>2 DEF UpInv, PinOK
<1> QED BY <1>7, <1>8, <1>9, <1>10, <1>11, <1>12, <1>13 DEF UpInv

LEMMA CopyFilled ==
  ASSUME UpInv, Upgrade!FillCopy
  PROVE  UpInv'
<1>1. /\ pc = "fill" /\ todo' = Tail(todo)
      /\ IF todo' = <<>> THEN pc' = "idle" /\ said' = "scaled" ELSE pc' = "scale" /\ said' = ""
      /\ UNCHANGED <<slots, dry, leg, at, new, pending, unread, appends, raced, runs, crashes>>
  BY DEF Upgrade!FillCopy
<1>2. PICK p \in PathSet : p = Head(todo) /\ p \in OrchSet
  BY <1>1, CopyFacts
<1>3. /\ disk \in [PathSet -> FileSet] /\ written \in [PathSet -> Nat] /\ born \in [PathSet -> Bann]
      /\ appends \in 0 .. MaxAppends
  BY DEF UpInv, TreeOK
<1>13. Newest \in Vers /\ Newest \in Bann /\ 0 \in 0 .. MaxAppends + 1
  BY UpgradeAssumption DEF Vers, Bann
<1>14. PICK f \in FileSet : f = Row(Newest, 0) /\ f.banner = Newest /\ f.rows = 0 /\ f # Nothing
  <2>1. Row(Newest, 0) \in FileSet
    BY <1>13, RowIn
  <2>2. Row(Newest, 0).rows # Nothing.rows
    BY SomeFiles, RowFields, UpgradeAssumption
  <2> QED BY <2>1, <2>2, RowFields
<1>4. /\ disk' \in [PathSet -> FileSet] /\ disk'[p] = f
      /\ \A q \in PathSet : q # p => disk'[q] = disk[q]
  <2>1. disk' = [disk EXCEPT ![p] = f]
    BY <1>2, <1>14 DEF Upgrade!FillCopy, Row
  <2> QED BY <1>3, <2>1, OneEntry
<1>5. written' = written
  BY DEF Upgrade!FillCopy
<1>6. /\ born' \in [PathSet -> Bann] /\ born'[p] = IF born[p] = Newest + 1 THEN Newest ELSE born[p]
      /\ \A q \in PathSet : q # p => born'[q] = born[q]
  <2>1. PICK e \in Bann : e = IF born[p] = Newest + 1 THEN Newest ELSE born[p]
    BY <1>3, <1>13
  <2>2. born' = [born EXCEPT ![p] = e]
    BY <1>2, <1>3, <2>1, DataNames DEF Upgrade!FillCopy
  <2> QED BY <1>3, <2>1, <2>2, OneEntry
<1>16. p \notin raced => written[p] = 0 /\ born[p] = Newest + 1
  <2>1. todo \in Seq(OrchSet) /\ todo # <<>>
    BY <1>1, CopyFacts
  <2>2. Head(todo) = todo[1] /\ 1 \in 1 .. Len(todo)
    BY <2>1
  <2> QED BY <1>1, <1>2, <2>2 DEF UpInv, CopyOK, Member, Uncopied
<1>7. TreeOK'
  <2>1. ASSUME NEW q \in PathSet
        PROVE  written[q] <= appends /\ (disk'[q] # Nothing => disk'[q].rows <= appends)
    <3>1. q = p => disk'[q].rows <= appends
      BY <1>3, <1>4, <1>14
    <3> QED BY <1>4, <3>1 DEF UpInv, TreeOK
  <2>2. \A q \in PathSet : disk'[q] = Nothing => q \in OrchSet
    BY <1>2, <1>4 DEF UpInv, TreeOK
  <2> QED BY <1>1, <1>3, <1>4, <1>5, <1>6, <2>1, <2>2 DEF TreeOK
<1>8. RunOK'
  <2>1. todo' \in Seq(OrchSet)
    BY <1>1, CopyFacts
  <2> QED BY <1>1, <2>1 DEF UpInv, RunOK
<1>9. WriteOK'
  BY <1>1 DEF WriteOK
<1>10. \A q \in OrchSet : disk'[q] = Nothing => Member(Tail(todo), q)
  <2>1. ASSUME NEW q \in OrchSet, disk'[q] = Nothing PROVE Member(Tail(todo), q)
    <3>1. q # p /\ disk[q] = Nothing
      BY <1>4, <1>14, <2>1, PathNames
    <3>2. Member(todo, q)
      BY <1>1, <3>1 DEF UpInv, CopyOK, Member
    <3> QED BY <1>1, <1>2, <3>1, <3>2, CopyFacts
  <2> QED BY <2>1
<1>17. AbsentOK'
  BY <1>1, <1>4, <1>5, <1>6, <1>14 DEF UpInv, AbsentOK
<1>15. CopyOK'
  <2>1. /\ Single(Tail(todo))
        /\ \A q : Member(Tail(todo), q) => Member(todo, q) /\ q # p
    <3>1. todo \in Seq(OrchSet) /\ todo # <<>> /\ Single(todo)
      BY <1>1, CopyFacts DEF UpInv, CopyOK
    <3>2. /\ Head(todo) = todo[1] /\ 1 \in 1 .. Len(todo)
          /\ \A i \in 1 .. Len(Tail(todo)) : Tail(todo)[i] = todo[i + 1] /\ i + 1 \in 1 .. Len(todo) /\ i + 1 # 1
          /\ \A i, j \in 1 .. Len(Tail(todo)) : i + 1 = j + 1 => i = j
      BY <3>1
    <3>3. Single(Tail(todo))
      BY <3>1, <3>2 DEF Single
    <3>4. \A q : Member(Tail(todo), q) => Member(todo, q) /\ q # p
      BY <1>2, <3>1, <3>2 DEF Single, Member
    <3> QED BY <3>3, <3>4
  <2>2. ASSUME pc' = "scale", NEW q \in PathSet, Member(todo', q), q \notin raced PROVE Uncopied(q)'
    <3>1. q # p /\ Uncopied(q)
      BY <1>1, <2>1, <2>2 DEF UpInv, CopyOK
    <3> QED BY <1>1, <1>2, <1>4, <1>5, <1>6, <2>2, <3>1 DEF Uncopied
  <2> QED BY <1>1, <1>10, <2>1, <2>2 DEF CopyOK
<1>11. RecordsOK'
  <2>1. ASSUME NEW q \in KeptSet, q \notin raced, disk'[q] # Nothing PROVE disk'[q] = Row(born'[q], written[q])
    <3>1. q \in PathSet
      BY PathNames
    <3>2. q = p => disk'[q] = Row(born'[q], written[q])
      BY <1>4, <1>6, <1>14, <1>16, <2>1
    <3> QED BY <1>4, <1>6, <2>1, <3>1, <3>2 DEF UpInv, RecordsOK
  <2> QED BY <1>1, <1>5, <2>1 DEF RecordsOK
<1>12. PinOK'
  <2>2. ASSUME NEW q \in KeptSet, disk'[q] # Nothing, crashes = 0 PROVE disk'[q].banner \in Vers
    <3>1. q # p => disk'[q].banner \in Vers
      BY <1>1, <1>2, <1>4, <2>2, PathNames DEF UpInv, PinOK
    <3> QED BY <1>4, <1>13, <1>14, <3>1
  <2>3. ASSUME said' \in {"scaled", "present"}, NEW q \in OrchSet PROVE disk'[q] # Nothing
    <3>1. Tail(todo) = <<>>
      BY <1>1, <2>3
    <3>2. Len(Tail(todo)) = 0
      <4>1. Len(<<>>) = 0
        OBVIOUS
      <4> QED BY <3>1, <4>1
    <3>3. ~Member(Tail(todo), q)
      <4>1. 1 .. 0 = {}
        OBVIOUS
      <4> QED BY <3>2, <4>1 DEF Member
    <3> QED BY <1>10, <3>3
  <2> QED BY <1>1, <2>2, <2>3 DEF UpInv, PinOK
<1> QED BY <1>7, <1>8, <1>9, <1>11, <1>12, <1>15, <1>17 DEF UpInv

\* A run of migrate goes on.
LEMMA OnwardFacts ==
  ASSUME UpInv, Upgrade!Onward
  PROVE  /\ at' \in 1 .. 7 /\ leg' \in 0 .. Newest - 1 /\ pc' \in {"idle", "visit"}
         /\ said' \in {"", "dry-run", "migrated"} /\ (said' # "" => pc' = "idle")
<1>1. at \in 1 .. 7 /\ leg \in 0 .. Newest - 1 /\ Newest \in Nat
  BY UpgradeAssumption DEF UpInv, RunOK
<1>2. Upgrade!Final <=> at = 7 /\ leg + 1 = Newest
  BY PathNames, Places DEF Upgrade!Final
<1>3. /\ at' = IF at = 7 THEN 1 ELSE at + 1
      /\ leg' = IF at = 7 /\ ~Upgrade!Final THEN leg + 1 ELSE leg
  BY PathNames, Places DEF Upgrade!Onward
<1>4. at' \in 1 .. 7 /\ leg' \in 0 .. Newest - 1
  BY <1>1, <1>2, <1>3
<1> QED BY <1>4 DEF Upgrade!Onward

LEMMA PlannedIs ==
  ASSUME NEW r \in ResultSet, leg \in 0 .. Newest - 1
  PROVE  /\ Upgrade!Planned(r) \in ResultSet
         /\ Upgrade!Planned(r).file = Row(IF r.file.banner = leg THEN leg + 1 ELSE r.file.banner, r.file.rows)
         /\ Upgrade!Planned(r).slots = [pin |-> IF r.slots.pin = leg /\ ~r.slots.noted THEN leg + 1 ELSE r.slots.pin,
                                noted |-> r.slots.noted, profile |-> r.slots.profile, names |-> r.slots.names]
<1>1. PICK b \in Bann, n \in 0 .. MaxAppends + 1 : r.file = Row(b, n) /\ r.file.banner = b /\ r.file.rows = n
  BY ResultFields, FilesAreRows
<1>2. PICK v \in Bann, m \in BOOLEAN, q \in {"2agent", "3agent", "none"}, k \in {0, 2, 3} :
        /\ r.slots = [pin |-> v, noted |-> m, profile |-> q, names |-> k]
        /\ r.slots.pin = v /\ r.slots.noted = m /\ r.slots.profile = q /\ r.slots.names = k
  BY ResultFields, SlotFields
<1>3. leg + 1 \in Bann
  BY UpgradeAssumption DEF Bann, Vers
<1>4. PICK c \in Bann : c = IF b = leg THEN leg + 1 ELSE b
  BY <1>3
<1>5. PICK w \in Bann : w = IF v = leg /\ ~m THEN leg + 1 ELSE v
  BY <1>3
<1>6. Upgrade!Planned(r).file = Row(c, n)
  <2>1. Upgrade!Planned(r).file = IF b = leg THEN [Row(b, n) EXCEPT !.banner = leg + 1] ELSE Row(b, n)
    BY <1>1 DEF Upgrade!Planned
  <2>2. [Row(b, n) EXCEPT !.banner = leg + 1] = Row(leg + 1, n)
    BY DEF Row
  <2> QED BY <1>4, <2>1, <2>2
<1>7. Upgrade!Planned(r).slots = [pin |-> w, noted |-> m, profile |-> q, names |-> k]
  <2>1. Upgrade!Planned(r).slots = IF v = leg /\ ~m THEN [[pin |-> v, noted |-> m, profile |-> q, names |-> k] EXCEPT !.pin = leg + 1]
                                                    ELSE [pin |-> v, noted |-> m, profile |-> q, names |-> k]
    BY <1>2 DEF Upgrade!Planned
  <2>2. [[pin |-> v, noted |-> m, profile |-> q, names |-> k] EXCEPT !.pin = leg + 1] = [pin |-> leg + 1, noted |-> m, profile |-> q, names |-> k]
    OBVIOUS
  <2> QED BY <1>5, <2>1, <2>2
<1>8. Upgrade!Planned(r) = [file |-> Row(c, n), slots |-> [pin |-> w, noted |-> m, profile |-> q, names |-> k]]
  BY <1>6, <1>7 DEF Upgrade!Planned
<1>9. Row(c, n) \in FileSet /\ [pin |-> w, noted |-> m, profile |-> q, names |-> k] \in SlotSet
  BY RowIn DEF SlotSet
<1> QED BY <1>1, <1>2, <1>4, <1>5, <1>6, <1>7, <1>8, <1>9 DEF ResultSet

Result(f, s) == [file |-> f, slots |-> s]
NoRows == [pin |-> Newest + 1, noted |-> FALSE, profile |-> "none", names |-> 0]

LEMMA ReadIs ==
  ASSUME UpInv, NEW p \in PathSet
  PROVE  /\ NoRows \in SlotSet /\ disk[p] \in FileSet
         /\ Upgrade!Read(p) \in ResultSet
         /\ p \notin DOMAIN pending \/ ~dry =>
              Upgrade!Read(p) = Result(disk[p], IF p = "BINDINGS" THEN slots ELSE NoRows)
<1>1. NoRows \in SlotSet /\ slots \in SlotSet /\ disk[p] \in FileSet
  BY DEF NoRows, SlotSet, Bann, UpInv, RunOK, TreeOK
<1>2. Upgrade!Read(p) = IF dry /\ p \in DOMAIN pending THEN pending[p]
                        ELSE Result(disk[p], IF p = "BINDINGS" THEN slots ELSE NoRows)
  BY DataNames DEF Upgrade!Read, Upgrade!NoSlots, NoRows, Result
<1>3. p \in DOMAIN pending => pending[p] \in ResultSet
  BY DEF UpInv, RunOK
<1>4. Result(disk[p], IF p = "BINDINGS" THEN slots ELSE NoRows) \in ResultSet
  BY <1>1 DEF Result, ResultSet
<1> QED BY <1>1, <1>2, <1>3, <1>4

\* What a visit leaves alone.
LEMMA Visited ==
  ASSUME UpInv, Upgrade!Pass \/ Upgrade!Preview
  PROVE  /\ UpInv' /\ pc = "visit" /\ Upgrade!Onward
         /\ unread' = unread \/ (unread' = unread \cup {Ord[at]} /\ Upgrade!Pass)
         /\ Upgrade!Untouched(Ord[at]) \/ dry \/ Ord[at] \in unread'
         /\ UNCHANGED <<disk, slots, dry, new, todo, began, born, written, appends, raced, runs, crashes>>
<1>1. /\ pc = "visit" /\ Upgrade!Onward
      /\ UNCHANGED <<disk, slots, dry, new, todo, began, born, written, appends, raced, runs, crashes>>
  BY DEF Upgrade!Pass, Upgrade!Preview, Upgrade!workspace, Upgrade!history
<1>2. /\ at' \in 1 .. 7 /\ leg' \in 0 .. Newest - 1 /\ pc' \in {"idle", "visit"}
      /\ said' \in {"", "dry-run", "migrated"} /\ (said' # "" => pc' = "idle")
  BY <1>1, OnwardFacts
<1>3. \A p \in DOMAIN pending' : p \in PathSet /\ pending'[p] \in ResultSet
  <2>1. CASE pending' = pending
    BY <2>1 DEF UpInv, RunOK
  <2>2. CASE pending' # pending
    <3>1. pending' = [p \in DOMAIN pending \cup {Ord[at]} |->
                        IF p = Ord[at] THEN Upgrade!Planned(Upgrade!Read(p)) ELSE pending[p]]
      BY <2>2, PathNames DEF Upgrade!Pass, Upgrade!Preview
    <3>2. Ord[at] \in PathSet /\ leg \in 0 .. Newest - 1
      BY Places DEF UpInv, RunOK
    <3>3. PICK p, r : p = Ord[at] /\ r = Upgrade!Planned(Upgrade!Read(Ord[at]))
      OBVIOUS
    <3>4. r \in ResultSet
      BY <3>2, <3>3, ReadIs, PlannedIs
    <3>5. pending' = [x \in DOMAIN pending \cup {p} |-> IF x = p THEN r ELSE pending[x]]
      BY <3>1, <3>3
    <3> QED BY <3>2, <3>3, <3>4, <3>5 DEF UpInv, RunOK
  <2> QED BY <2>1, <2>2
<1>8. /\ unread' = unread \/ (unread' = unread \cup {Ord[at]} /\ ~Upgrade!Untouched(Ord[at]) /\ Upgrade!Pass)
      /\ Upgrade!Untouched(Ord[at]) \/ dry \/ Ord[at] \in unread'
  BY PathNames DEF Upgrade!Pass, Upgrade!PassOver, Upgrade!Preview
<1>9. unread' \subseteq PathSet \ KeptSet
  <2>1. unread \subseteq PathSet \ KeptSet /\ Ord[at] \in PathSet
    BY Places DEF UpInv, RunOK
  <2>2. ~Upgrade!Untouched(Ord[at]) => Ord[at] \notin KeptSet
    BY PathNames DEF Upgrade!Untouched, Upgrade!IsRecord
  <2> QED BY <1>8, <2>1, <2>2
<1>4. TreeOK'
  BY <1>1 DEF UpInv, TreeOK
<1>5. RunOK'
  BY <1>1, <1>2, <1>3, <1>9 DEF UpInv, RunOK
<1>6. WriteOK' /\ AbsentOK' /\ CopyOK' /\ RecordsOK'
  BY <1>1, <1>2 DEF UpInv, WriteOK, AbsentOK, CopyOK, RecordsOK
<1>7. PinOK'
  BY <1>1, <1>2 DEF UpInv, PinOK
<1> QED BY <1>1, <1>4, <1>5, <1>6, <1>7, <1>8 DEF UpInv

LEMMA RewritePlanned ==
  ASSUME UpInv, Upgrade!Plan
  PROVE  UpInv'
<1>1. /\ pc = "visit" /\ ~dry /\ pc' = "open" /\ new' = Upgrade!Planned(Upgrade!Read(Ord[at]))
      /\ UNCHANGED <<disk, slots, dry, leg, at, pending, unread, todo, said, born, written, appends, raced, runs, crashes>>
  BY PathNames DEF Upgrade!Plan, Upgrade!workspace, Upgrade!history
<1>2. Ord[at] \in PathSet /\ leg \in 0 .. Newest - 1 /\ at \in 1 .. 7 /\ (Ord[at] = "BINDINGS" <=> at = 1)
  BY Places DEF UpInv, RunOK
<1>3. Ord[at] \notin KeptSet /\ disk[Ord[at]] # Nothing
  BY PathNames, HereIs DEF Upgrade!Plan, Upgrade!Untouched, Upgrade!IsRecord
<1>4. PICK r \in ResultSet : /\ r = Upgrade!Read(Ord[at]) /\ r.file = disk[Ord[at]]
                             /\ r.slots = IF at = 1 THEN slots ELSE NoRows
  BY <1>1, <1>2, ReadIs DEF Result
<1>5. /\ new' \in ResultSet /\ new'.file.rows = disk[Ord[at]].rows
      /\ new'.slots.pin = IF r.slots.pin = leg /\ ~r.slots.noted THEN leg + 1 ELSE r.slots.pin
      /\ new'.slots.names = r.slots.names
  <2>1. new' = Upgrade!Planned(r)
    BY <1>1, <1>4
  <2>2. /\ new' \in ResultSet
        /\ new'.file = Row(IF r.file.banner = leg THEN leg + 1 ELSE r.file.banner, r.file.rows)
        /\ new'.slots = [pin |-> IF r.slots.pin = leg /\ ~r.slots.noted THEN leg + 1 ELSE r.slots.pin,
                         noted |-> r.slots.noted, profile |-> r.slots.profile, names |-> r.slots.names]
    BY <1>2, <2>1, PlannedIs
  <2>3. new'.file.rows = r.file.rows
    BY <2>2, RowFields
  <2> QED BY <1>4, <2>2, <2>3
<1>6. new'.file.rows <= appends
  BY <1>2, <1>3, <1>5 DEF UpInv, TreeOK
<1>7. crashes = 0 /\ at = 1 => new'.slots.pin \in Vers /\ new'.slots.names # 0
  <2>1. leg + 1 \in Vers
    BY <1>2, UpgradeAssumption DEF Vers
  <2>2. crashes = 0 => slots.pin \in Vers /\ slots.names # 0
    BY <1>1 DEF UpInv, PinOK
  <2> QED BY <1>4, <1>5, <2>1, <2>2
<1>8. TreeOK'
  BY <1>1 DEF UpInv, TreeOK
<1>9. RunOK'
  <2>1. said = ""
    BY <1>1 DEF UpInv, RunOK
  <2> QED BY <1>1, <1>5, <2>1 DEF UpInv, RunOK
<1>10. WriteOK'
  BY <1>1, <1>3, <1>6 DEF WriteOK
<1>11. AbsentOK' /\ CopyOK' /\ RecordsOK'
  BY <1>1 DEF UpInv, AbsentOK, CopyOK, RecordsOK
<1>12. PinOK'
  BY <1>1, <1>7 DEF UpInv, PinOK
<1> QED BY <1>8, <1>9, <1>10, <1>11, <1>12 DEF UpInv

LEMMA FileOpened ==
  ASSUME UpInv, Upgrade!Open
  PROVE  UpInv'
<1>1. /\ pc = "open" /\ pc' = "write"
      /\ UNCHANGED <<dry, leg, at, new, pending, unread, todo, said, born, written, appends, raced, runs, crashes>>
  BY DEF Upgrade!Open, Upgrade!run, Upgrade!history
<1>2. PICK p \in PathSet : p = Ord[at] /\ p \notin KeptSet /\ (p = "BINDINGS" <=> at = 1)
  BY <1>1, WriteFacts, Places
<1>3. disk' = [disk EXCEPT ![p] = Void] /\ slots' = IF at = 1 THEN NoRows ELSE slots
  BY <1>2, PathNames, DataNames DEF Upgrade!Open, Upgrade!NoSlots, NoRows
<1>4. /\ disk' \in [PathSet -> FileSet] /\ disk'[p] = Void
      /\ \A q \in PathSet : q # p => disk'[q] = disk[q]
  BY <1>3, SomeFiles, OneEntry DEF UpInv, TreeOK
<1>5. NoRows \in SlotSet /\ slots \in SlotSet
  BY DEF NoRows, SlotSet, Bann, UpInv, RunOK
<1>6. TreeOK'
  <2>1. appends \in 0 .. MaxAppends
    BY DEF UpInv, TreeOK
  <2>2. ASSUME NEW q \in PathSet PROVE disk'[q] # Nothing => disk'[q].rows <= appends
    <3>1. q = p => disk'[q].rows <= appends
      BY <1>4, <2>1, SomeFiles
    <3> QED BY <1>4, <3>1 DEF UpInv, TreeOK
  <2>3. \A q \in PathSet : disk'[q] = Nothing => q \in OrchSet
    BY <1>4, SomeFiles DEF UpInv, TreeOK
  <2> QED BY <1>1, <1>4, <2>2, <2>3 DEF UpInv, TreeOK
<1>7. RunOK'
  <2>1. said = ""
    BY <1>1 DEF UpInv, RunOK
  <2>2. slots' \in SlotSet
    BY <1>3, <1>5
  <2> QED BY <1>1, <2>1, <2>2 DEF UpInv, RunOK
<1>8. WriteOK'
  BY <1>1, <1>2, <1>4, SomeFiles DEF UpInv, WriteOK
<1>9. AbsentOK' /\ CopyOK'
  BY <1>1, <1>4, SomeFiles DEF UpInv, AbsentOK, CopyOK
<1>10. RecordsOK'
  BY <1>1, <1>2, <1>4, PathNames DEF UpInv, RecordsOK
<1>11. PinOK'
  <2>1. said = ""
    BY <1>1 DEF UpInv, RunOK
  <2>2. crashes = 0 /\ at # 1 => slots'.pin \in Vers /\ slots'.names # 0
    BY <1>1, <1>3 DEF UpInv, PinOK
  <2>3. crashes = 0 /\ at = 1 => new.slots.pin \in Vers /\ new.slots.names # 0
    BY <1>1 DEF UpInv, PinOK
  <2>4. \A q \in KeptSet : disk'[q] = disk[q]
    BY <1>2, <1>4, PathNames
  <2> QED BY <1>1, <2>1, <2>2, <2>3, <2>4 DEF UpInv, PinOK
<1> QED BY <1>6, <1>7, <1>8, <1>9, <1>10, <1>11 DEF UpInv

LEMMA FileWritten ==
  ASSUME UpInv, Upgrade!Write
  PROVE  UpInv'
<1>1. /\ pc = "write" /\ Upgrade!Onward
      /\ UNCHANGED <<dry, new, pending, unread, todo, born, written, appends, raced, runs, crashes>>
  BY DEF Upgrade!Write, Upgrade!history
<1>2. PICK p \in PathSet : p = Ord[at] /\ p \notin KeptSet /\ (p = "BINDINGS" <=> at = 1)
  BY <1>1, WriteFacts, Places
<1>3. disk' = [disk EXCEPT ![p] = new.file] /\ slots' = IF at = 1 THEN new.slots ELSE slots
  BY <1>2, PathNames DEF Upgrade!Write
<1>4. /\ disk' \in [PathSet -> FileSet] /\ disk'[p] = new.file
      /\ \A q \in PathSet : q # p => disk'[q] = disk[q]
  BY <1>1, <1>3, WriteFacts, OneEntry DEF UpInv, TreeOK
<1>5. /\ at' \in 1 .. 7 /\ leg' \in 0 .. Newest - 1 /\ pc' \in {"idle", "visit"}
      /\ said' \in {"", "dry-run", "migrated"} /\ (said' # "" => pc' = "idle")
  BY <1>1, OnwardFacts
<1>6. TreeOK'
  <2>2. ASSUME NEW q \in PathSet PROVE disk'[q] # Nothing => disk'[q].rows <= appends
    <3>1. q = p => disk'[q].rows <= appends
      BY <1>1, <1>4, WriteFacts
    <3> QED BY <1>4, <3>1 DEF UpInv, TreeOK
  <2>3. \A q \in PathSet : disk'[q] = Nothing => q \in OrchSet
    BY <1>1, <1>4, WriteFacts DEF UpInv, TreeOK
  <2> QED BY <1>1, <1>4, <2>2, <2>3 DEF UpInv, TreeOK
<1>7. RunOK'
  <2>2. slots' \in SlotSet
    BY <1>1, <1>3, WriteFacts DEF UpInv, RunOK
  <2> QED BY <1>1, <1>5, <2>2 DEF UpInv, RunOK
<1>8. WriteOK' /\ AbsentOK' /\ CopyOK'
  BY <1>1, <1>4, <1>5, WriteFacts DEF UpInv, WriteOK, AbsentOK, CopyOK
<1>10. RecordsOK'
  BY <1>1, <1>2, <1>4, PathNames DEF UpInv, RecordsOK
<1>11. PinOK'
  <2>1. crashes = 0 => slots'.pin \in Vers /\ slots'.names # 0
    BY <1>1, <1>3 DEF UpInv, PinOK
  <2>4. \A q \in KeptSet : disk'[q] = disk[q]
    BY <1>2, <1>4, PathNames
  <2> QED BY <1>1, <1>5, <2>1, <2>4 DEF UpInv, PinOK
<1> QED BY <1>6, <1>7, <1>8, <1>10, <1>11 DEF UpInv

LEMMA RunDied ==
  ASSUME UpInv, Upgrade!Crash
  PROVE  UpInv'
<1>1. /\ pc' = "idle" /\ said' = "died" /\ todo' = <<>>
      /\ UNCHANGED <<disk, slots, dry, leg, at, new, pending, unread, born, written, appends, raced, runs>>
  BY DEF Upgrade!Crash, Upgrade!workspace, Upgrade!history
<1>2. crashes < MaxCrashes /\ crashes' = crashes + 1 /\ crashes \in 0 .. MaxCrashes
  BY DEF Upgrade!Crash, UpInv, RunOK
<1>3. crashes' \in 0 .. MaxCrashes /\ crashes' # 0
  BY <1>2, UpgradeAssumption
<1>4. TreeOK'
  BY <1>1 DEF UpInv, TreeOK
<1>5. RunOK'
  <2>1. <<>> \in Seq(OrchSet)
    OBVIOUS
  <2> QED BY <1>1, <1>3, <2>1 DEF UpInv, RunOK
<1>6. WriteOK' /\ AbsentOK' /\ CopyOK' /\ RecordsOK'
  BY <1>1 DEF UpInv, WriteOK, AbsentOK, CopyOK, RecordsOK
<1>7. PinOK'
  BY <1>3 DEF PinOK
<1> QED BY <1>4, <1>5, <1>6, <1>7 DEF UpInv

LEMMA UpgradeStep == UpInv /\ [Upgrade!Next]_upgradeOnly => UpInv'
<1> SUFFICES ASSUME UpInv, [Upgrade!Next]_upgradeOnly PROVE UpInv'
  OBVIOUS
<1>1. CASE UNCHANGED upgradeOnly
  <2>1. UNCHANGED <<disk, slots, pc, dry, leg, at, new, pending, unread, todo, said, born, written, appends,
                    raced, runs, crashes>>
    BY <1>1 DEF upgradeOnly
  <2>2. TreeOK'
    BY <2>1 DEF UpInv, TreeOK
  <2>3. RunOK'
    BY <2>1 DEF UpInv, RunOK
  <2>4. WriteOK' /\ AbsentOK' /\ CopyOK' /\ RecordsOK' /\ PinOK'
    BY <2>1 DEF UpInv, WriteOK, AbsentOK, CopyOK, Uncopied, RecordsOK, PinOK
  <2> QED BY <2>2, <2>3, <2>4 DEF UpInv
<1>2. CASE Upgrade!People
  BY <1>2, RowAdded, FileCreated, SlotsEdited DEF Upgrade!People
<1>3. CASE Upgrade!Scale
  BY <1>3, ScaleStarted, CopyOpened, CopyFilled DEF Upgrade!Scale
<1>4. CASE Upgrade!Migrate
  BY <1>4, MigrateStarted, Visited, RewritePlanned, FileOpened, FileWritten DEF Upgrade!Migrate
<1> QED BY <1>1, <1>2, <1>3, <1>4, RunDied DEF Upgrade!Next

LEMMA UpgradeSound == UpInv => Upgrade!TypeOK /\ Upgrade!RecordsAsWritten /\ Upgrade!ScaledIsComplete
<1> SUFFICES ASSUME UpInv PROVE Upgrade!TypeOK /\ Upgrade!RecordsAsWritten /\ Upgrade!ScaledIsComplete
  OBVIOUS
<1>1. Upgrade!TypeOK
  <2>1. Upgrade!ToSet(todo) \subseteq OrchSet
    <3>1. todo \in Seq(OrchSet)
      BY DEF UpInv, RunOK
    <3> QED BY <3>1 DEF Upgrade!ToSet
  <2>2. written \in [PathSet -> 0 .. MaxAppends]
    <3>1. ASSUME NEW p \in PathSet PROVE written[p] \in 0 .. MaxAppends
      BY UpgradeAssumption DEF UpInv, TreeOK
    <3> QED BY <3>1 DEF UpInv, TreeOK
  <2>3. at \in DOMAIN Upgrade!Order
    BY PathNames, Places DEF UpInv, RunOK
  <2>4. born \in [PathSet -> Upgrade!Versions \cup {Upgrade!NoVersion}]
    BY DataNames DEF UpInv, TreeOK, Bann
  <2>5. /\ new \in [file : Upgrade!Contents, slots : Upgrade!SlotRows]
        /\ \A p \in DOMAIN pending : p \in PathSet /\ pending[p] \in [file : Upgrade!Contents, slots : Upgrade!SlotRows]
    BY DataNames DEF UpInv, RunOK, ResultSet
  <2>6. disk \in [PathSet -> Upgrade!Contents] /\ slots \in Upgrade!SlotRows
    BY DataNames DEF UpInv, TreeOK, RunOK
  <2> QED BY <2>1, <2>2, <2>3, <2>4, <2>5, <2>6, PathNames DEF Upgrade!TypeOK, UpInv, RunOK
<1>2. Upgrade!RecordsAsWritten
  BY PathNames, HereIs DEF Upgrade!RecordsAsWritten, UpInv, RecordsOK, Row
<1>3. Upgrade!ScaledIsComplete
  <2> SUFFICES ASSUME said \in {"scaled", "present"}, crashes = 0
               PROVE  /\ \A p \in OrchSet : disk[p] # Nothing
                      /\ slots.profile = "3agent" => ~Upgrade!Blocked /\ (Upgrade!Warned => slots.pin < Newest \/ slots.names = 2)
    BY PathNames, HereIs DEF Upgrade!ScaledIsComplete
  <2>1. pc = "idle" /\ slots.pin \in Vers /\ \A p \in OrchSet : disk[p] # Nothing
    BY DEF UpInv, RunOK, PinOK
  <2>2. \A p \in PathSet : disk[p] # Nothing
    BY <2>1 DEF UpInv, TreeOK
  <2>3. \A p \in KeptSet : disk[p].banner \in Vers
    BY <2>1, <2>2, PathNames DEF UpInv, PinOK
  <2>4. Upgrade!OrchRole
    BY <2>1, HereIs DEF Upgrade!OrchRole, OrchSet
  <2>5. slots.profile = "3agent" => ~Upgrade!Blocked
    <3>1. Upgrade!Required \subseteq PathSet
      BY PathNames DEF Upgrade!Required
    <3> QED BY <2>1, <2>2, <2>4, <3>1, HereIs, DataNames DEF Upgrade!Blocked
  <2>6. Upgrade!Warned => slots.pin < Newest \/ slots.names # 3
    <3>1. Upgrade!Warned => (\E p \in KeptSet : ~(disk[p].banner <= slots.pin)) \/ slots.names # 3
      BY <2>3, <2>4, DataNames DEF Upgrade!Warned, Upgrade!StampOk, KeptSet
    <3>2. ASSUME NEW p \in KeptSet, ~(disk[p].banner <= slots.pin) PROVE slots.pin < Newest
      <4>1. PICK b \in Vers, v \in Vers : b = disk[p].banner /\ v = slots.pin
        BY <2>1, <2>3
      <4> QED BY <3>2, <4>1, UpgradeAssumption DEF Vers
    <3> QED BY <3>1, <3>2
  <2>7. slots.names # 0
    BY <2>1 DEF UpInv, PinOK
  <2>8. slots.names \in {0, 2, 3}
    BY SlotFields DEF UpInv, RunOK
  <2> QED BY <2>1, <2>5, <2>6, <2>7, <2>8
<1> QED BY <1>1, <1>2, <1>3

\* The version that a banner reaches when legs from v have come to l.
Ladder(b, v, l) == IF b >= v /\ b < l THEN l ELSE b
\* How far a file at place i has been carried, in a run and after it.
Level(i) == IF pc = "idle" THEN Newest ELSE IF i < at THEN leg + 1 ELSE leg
Moving == pc \in {"visit", "open", "write"}
Emptied == pc = "write" /\ at = 1
Rewriting == pc \in {"open", "write"} /\ at = 1

OrchAt(d) == d["orch auth-log"] # Nothing \/ d["dispatch-log"] # Nothing
GreenAt(d, s) ==
  /\ s.profile = IF OrchAt(d) THEN "3agent" ELSE "2agent"
  /\ OrchAt(d) => \A p \in OrchSet : d[p] # Nothing
  /\ \A p \in {"INDEX", "orch auth-log", "seats auth-log"} :
       d[p] # Nothing => d[p].banner \in Vers /\ d[p].banner <= s.pin
  /\ s.names = IF OrchAt(d) THEN 3 ELSE 2
SameFiles(d, e) == \A p \in PathSet : d[p] # Nothing => e[p] # Nothing

\* What a run of migrate, or one that has answered, started from.
BeganOK ==
  Moving \/ said = "migrated" =>
    /\ began.disk \in [PathSet -> FileSet] /\ began.slots \in SlotSet /\ began.slots.pin \in Vers
    /\ Moving => began.slots.pin <= leg
    /\ \A p \in PathSet : began.disk[p] # Nothing =>
         disk[p] # Nothing /\ (p \in KeptSet => disk[p].banner = began.disk[p].banner)
    /\ began.green => GreenAt(began.disk, began.slots)
SlotsAs(s) ==
  /\ s.pin \in Vers /\ began.slots.pin <= s.pin /\ (began.slots.noted => s.noted)
  /\ began.green /\ SameFiles(disk, began.disk) =>
       s.profile = began.slots.profile /\ s.names = began.slots.names
SlotOK ==
  Moving \/ said = "migrated" =>
    (~Emptied => SlotsAs(slots)) /\ (Rewriting => SlotsAs(new.slots))
\* A run that writes has carried the files behind it that it could read one version
\* further.
CarryOK ==
  (Moving /\ ~dry) \/ said = "migrated" =>
    /\ \A i \in {1, 2, 7} : began.disk[Ord[i]] # Nothing /\ Ord[i] \notin unread =>
         /\ ~(pc = "write" /\ i = at) =>
              disk[Ord[i]].banner = Ladder(began.disk[Ord[i]].banner, began.slots.pin, Level(i))
         /\ pc \in {"open", "write"} /\ i = at =>
              new.file.banner = Ladder(began.disk[Ord[i]].banner, began.slots.pin, leg + 1)
    /\ "BINDINGS" \notin unread =>
         /\ ~Emptied /\ ~slots.noted => slots.pin = Level(1)
         /\ Rewriting /\ ~new.slots.noted => new.slots.pin = leg + 1
MoveInv == BeganOK /\ SlotOK /\ CarryOK

\* What a preview would show of a file.
Shown(p) == IF p \in DOMAIN pending THEN pending[p]
            ELSE Result(disk[p], IF p = "BINDINGS" THEN slots ELSE NoRows)
DryFacts ==
  /\ \A p \in DOMAIN pending : p \notin KeptSet
  /\ \A i \in {1, 2, 7} : began.disk[Ord[i]] # Nothing /\ Ord[i] \notin unread =>
       Shown(Ord[i]).file.banner = Ladder(began.disk[Ord[i]].banner, began.slots.pin, Level(i))
  /\ "BINDINGS" \notin unread /\ ~slots.noted =>
       ~Shown("BINDINGS").slots.noted /\ Shown("BINDINGS").slots.pin = Level(1)
DryOK == pc = "visit" /\ dry => DryFacts
\* What a preview shows, of the files it could read.
PreviewFiles(f, t, u) ==
  /\ f.disk \in [PathSet -> FileSet] /\ f.slots.pin \in Vers
  /\ \A p \in KeptSet : f.disk[p] # Nothing => t[p].file.banner = f.disk[p].banner
  /\ \A i \in {1, 2, 7} : f.disk[Ord[i]] # Nothing /\ Ord[i] \notin u =>
       t[Ord[i]].file.banner = Ladder(f.disk[Ord[i]].banner, f.slots.pin, Newest)
\* The preview has shown the newest version pinned, unless there are words beside the
\* pin, and they do not go away again.
NotBehind(s, t, u) == s.pin \in Vers => s.noted \/ "BINDINGS" \in u \/ t["BINDINGS"].slots.pin = Newest
Promised(f, t, u) ==
  /\ \A p \in PathSet : f.disk[p] # Nothing => disk[p] # Nothing
  /\ NotBehind(slots, t, u) /\ (Rewriting => NotBehind(new.slots, t, u))
Carrying == (Moving /\ ~dry) \/ said = "migrated"
BeganAfter(f) == Carrying => \A p \in PathSet : f.disk[p] # Nothing => began.disk[p] # Nothing
PreviewOK ==
  preview # <<>> =>
    /\ PreviewFiles(preview.from, preview.to, preview.unread)
    /\ Promised(preview.from, preview.to, preview.unread)
    /\ BeganAfter(preview.from)

LEMMA Unrecorded == \A i \in {1, 2, 7} : i \in 1 .. 7 /\ Ord[i] \in PathSet /\ Ord[i] \notin KeptSet
<1>1. \A i \in {1, 2, 7} : i \in 1 .. 7
  OBVIOUS
<1> QED BY <1>1, Places

LEMMA Climbs ==
  ASSUME NEW b \in Bann, NEW v \in Vers, NEW l \in 0 .. Newest - 1, v <= l
  PROVE  /\ Ladder(b, v, v) = b
         /\ Ladder(b, v, l + 1) = IF Ladder(b, v, l) = l THEN l + 1 ELSE Ladder(b, v, l)
         /\ Ladder(b, v, l) = Newest + 1 => b = Newest + 1
BY UpgradeAssumption DEF Ladder, Bann, Vers

LEMMA AtTheTop ==
  ASSUME NEW b \in Bann, NEW v \in Vers
  PROVE  /\ b \in Vers => Ladder(b, v, Newest) = IF b >= v THEN Newest ELSE b
         /\ b = Newest + 1 => Ladder(b, v, Newest) = b
BY UpgradeAssumption DEF Ladder, Bann, Vers

\* A step onward: what was behind stays one version further, and so does this place.
LEMMA OnwardLevels ==
  ASSUME UpInv, Upgrade!Onward, pc # "idle"
  PROVE  /\ \A i \in 1 .. 7 : Level(i)' = IF i <= at THEN leg + 1 ELSE leg
         /\ \A i \in 1 .. 7 : i # at => Level(i)' = Level(i)
         /\ leg <= leg' /\ pc' \in {"idle", "visit"} /\ ~Rewriting' /\ ~Emptied'
         /\ said' = "migrated" => ~dry
         /\ pc' = "visit" => said' = ""
         /\ pc' = "idle" => said' # ""
<1>1. at \in 1 .. 7 /\ leg \in 0 .. Newest - 1 /\ Newest \in Nat
  BY UpgradeAssumption DEF UpInv, RunOK
<1>2. Upgrade!Final <=> at = 7 /\ leg + 1 = Newest
  BY PathNames, Places DEF Upgrade!Final
<1>3. /\ at' = IF at = 7 THEN 1 ELSE at + 1
      /\ leg' = IF at = 7 /\ ~Upgrade!Final THEN leg + 1 ELSE leg
      /\ pc' = IF Upgrade!Final THEN "idle" ELSE "visit"
      /\ said' = IF ~Upgrade!Final THEN "" ELSE IF dry THEN "dry-run" ELSE "migrated"
  BY PathNames, Places DEF Upgrade!Onward
<1>4. \A i \in 1 .. 7 : Level(i)' = IF i <= at THEN leg + 1 ELSE leg
  <2>1. CASE Upgrade!Final
    BY <1>1, <1>2, <1>3, <2>1 DEF Level
  <2>2. CASE ~Upgrade!Final
    <3>1. pc' # "idle"
      BY <1>3, <2>2
    <3>2. \A i \in 1 .. 7 : Level(i)' = IF i < at' THEN leg' + 1 ELSE leg'
      BY <3>1 DEF Level
    <3>3. at' = (IF at = 7 THEN 1 ELSE at + 1) /\ leg' = (IF at = 7 THEN leg + 1 ELSE leg)
      BY <1>3, <2>2
    <3> QED BY <1>1, <3>2, <3>3
  <2> QED BY <2>1, <2>2
<1>5. \A i \in 1 .. 7 : i # at => Level(i)' = Level(i)
  BY <1>1, <1>4 DEF Level
<1>6. leg <= leg' /\ pc' \in {"idle", "visit"}
  <2>1. leg' \in {leg, leg + 1} /\ pc' \in {"idle", "visit"}
    BY <1>3
  <2> QED BY <1>1, <2>1
<1>7. said' = "migrated" => ~dry
  BY <1>3
<1>8. (pc' = "visit" => said' = "") /\ (pc' = "idle" => said' # "")
  BY <1>3
<1> QED BY <1>1, <1>4, <1>5, <1>6, <1>7, <1>8 DEF Rewriting, Emptied

LEMMA MoveStart == Upgrade!Init => MoveInv
<1> SUFFICES ASSUME Upgrade!Init PROVE MoveInv
  OBVIOUS
<1>1. pc = "idle" /\ said = ""
  BY DEF Upgrade!Init
<1> QED BY <1>1 DEF MoveInv, BeganOK, SlotOK, CarryOK, Moving

\* Outside a run of migrate there is nothing to show.
LEMMA MoveVacuous == ASSUME ~Moving, said # "migrated" PROVE MoveInv
BY DEF MoveInv, BeganOK, SlotOK, CarryOK, Moving

LEMMA MoveRowAdded == ASSUME UpInv, MoveInv, NEW p, Upgrade!AddRow(p) PROVE MoveInv'
<1>1. /\ \A q \in PathSet : (disk'[q] = Nothing <=> disk[q] = Nothing) /\ disk'[q].banner = disk[q].banner
      /\ UNCHANGED <<slots, pc, dry, leg, at, new, pending, unread, todo, said, began, preview>>
  BY RowAdded
<1>2. BeganOK'
  BY <1>1, PathNames DEF MoveInv, BeganOK, Moving
<1>3. SameFiles(disk, began.disk) <=> SameFiles(disk', began'.disk)
  BY <1>1 DEF SameFiles
<1>4. SlotOK'
  BY <1>1, <1>3 DEF MoveInv, SlotOK, SlotsAs, Moving, Emptied, Rewriting
<1>5. \A i \in {1, 2, 7} : disk'[Ord[i]].banner = disk[Ord[i]].banner /\ Level(i)' = Level(i)
  BY <1>1, Unrecorded DEF Level
<1>6. CarryOK'
  BY <1>1, <1>5 DEF MoveInv, CarryOK, Moving, Emptied, Rewriting, Level
<1> QED BY <1>2, <1>4, <1>6 DEF MoveInv

LEMMA MoveCreated == ASSUME UpInv, MoveInv, NEW p, Upgrade!Create(p) PROVE MoveInv'
<1>1. /\ p \in PathSet /\ disk[p] = Nothing /\ disk'[p] # Nothing /\ said' = ""
      /\ \A q \in PathSet : q # p => disk'[q] = disk[q]
      /\ UNCHANGED <<slots, pc, dry, leg, at, new, pending, unread, todo, began, preview>>
  BY FileCreated
<1>2. CASE ~Moving
  <2>1. ~Moving' /\ said' # "migrated"
    BY <1>1, <1>2 DEF Moving
  <2> QED BY <2>1 DEF MoveInv, BeganOK, SlotOK, CarryOK, Moving
<1>3. CASE Moving
  <2>1. began.disk[p] = Nothing
    BY <1>1, <1>3 DEF MoveInv, BeganOK
  <2>2. BeganOK'
    BY <1>1, <1>3, <2>1 DEF MoveInv, BeganOK, Moving
  <2>3. ~SameFiles(disk', began'.disk)
    BY <1>1, <2>1 DEF SameFiles
  <2>4. SlotOK'
    BY <1>1, <1>3, <2>3 DEF MoveInv, SlotOK, SlotsAs, Moving, Emptied, Rewriting
  <2>5. \A i \in {1, 2, 7} : began.disk[Ord[i]] # Nothing => disk'[Ord[i]] = disk[Ord[i]]
    BY <1>1, <2>1, Unrecorded
  <2>6. \A i \in {1, 2, 7} : Level(i)' = Level(i)
    BY <1>1 DEF Level
  <2>7. CarryOK'
    BY <1>1, <1>3, <2>5, <2>6 DEF MoveInv, CarryOK, Moving, Emptied, Rewriting
  <2> QED BY <2>2, <2>4, <2>7 DEF MoveInv
<1> QED BY <1>2, <1>3

LEMMA MoveEdited == ASSUME UpInv, MoveInv, Upgrade!Flip \/ Upgrade!Annotate PROVE MoveInv'
<1>1. /\ slots'.pin = slots.pin /\ slots'.noted \in {slots.noted, TRUE}
      /\ \/ slots'.profile = slots.profile /\ slots'.names = slots.names
         \/ slots.profile = "2agent" /\ Upgrade!OrchRole
      /\ UNCHANGED <<disk, pc, dry, leg, at, new, pending, unread, todo, said, began, preview, born, written,
                     appends, raced, runs, crashes>>
  BY SlotsEdited
<1>2. BeganOK'
  BY <1>1 DEF MoveInv, BeganOK, Moving
<1>3. SlotOK'
  <2> SUFFICES ASSUME Moving \/ said = "migrated" PROVE SlotOK'
    BY <1>1 DEF SlotOK, Moving
  <2>1. ASSUME ~Emptied, began.green, SameFiles(disk, began.disk)
        PROVE  slots'.profile = began.slots.profile /\ slots'.names = began.slots.names
    <3>1. slots.profile = began.slots.profile /\ slots.names = began.slots.names
      BY <2>1 DEF MoveInv, SlotOK, SlotsAs
    <3>2. GreenAt(began.disk, began.slots)
      BY <2>1 DEF MoveInv, BeganOK
    <3>3. Upgrade!OrchRole => OrchAt(began.disk)
      BY <2>1, HereIs DEF Upgrade!OrchRole, OrchAt, SameFiles, PathSet
    <3> QED BY <1>1, <3>1, <3>2, <3>3 DEF GreenAt
  <2>2. ~Emptied => slots'.pin \in Vers /\ began.slots.pin <= slots'.pin /\ (began.slots.noted => slots'.noted)
    BY <1>1 DEF MoveInv, SlotOK, SlotsAs
  <2> QED BY <1>1, <2>1, <2>2 DEF MoveInv, SlotOK, SlotsAs, Moving, Emptied, Rewriting, SameFiles
<1>4. \A i \in {1, 2, 7} : Level(i)' = Level(i)
  BY <1>1 DEF Level
<1>5. CarryOK'
  <2>1. ~slots'.noted => ~slots.noted
    <3>1. slots.noted \in BOOLEAN
      BY SlotFields DEF UpInv, RunOK
    <3> QED BY <1>1, <3>1
  <2> QED BY <1>1, <1>4, <2>1 DEF MoveInv, CarryOK, Moving, Emptied, Rewriting
<1> QED BY <1>2, <1>3, <1>5 DEF MoveInv

LEMMA MoveScale == ASSUME UpInv, MoveInv, Upgrade!Scale \/ Upgrade!Crash PROVE MoveInv'
<1>1. /\ pc' \in {"idle", "scale", "fill"}
      /\ said' \in {"not a workspace", "present", "scaled", "", "died"} \/ (said' = said /\ pc \in {"scale"})
  BY DEF Upgrade!Scale, Upgrade!StartScale, Upgrade!Start, Upgrade!Copy, Upgrade!FillCopy, Upgrade!Crash
<1>2. pc = "scale" => said # "migrated"
  BY DEF UpInv, RunOK
<1>3. ~Moving' /\ said' # "migrated"
  BY <1>1, <1>2 DEF Moving
<1> QED BY <1>3 DEF MoveInv, BeganOK, SlotOK, CarryOK, Moving

Begun(d, s, g) == [disk |-> d, slots |-> s, green |-> g]

LEMMA GreenNow == UpInv /\ Upgrade!Green => GreenAt(disk, slots)
<1> SUFFICES ASSUME UpInv, Upgrade!Green PROVE GreenAt(disk, slots)
  OBVIOUS
<1>1. Upgrade!OrchRole <=> OrchAt(disk)
  BY HereIs DEF Upgrade!OrchRole, OrchAt
<1>2. slots.profile = IF OrchAt(disk) THEN "3agent" ELSE "2agent"
  BY <1>1 DEF Upgrade!Green, Upgrade!Blocked
<1>3. OrchAt(disk) => \A p \in OrchSet : disk[p] # Nothing
  BY <1>1, PathNames, HereIs DEF Upgrade!Green, Upgrade!Blocked, Upgrade!Required
<1>4. \A p \in {"INDEX", "orch auth-log", "seats auth-log"} :
        disk[p] # Nothing => disk[p].banner \in Vers /\ disk[p].banner <= slots.pin
  BY HereIs, DataNames DEF Upgrade!Green, Upgrade!Warned, Upgrade!StampOk
<1>5. slots.names = IF OrchAt(disk) THEN 3 ELSE 2
  BY <1>1 DEF Upgrade!Green, Upgrade!Warned
<1> QED BY <1>2, <1>3, <1>4, <1>5 DEF GreenAt

LEMMA MoveStarted ==
  ASSUME UpInv, MoveInv, Upgrade!StartMigrate
  PROVE  /\ MoveInv'
         /\ Moving' => /\ pc' = "visit" /\ pending' = <<>> /\ at' = 1 /\ leg' = slots.pin /\ slots.pin \in Vers
                       /\ leg' \in 0 .. Newest - 1 /\ began'.disk = disk /\ began'.slots = slots
                       /\ unread' = {}
         /\ UNCHANGED <<disk, slots, todo, preview>> /\ pc = "idle" /\ said' # "migrated" /\ pc' \in {"idle", "visit"}
<1>1. /\ pc = "idle" /\ UNCHANGED <<disk, slots, new, todo, preview>>
      /\ began' = Begun(disk, slots, Upgrade!Green)
  BY RunsCounted DEF Upgrade!StartMigrate, Upgrade!Start, Upgrade!workspace, Begun
<1>2. \/ pc' = "idle" /\ said' \in {"unsupported", "already"}
      \/ /\ pc' = "visit" /\ said' = "" /\ leg' = slots.pin /\ at' = 1 /\ pending' = <<>>
         /\ Upgrade!Chain # {} /\ unread' = {}
  BY <1>1 DEF Upgrade!StartMigrate
<1>3. CASE pc' = "idle"
  <2>1. ~Moving' /\ said' # "migrated"
    BY <1>2, <1>3 DEF Moving
  <2> QED BY <1>1, <1>3, <2>1 DEF MoveInv, BeganOK, SlotOK, CarryOK, Moving
<1>4. CASE pc' = "visit"
  <2>1. said' = "" /\ leg' = slots.pin /\ at' = 1 /\ Upgrade!Chain # {} /\ pending' = <<>> /\ unread' = {}
    BY <1>2, <1>4
  <2>2. slots \in SlotSet /\ slots.pin \in Bann /\ slots.noted \in BOOLEAN /\ disk \in [PathSet -> FileSet]
    BY SlotFields DEF UpInv, RunOK, TreeOK
  <2>3. slots.pin \in Vers /\ slots.pin \in 0 .. Newest - 1
    <3>1. PICK v \in Bann : v = slots.pin
      BY <2>2
    <3>2. (IF v = Newest + 1 THEN {} ELSE v .. (Newest - 1)) # {}
      BY <2>1, <3>1, DataNames DEF Upgrade!Chain
    <3>3. v \in 0 .. Newest - 1 /\ v \in Vers
      BY <3>2, UpgradeAssumption DEF Bann, Vers
    <3> QED BY <3>1, <3>3
  <2>4. began'.disk = disk /\ began'.slots = slots /\ began'.green = Upgrade!Green
    BY <1>1 DEF Begun
  <2>5. BeganOK'
    <3>1. began'.slots.pin <= leg'
      <4>1. PICK v \in 0 .. Newest - 1 : v = slots.pin
        BY <2>3
      <4>2. v <= v
        OBVIOUS
      <4> QED BY <2>1, <2>4, <4>1, <4>2
    <3>2. began'.green => GreenAt(began'.disk, began'.slots)
      BY <2>4, GreenNow
    <3> QED BY <1>1, <2>2, <2>3, <2>4, <3>1, <3>2 DEF BeganOK
  <2>6. ~Rewriting' /\ ~Emptied'
    BY <1>4 DEF Rewriting, Emptied
  <2>7. SlotOK'
    <3>1. began'.slots.pin <= slots'.pin
      <4>1. PICK v \in 0 .. Newest - 1 : v = slots.pin
        BY <2>3
      <4>2. v <= v
        OBVIOUS
      <4> QED BY <1>1, <2>4, <4>1, <4>2
    <3> QED BY <1>1, <2>2, <2>3, <2>4, <2>6, <3>1 DEF SlotOK, SlotsAs
  <2>8. \A i \in {1, 2, 7} : Level(i)' = slots.pin
    <3>1. \A i \in {1, 2, 7} : ~(i < 1)
      OBVIOUS
    <3> QED BY <1>4, <2>1, <3>1 DEF Level
  <2>9. ASSUME NEW i \in {1, 2, 7} PROVE disk[Ord[i]].banner = Ladder(disk[Ord[i]].banner, slots.pin, slots.pin)
    <3>1. disk[Ord[i]].banner \in Bann
      BY <2>2, Unrecorded, FilesAreRows
    <3> QED BY <2>3, <3>1, Climbs DEF Vers
  <2>10. CarryOK'
    BY <1>1, <1>4, <2>1, <2>4, <2>6, <2>8, <2>9 DEF CarryOK
  <2> QED BY <1>1, <1>4, <2>1, <2>3, <2>4, <2>5, <2>7, <2>10 DEF MoveInv
<1> QED BY <1>2, <1>3, <1>4

\* A file that a run finds at its version is planned for the next, and no other.
LEMMA PlannedAt ==
  ASSUME UpInv, ~dry
  PROVE  /\ Ord[at] \in PathSet /\ at \in 1 .. 7 /\ leg \in 0 .. Newest - 1
         /\ Upgrade!Planned(Upgrade!Read(Ord[at])).file.banner =
              IF disk[Ord[at]].banner = leg THEN leg + 1 ELSE disk[Ord[at]].banner
         /\ at = 1 => LET s == Upgrade!Planned(Upgrade!Read(Ord[at])).slots IN
              /\ s.pin = IF slots.pin = leg /\ ~slots.noted THEN leg + 1 ELSE slots.pin
              /\ s.noted = slots.noted /\ s.profile = slots.profile /\ s.names = slots.names
         /\ Upgrade!Read(Ord[at]).file.banner = disk[Ord[at]].banner
         /\ at = 1 => Upgrade!Read(Ord[at]).slots = slots
<1>1. Ord[at] \in PathSet /\ at \in 1 .. 7 /\ leg \in 0 .. Newest - 1 /\ (Ord[at] = "BINDINGS" <=> at = 1)
  BY Places DEF UpInv, RunOK
<1>2. PICK r \in ResultSet : /\ r = Upgrade!Read(Ord[at]) /\ r.file = disk[Ord[at]]
                             /\ r.slots = IF at = 1 THEN slots ELSE NoRows
  BY <1>1, ReadIs DEF Result
<1>3. PICK s : s = Upgrade!Planned(r)
  OBVIOUS
<1>4. /\ s.file = Row(IF r.file.banner = leg THEN leg + 1 ELSE r.file.banner, r.file.rows)
      /\ s.slots = [pin |-> IF r.slots.pin = leg /\ ~r.slots.noted THEN leg + 1 ELSE r.slots.pin,
                    noted |-> r.slots.noted, profile |-> r.slots.profile, names |-> r.slots.names]
  BY <1>1, <1>3, PlannedIs
<1>5. s.file.banner = IF r.file.banner = leg THEN leg + 1 ELSE r.file.banner
  BY <1>4, RowFields
<1>6. /\ s.slots.pin = IF r.slots.pin = leg /\ ~r.slots.noted THEN leg + 1 ELSE r.slots.pin
      /\ s.slots.noted = r.slots.noted /\ s.slots.profile = r.slots.profile /\ s.slots.names = r.slots.names
  BY <1>4
<1> QED BY <1>1, <1>2, <1>3, <1>5, <1>6

\* A file that is left alone has nothing at the version of this leg.
LEMMA LeftAlone ==
  ASSUME UpInv, MoveInv, ~dry, Moving, Upgrade!Untouched(Ord[at]), pc = "visit"
  PROVE  /\ disk[Ord[at]] # Nothing /\ at \in {1, 2, 7} => disk[Ord[at]].banner # leg
         /\ at = 1 /\ "BINDINGS" \notin unread => slots.noted
<1>1. Ord[at] \in PathSet /\ at \in 1 .. 7 /\ leg \in 0 .. Newest - 1
  BY PlannedAt
<1>2. at = 1 => disk[Ord[at]] # Nothing
  <2>1. at = 1 => Ord[at] = "BINDINGS" /\ "BINDINGS" \notin OrchSet
    <3>1. 1 \in 1 .. 7
      OBVIOUS
    <3> QED BY <3>1, Places DEF OrchSet
  <2> QED BY <1>1, <2>1 DEF UpInv, TreeOK
<1>3. at \in {1, 2, 7} /\ disk[Ord[at]] # Nothing => Upgrade!Planned(Upgrade!Read(Ord[at])) = Upgrade!Read(Ord[at])
  BY Unrecorded, PathNames, HereIs DEF Upgrade!Untouched, Upgrade!IsRecord
<1>4. leg + 1 # leg
  BY <1>1
<1>5. at \in {1, 2, 7} /\ disk[Ord[at]] # Nothing => disk[Ord[at]].banner # leg
  BY <1>3, <1>4, PlannedAt
<1>6. at = 1 /\ "BINDINGS" \notin unread => slots.noted
  <2> SUFFICES ASSUME at = 1, "BINDINGS" \notin unread, ~slots.noted PROVE FALSE
    OBVIOUS
  <2>1. slots.pin = leg
    <3>1. Level(1) = leg
      BY <1>1 DEF Level, Moving
    <3> QED BY <3>1 DEF MoveInv, CarryOK, Emptied
  <2>2. slots.pin = leg + 1
    BY <1>2, <1>3, <2>1, PlannedAt
  <2> QED BY <1>4, <2>1, <2>2
<1> QED BY <1>5, <1>6

LEMMA MoveVisited == ASSUME UpInv, MoveInv, Upgrade!Pass \/ Upgrade!Preview PROVE MoveInv'
<1>1. /\ pc = "visit" /\ Upgrade!Onward
      /\ unread \subseteq unread' /\ (Upgrade!Untouched(Ord[at]) \/ dry \/ Ord[at] \in unread')
      /\ UNCHANGED <<disk, slots, dry, new, todo, began, born, written, appends, raced, runs, crashes>>
  BY Visited
<1>2. /\ \A i \in 1 .. 7 : Level(i)' = IF i <= at THEN leg + 1 ELSE leg
      /\ \A i \in 1 .. 7 : i # at => Level(i)' = Level(i)
      /\ leg <= leg' /\ pc' \in {"idle", "visit"} /\ ~Rewriting' /\ ~Emptied'
      /\ said' = "migrated" => ~dry
      /\ pc' = "visit" => said' = ""
      /\ pc' = "idle" => said' # ""
  BY <1>1, OnwardLevels
<1>3. Moving /\ ~Emptied /\ at \in 1 .. 7 /\ leg \in 0 .. Newest - 1 /\ leg' \in 0 .. Newest - 1
  BY <1>1, Visited DEF Moving, Emptied, UpInv, RunOK
<1>4. BeganOK'
  <2>1. began.slots.pin <= leg /\ began.slots.pin \in Vers
    BY <1>3 DEF MoveInv, BeganOK
  <2>2. began.slots.pin <= leg'
    <3>1. leg <= leg' /\ leg \in 0 .. Newest - 1 /\ leg' \in 0 .. Newest - 1
      BY <1>2, <1>3
    <3>2. \A v \in Vers : v <= leg => v <= leg'
      BY <3>1, UpgradeAssumption DEF Vers
    <3> QED BY <2>1, <3>2
  <2> QED BY <1>1, <1>3, <2>2 DEF MoveInv, BeganOK
<1>5. SlotOK'
  BY <1>1, <1>2, <1>3 DEF MoveInv, SlotOK, SlotsAs
<1>6. CarryOK'
  <2> SUFFICES ASSUME ~dry PROVE CarryOK'
    BY <1>1, <1>2 DEF CarryOK, Moving
  <2>2. Ord[at] \notin unread' =>
          /\ disk[Ord[at]] # Nothing /\ at \in {1, 2, 7} => disk[Ord[at]].banner # leg
          /\ at = 1 /\ "BINDINGS" \notin unread => slots.noted
    BY <1>1, <1>3, LeftAlone
  <2>3. ASSUME NEW i \in {1, 2, 7}, began.disk[Ord[i]] # Nothing, Ord[i] \notin unread'
        PROVE  disk[Ord[i]].banner = Ladder(began.disk[Ord[i]].banner, began.slots.pin, Level(i)')
    <3>1. disk[Ord[i]].banner = Ladder(began.disk[Ord[i]].banner, began.slots.pin, Level(i))
      BY <1>1, <1>3, <2>3 DEF MoveInv, CarryOK
    <3>2. CASE i # at
      BY <1>2, <3>1, <3>2, Unrecorded
    <3>3. CASE i = at
      <4>1. Level(i) = leg /\ Level(i)' = leg + 1
        <5>1. ~(i < at) /\ i <= at /\ i \in 1 .. 7
          BY <1>3, <3>3
        <5> QED BY <1>1, <1>2, <5>1 DEF Level
      <4>2. disk[Ord[i]].banner # leg
        BY <1>3, <2>2, <2>3, <3>3, Unrecorded DEF MoveInv, BeganOK
      <4>3. /\ began.disk[Ord[i]].banner \in Bann /\ began.slots.pin \in Vers /\ began.slots.pin <= leg
        BY <1>3, Unrecorded, FilesAreRows DEF MoveInv, BeganOK
      <4> QED BY <1>3, <3>1, <4>1, <4>2, <4>3, Climbs
    <3> QED BY <3>2, <3>3
  <2>4. "BINDINGS" \notin unread' /\ ~slots.noted => slots.pin = Level(1)'
    <3>2. 1 \in 1 .. 7
      OBVIOUS
    <3>1. "BINDINGS" \notin unread' /\ ~slots.noted => slots.pin = Level(1) /\ at # 1
      BY <1>1, <1>3, <2>2, <3>2, Places DEF MoveInv, CarryOK
    <3> QED BY <1>2, <3>1, <3>2
  <2>5. pc' \notin {"open", "write"}
    BY <1>2
  <2> QED BY <1>1, <1>2, <2>3, <2>4, <2>5 DEF CarryOK
<1> QED BY <1>4, <1>5, <1>6 DEF MoveInv

LEMMA MovePlanned == ASSUME UpInv, MoveInv, Upgrade!Plan PROVE MoveInv'
<1>1. /\ pc = "visit" /\ ~dry /\ pc' = "open" /\ new' = Upgrade!Planned(Upgrade!Read(Ord[at]))
      /\ UNCHANGED <<disk, slots, dry, leg, at, pending, unread, todo, said, began, preview>>
  BY PathNames DEF Upgrade!Plan, Upgrade!workspace, Upgrade!history
<1>2. Moving /\ Moving' /\ ~Emptied /\ ~Emptied' /\ (Rewriting' <=> at = 1)
  BY <1>1 DEF Moving, Emptied, Rewriting
<1>3. /\ Ord[at] \in PathSet /\ at \in 1 .. 7 /\ leg \in 0 .. Newest - 1
      /\ new'.file.banner = IF disk[Ord[at]].banner = leg THEN leg + 1 ELSE disk[Ord[at]].banner
      /\ at = 1 => /\ new'.slots.pin = IF slots.pin = leg /\ ~slots.noted THEN leg + 1 ELSE slots.pin
                   /\ new'.slots.noted = slots.noted /\ new'.slots.profile = slots.profile
                   /\ new'.slots.names = slots.names
  BY <1>1, PlannedAt
<1>4. \A i \in 1 .. 7 : Level(i)' = Level(i)
  BY <1>1 DEF Level
<1>5. BeganOK'
  BY <1>1, <1>2 DEF MoveInv, BeganOK
<1>6. SlotOK'
  <2>1. SlotsAs(slots)
    BY <1>2 DEF MoveInv, SlotOK
  <2>2. leg + 1 \in Vers /\ began.slots.pin <= leg + 1
    <3>1. began.slots.pin \in Vers /\ began.slots.pin <= leg
      BY <1>2 DEF MoveInv, BeganOK
    <3>2. \A v \in Vers : v <= leg => v <= leg + 1
      BY <1>3 DEF Vers
    <3> QED BY <1>3, <3>1, <3>2, UpgradeAssumption DEF Vers
  <2>3. at = 1 => SlotsAs(new'.slots)
    BY <1>3, <2>1, <2>2 DEF SlotsAs
  <2> QED BY <1>1, <1>2, <2>1, <2>3 DEF SlotOK, SlotsAs
<1>7. CarryOK'
  <2>1. ASSUME NEW i \in {1, 2, 7}, began.disk[Ord[i]] # Nothing, Ord[i] \notin unread
        PROVE  /\ disk[Ord[i]].banner = Ladder(began.disk[Ord[i]].banner, began.slots.pin, Level(i))
               /\ i = at => new'.file.banner = Ladder(began.disk[Ord[i]].banner, began.slots.pin, leg + 1)
    <3>1. disk[Ord[i]].banner = Ladder(began.disk[Ord[i]].banner, began.slots.pin, Level(i))
      BY <1>1, <1>2, <2>1 DEF MoveInv, CarryOK
    <3>2. i = at => Level(i) = leg
      BY <1>1, <1>3 DEF Level
    <3>3. /\ began.disk[Ord[i]].banner \in Bann /\ began.slots.pin \in Vers /\ began.slots.pin <= leg
      BY <1>2, Unrecorded, FilesAreRows DEF MoveInv, BeganOK
    <3> QED BY <1>3, <3>1, <3>2, <3>3, Climbs
  <2>2. "BINDINGS" \notin unread /\ ~slots.noted => slots.pin = Level(1)
    BY <1>1, <1>2 DEF MoveInv, CarryOK
  <2>3. "BINDINGS" \notin unread /\ at = 1 /\ ~new'.slots.noted => new'.slots.pin = leg + 1
    <3>1. at = 1 => Level(1) = leg
      BY <1>1, <1>3 DEF Level
    <3> QED BY <1>3, <2>2, <3>1
  <2>4. \A i \in {1, 2, 7} : Level(i)' = Level(i) /\ Level(1)' = Level(1)
    BY <1>4
  <2> QED BY <1>1, <1>2, <2>1, <2>2, <2>3, <2>4 DEF CarryOK
<1> QED BY <1>5, <1>6, <1>7 DEF MoveInv

LEMMA MoveOpened == ASSUME UpInv, MoveInv, Upgrade!Open PROVE MoveInv'
<1>1. /\ pc = "open" /\ pc' = "write"
      /\ UNCHANGED <<dry, leg, at, new, pending, unread, todo, said, began, preview>>
  BY DEF Upgrade!Open, Upgrade!run, Upgrade!history
<1>2. PICK p \in PathSet : p = Ord[at] /\ p \notin KeptSet /\ at \in 1 .. 7
  BY <1>1, WriteFacts, Places
<1>3. disk' = [disk EXCEPT ![p] = Void] /\ slots' = IF at = 1 THEN NoRows ELSE slots
  BY <1>2, PathNames, Places, DataNames DEF Upgrade!Open, Upgrade!NoSlots, NoRows
<1>4. disk[p] # Nothing /\ disk'[p] = Void /\ \A q \in PathSet : q # p => disk'[q] = disk[q]
  <2>1. disk[p] # Nothing
    BY <1>1, <1>2, WriteFacts
  <2> QED BY <1>3, <2>1, SomeFiles, OneEntry DEF UpInv, TreeOK
<1>5. Moving /\ Moving' /\ ~Emptied /\ (Emptied' <=> at = 1) /\ (Rewriting' <=> at = 1) /\ (Rewriting <=> at = 1)
  BY <1>1 DEF Moving, Emptied, Rewriting
<1>6. \A i \in 1 .. 7 : Level(i)' = Level(i)
  BY <1>1 DEF Level
<1>7. BeganOK'
  BY <1>1, <1>2, <1>4, <1>5, SomeFiles, PathNames DEF MoveInv, BeganOK
<1>8. SlotOK'
  <2>1. SameFiles(disk, began.disk) <=> SameFiles(disk', began'.disk)
    <3>1. \A q \in PathSet : disk'[q] = Nothing <=> disk[q] = Nothing
      BY <1>4, SomeFiles
    <3> QED BY <1>1, <3>1 DEF SameFiles
  <2> QED BY <1>1, <1>3, <1>5, <2>1 DEF MoveInv, SlotOK, SlotsAs
<1>9. CarryOK'
  <2>1. ASSUME NEW i \in {1, 2, 7}, i # at PROVE disk'[Ord[i]] = disk[Ord[i]]
    <3>1. Ord[i] # p
      BY <1>2, <2>1, Unrecorded, Places
    <3> QED BY <1>4, <3>1, Unrecorded
  <2>2. \A i \in {1, 2, 7} : Level(i)' = Level(i) /\ Level(1)' = Level(1)
    BY <1>6
  <2>3. ~dry
    BY <1>1, WriteFacts
  <2>4. /\ \A i \in {1, 2, 7} : began.disk[Ord[i]] # Nothing /\ Ord[i] \notin unread =>
             /\ disk[Ord[i]].banner = Ladder(began.disk[Ord[i]].banner, began.slots.pin, Level(i))
             /\ i = at => new.file.banner = Ladder(began.disk[Ord[i]].banner, began.slots.pin, leg + 1)
        /\ "BINDINGS" \notin unread /\ ~slots.noted => slots.pin = Level(1)
        /\ "BINDINGS" \notin unread /\ at = 1 /\ ~new.slots.noted => new.slots.pin = leg + 1
    BY <1>1, <1>5, <2>3 DEF MoveInv, CarryOK
  <2> QED BY <1>1, <1>3, <1>5, <2>1, <2>2, <2>4 DEF CarryOK
<1> QED BY <1>7, <1>8, <1>9 DEF MoveInv

LEMMA MoveWritten == ASSUME UpInv, MoveInv, Upgrade!Write PROVE MoveInv'
<1>1. /\ pc = "write" /\ Upgrade!Onward
      /\ UNCHANGED <<dry, new, pending, unread, todo, began, preview>>
  BY DEF Upgrade!Write, Upgrade!history
<1>2. PICK p \in PathSet : p = Ord[at] /\ p \notin KeptSet /\ at \in 1 .. 7
  BY <1>1, WriteFacts, Places
<1>3. disk' = [disk EXCEPT ![p] = new.file] /\ slots' = IF at = 1 THEN new.slots ELSE slots
  BY <1>2, PathNames, Places DEF Upgrade!Write
<1>4. /\ disk[p] # Nothing /\ disk'[p] = new.file /\ new.file # Nothing
      /\ \A q \in PathSet : q # p => disk'[q] = disk[q]
  <2>1. disk[p] # Nothing /\ new.file # Nothing /\ new.file \in FileSet
    BY <1>1, <1>2, WriteFacts
  <2> QED BY <1>3, <2>1, OneEntry DEF UpInv, TreeOK
<1>5. /\ \A i \in 1 .. 7 : Level(i)' = IF i <= at THEN leg + 1 ELSE leg
      /\ \A i \in 1 .. 7 : i # at => Level(i)' = Level(i)
      /\ leg <= leg' /\ pc' \in {"idle", "visit"} /\ ~Rewriting' /\ ~Emptied'
      /\ pc' = "visit" => said' = ""
      /\ pc' = "idle" => said' # ""
  BY <1>1, OnwardLevels
<1>6. /\ Moving /\ ~dry /\ (Emptied <=> at = 1) /\ (Rewriting <=> at = 1)
      /\ at \in 1 .. 7 /\ leg \in 0 .. Newest - 1 /\ leg' \in 0 .. Newest - 1
  BY <1>1, WriteFacts, FileWritten DEF Moving, Emptied, Rewriting, UpInv, RunOK
<1>7. BeganOK'
  <2>1. began.slots.pin <= leg /\ began.slots.pin \in Vers
    BY <1>6 DEF MoveInv, BeganOK
  <2>2. began.slots.pin <= leg'
    <3>1. leg <= leg' /\ leg \in 0 .. Newest - 1 /\ leg' \in 0 .. Newest - 1
      BY <1>5, <1>6
    <3>2. \A v \in Vers : v <= leg => v <= leg'
      BY <3>1, UpgradeAssumption DEF Vers
    <3> QED BY <2>1, <3>2
  <2>3. \A q \in KeptSet : disk'[q] = disk[q]
    BY <1>2, <1>4, PathNames
  <2>4. \A q \in PathSet : disk'[q] = Nothing <=> disk[q] = Nothing
    BY <1>4
  <2> QED BY <1>1, <1>6, <2>2, <2>3, <2>4 DEF MoveInv, BeganOK
<1>8. SlotOK'
  <2>1. SameFiles(disk, began.disk) <=> SameFiles(disk', began'.disk)
    BY <1>1, <1>4 DEF SameFiles
  <2>2. SlotsAs(slots')
    BY <1>3, <1>6 DEF MoveInv, SlotOK
  <2> QED BY <1>1, <1>5, <2>1, <2>2 DEF SlotOK, SlotsAs
<1>9. CarryOK'
  <2>1. ASSUME NEW i \in {1, 2, 7}, began.disk[Ord[i]] # Nothing, Ord[i] \notin unread
        PROVE  disk'[Ord[i]].banner = Ladder(began.disk[Ord[i]].banner, began.slots.pin, Level(i)')
    <3>1. CASE i = at
      <4>1. i <= at /\ i \in 1 .. 7
        BY <1>6, <3>1
      <4>2. Level(i)' = leg + 1
        BY <1>5, <4>1
      <4>3. new.file.banner = Ladder(began.disk[Ord[i]].banner, began.slots.pin, leg + 1)
        BY <1>1, <1>6, <2>1, <3>1 DEF MoveInv, CarryOK
      <4> QED BY <1>2, <1>4, <3>1, <4>2, <4>3
    <3>2. CASE i # at
      <4>1. disk'[Ord[i]] = disk[Ord[i]]
        <5>1. Ord[i] # p
          BY <1>2, <3>2, Unrecorded, Places
        <5> QED BY <1>4, <5>1, Unrecorded
      <4>2. disk[Ord[i]].banner = Ladder(began.disk[Ord[i]].banner, began.slots.pin, Level(i))
        BY <1>6, <2>1, <3>2 DEF MoveInv, CarryOK
      <4> QED BY <1>5, <3>2, <4>1, <4>2, Unrecorded
    <3> QED BY <3>1, <3>2
  <2>2. "BINDINGS" \notin unread /\ ~slots'.noted => slots'.pin = Level(1)'
    <3>1. 1 \in 1 .. 7
      OBVIOUS
    <3>2. CASE at = 1
      <4>1. 1 <= at
        BY <3>2
      <4>2. Level(1)' = leg + 1
        BY <1>5, <3>1, <4>1
      <4> QED BY <1>3, <1>6, <3>2, <4>2 DEF MoveInv, CarryOK
    <3>3. CASE at # 1
      BY <1>3, <1>5, <1>6, <3>1, <3>3 DEF MoveInv, CarryOK
    <3> QED BY <3>2, <3>3
  <2>3. pc' \notin {"open", "write"}
    BY <1>5
  <2> QED BY <1>1, <1>5, <2>1, <2>2, <2>3 DEF CarryOK
<1> QED BY <1>7, <1>8, <1>9 DEF MoveInv

LEMMA MoveStep == UpInv /\ MoveInv /\ [Upgrade!Next]_upgradeOnly => MoveInv'
<1> SUFFICES ASSUME UpInv, MoveInv, [Upgrade!Next]_upgradeOnly PROVE MoveInv'
  OBVIOUS
<1>1. CASE UNCHANGED upgradeOnly
  <2>1. UNCHANGED <<disk, slots, pc, dry, leg, at, new, unread, said, began>>
    BY <1>1 DEF upgradeOnly
  <2>2. BeganOK'
    BY <2>1 DEF MoveInv, BeganOK, Moving
  <2>3. SlotOK'
    BY <2>1 DEF MoveInv, SlotOK, SlotsAs, Moving, Emptied, Rewriting, SameFiles
  <2>4. CarryOK'
    BY <2>1 DEF MoveInv, CarryOK, Moving, Emptied, Rewriting, Level
  <2> QED BY <2>2, <2>3, <2>4 DEF MoveInv
<1>2. CASE Upgrade!People
  BY <1>2, MoveRowAdded, MoveCreated, MoveEdited DEF Upgrade!People
<1>3. CASE Upgrade!Migrate
  BY <1>3, MoveStarted, MoveVisited, MovePlanned, MoveOpened, MoveWritten DEF Upgrade!Migrate
<1> QED BY <1>1, <1>2, <1>3, MoveScale DEF Upgrade!Next

LEMMA NewestIsLast == \A v \in Vers : v <= Newest
BY UpgradeAssumption DEF Vers

LEMMA VersionsClimb == \A b \in Vers, v \in Vers, w \in Vers : b <= v /\ v <= w => b <= w
BY UpgradeAssumption DEF Vers

LEMMA MoveSound == UpInv /\ MoveInv => Upgrade!MigratedIsCarried
<1> SUFFICES ASSUME UpInv, MoveInv, said = "migrated", ~slots.noted PROVE Upgrade!MigratedIsCarried
  BY DEF Upgrade!MigratedIsCarried
<1>1. pc = "idle" /\ ~Emptied /\ \A i \in {1, 2, 7} : Level(i) = Newest
  <2>1. pc = "idle"
    BY DEF UpInv, RunOK
  <2> QED BY <2>1 DEF Level, Emptied
<1>2. /\ "BINDINGS" \notin unread => slots.pin = Newest
      /\ slots.pin \in Vers /\ began.slots.pin \in Vers /\ began.slots.pin <= slots.pin
  BY <1>1 DEF MoveInv, BeganOK, SlotOK, SlotsAs, CarryOK, Level
<1>3. ASSUME NEW p \in PathSet \ KeptSet, p \notin unread, began.disk[p].banner \in Vers
      PROVE  disk[p].banner = IF began.disk[p].banner >= began.slots.pin THEN Newest ELSE began.disk[p].banner
  <2>1. began.disk[p] # Nothing
    BY <1>3, SomeFiles, UpgradeAssumption DEF Vers
  <2>2. PICK i \in {1, 2, 7} : Ord[i] = p
    <3>1. 1 \in 1 .. 7 /\ 2 \in 1 .. 7 /\ 7 \in 1 .. 7
      OBVIOUS
    <3> QED BY <1>3, <3>1, Places DEF PathSet, KeptSet
  <2>3. disk[p].banner = Ladder(began.disk[p].banner, began.slots.pin, Newest)
    BY <1>1, <1>3, <2>1, <2>2 DEF MoveInv, CarryOK
  <2>4. began.slots.pin \in Vers /\ began.disk[p].banner \in Bann
    BY <1>3 DEF MoveInv, BeganOK, Bann
  <2> QED BY <1>3, <2>3, <2>4, AtTheTop
<1>4. ASSUME began.green, Upgrade!SameTree PROVE Upgrade!Green
  <2>1. \A p \in PathSet : disk[p] # Nothing <=> began.disk[p] # Nothing
    BY <1>4, HereIs, PathNames, DataNames DEF Upgrade!SameTree
  <2>2. /\ GreenAt(began.disk, began.slots) /\ slots.profile = began.slots.profile
        /\ slots.names = began.slots.names
    BY <1>1, <1>4, <2>1 DEF MoveInv, BeganOK, SlotOK, SlotsAs, SameFiles
  <2>3. Upgrade!OrchRole <=> OrchAt(began.disk)
    BY <2>1, HereIs DEF Upgrade!OrchRole, OrchAt, PathSet
  <2>4. \A p \in Upgrade!Required : Upgrade!Here(p)
    <3>1. \A p \in PathSet \ OrchSet : Upgrade!Here(p)
      BY HereIs DEF UpInv, TreeOK
    <3>2. Upgrade!OrchRole => \A p \in OrchSet : Upgrade!Here(p)
      BY <2>1, <2>2, <2>3, HereIs, PathNames DEF GreenAt
    <3> QED BY <3>1, <3>2, PathNames DEF Upgrade!Required
  <2>5. slots.pin \in Vers
    BY <1>2
  <2>6. slots.profile = IF Upgrade!OrchRole THEN "3agent" ELSE "2agent"
    BY <2>2, <2>3 DEF GreenAt
  <2>7. ~Upgrade!Blocked
    BY <2>4, <2>5, <2>6, DataNames DEF Upgrade!Blocked
  <2>8. ASSUME NEW p \in {"INDEX", "orch auth-log", "seats auth-log"}, Upgrade!Here(p)
        PROVE  Upgrade!StampOk(p)
    <3>1. p \in PathSet /\ p \in KeptSet
      BY DEF PathSet, KeptSet
    <3>2. disk[p].banner = began.disk[p].banner /\ disk[p].banner \in Vers /\ disk[p].banner <= began.slots.pin
      BY <2>1, <2>2, <2>8, <3>1, HereIs DEF MoveInv, BeganOK, GreenAt
    <3>3. disk[p].banner <= slots.pin
      <4>1. \A b \in Vers, v \in Vers, w \in Vers : b <= v /\ v <= w => b <= w
        BY VersionsClimb
      <4>2. PICK b \in Vers : b = disk[p].banner
        BY <3>2
      <4> QED BY <1>2, <3>2, <4>1, <4>2
    <3> QED BY <3>2, <3>3, DataNames DEF Upgrade!StampOk
  <2>9. slots.names = IF Upgrade!OrchRole THEN 3 ELSE 2
    BY <2>2, <2>3 DEF GreenAt
  <2>10. ~Upgrade!Warned
    BY <2>8, <2>9 DEF Upgrade!Warned
  <2> QED BY <2>7, <2>10 DEF Upgrade!Green
<1>5. Upgrade!Paths = PathSet /\ Upgrade!Kept = KeptSet /\ Upgrade!Versions = Vers
  BY PathNames, DataNames
<1> QED BY <1>2, <1>3, <1>4, <1>5 DEF Upgrade!MigratedIsCarried

LEMMA ShownIs ==
  ASSUME UpInv, NEW p \in PathSet
  PROVE  /\ Shown(p) \in ResultSet
         /\ p \notin DOMAIN pending => Shown(p) = Result(disk[p], IF p = "BINDINGS" THEN slots ELSE NoRows)
         /\ p \in DOMAIN pending => Shown(p) = pending[p]
         /\ dry => Upgrade!Read(p) = Shown(p)
<1>1. NoRows \in SlotSet /\ slots \in SlotSet /\ disk[p] \in FileSet
  BY ReadIs DEF UpInv, RunOK
<1>2. Result(disk[p], IF p = "BINDINGS" THEN slots ELSE NoRows) \in ResultSet
  BY <1>1 DEF Result, ResultSet
<1>3. p \in DOMAIN pending => pending[p] \in ResultSet
  BY DEF UpInv, RunOK
<1>4. dry => Upgrade!Read(p) = Shown(p)
  BY DataNames DEF Upgrade!Read, Upgrade!NoSlots, NoRows, Result, Shown
<1> QED BY <1>2, <1>3, <1>4 DEF Shown

LEMMA ResultsMade == \A f, s : Result(f, s).file = f /\ Result(f, s).slots = s
BY DEF Result

\* What a preview shows of the file it visits: the file as this leg would leave it.
Hop(r) ==
  Result(Row(IF r.file.banner = leg THEN leg + 1 ELSE r.file.banner, r.file.rows),
         [pin |-> IF r.slots.pin = leg /\ ~r.slots.noted THEN leg + 1 ELSE r.slots.pin,
          noted |-> r.slots.noted, profile |-> r.slots.profile, names |-> r.slots.names])
LEMMA HopIs ==
  ASSUME NEW r \in ResultSet, leg \in 0 .. Newest - 1
  PROVE  /\ Upgrade!Planned(r) = Hop(r)
         /\ Hop(r).file.banner = IF r.file.banner = leg THEN leg + 1 ELSE r.file.banner
         /\ Hop(r).slots.pin = IF r.slots.pin = leg /\ ~r.slots.noted THEN leg + 1 ELSE r.slots.pin
         /\ Hop(r).slots.noted = r.slots.noted
<1>1. PICK t : t = Upgrade!Planned(r)
  OBVIOUS
<1>2. /\ t \in ResultSet
      /\ t.file = Row(IF r.file.banner = leg THEN leg + 1 ELSE r.file.banner, r.file.rows)
      /\ t.slots = [pin |-> IF r.slots.pin = leg /\ ~r.slots.noted THEN leg + 1 ELSE r.slots.pin,
                    noted |-> r.slots.noted, profile |-> r.slots.profile, names |-> r.slots.names]
  BY <1>1, PlannedIs
<1>3. t = Result(t.file, t.slots)
  BY <1>2 DEF ResultSet, Result
<1>4. t = Hop(r)
  BY <1>2, <1>3 DEF Hop
<1>5. t.file.banner = IF r.file.banner = leg THEN leg + 1 ELSE r.file.banner
  BY <1>2, RowFields
<1>6. /\ t.slots.pin = IF r.slots.pin = leg /\ ~r.slots.noted THEN leg + 1 ELSE r.slots.pin
      /\ t.slots.noted = r.slots.noted
  BY <1>2
<1> QED BY <1>1, <1>4, <1>5, <1>6

\* A step of a preview: the file it visits is shown one hop on, unless it is a record,
\* not there or cannot be read, and the others as before.
LEMMA ShownOn ==
  ASSUME UpInv, dry, Upgrade!Pass \/ Upgrade!Preview, NEW p \in PathSet, p = Ord[at]
  PROVE  /\ \A q \in PathSet : q # p => Shown(q)' = Shown(q)
         /\ p \notin unread' =>
              Shown(p)' = IF disk[p] # Nothing /\ p \notin KeptSet THEN Hop(Shown(p)) ELSE Shown(p)
         /\ \A q \in DOMAIN pending' : q \in DOMAIN pending \/ q \notin KeptSet
<1>1. /\ Upgrade!Onward /\ UNCHANGED <<disk, slots>>
  BY Visited
<1>2. leg \in 0 .. Newest - 1 /\ Shown(p) \in ResultSet /\ Upgrade!Read(p) = Shown(p)
  BY ShownIs DEF UpInv, RunOK
<1>3. Upgrade!Planned(Upgrade!Read(p)) = Hop(Shown(p))
  BY <1>2, HopIs
<1>4. Upgrade!Untouched(p) <=> disk[p] = Nothing \/ p \in KeptSet \/ Hop(Shown(p)) = Shown(p)
  BY <1>2, <1>3, HereIs, PathNames DEF Upgrade!Untouched, Upgrade!IsRecord
<1>5. CASE Upgrade!Pass
  <2>1. pending' = pending /\ (p \notin unread' => Upgrade!Untouched(p))
    BY <1>5, PathNames DEF Upgrade!Pass, Upgrade!PassOver
  <2>2. \A q \in PathSet : Shown(q)' = Shown(q)
    BY <1>1, <2>1 DEF Shown
  <2> QED BY <1>4, <2>1, <2>2
<1>6. CASE Upgrade!Preview
  <2>1. /\ ~Upgrade!Untouched(p)
        /\ pending' = [q \in DOMAIN pending \cup {p} |-> IF q = p THEN Upgrade!Planned(Upgrade!Read(q)) ELSE pending[q]]
    BY <1>6, PathNames DEF Upgrade!Preview
  <2>2. PICK h : h = Hop(Shown(p))
    OBVIOUS
  <2>3. pending' = [q \in DOMAIN pending \cup {p} |-> IF q = p THEN h ELSE pending[q]]
    BY <1>3, <2>1, <2>2
  <2>4. Shown(p)' = h
    BY <2>3 DEF Shown
  <2>5. \A q \in PathSet : q # p => Shown(q)' = Shown(q)
    BY <1>1, <2>3 DEF Shown
  <2> QED BY <1>4, <2>1, <2>2, <2>3, <2>4, <2>5
<1> QED BY <1>5, <1>6

LEMMA DryVisited ==
  ASSUME UpInv, MoveInv, DryOK, dry, Upgrade!Pass \/ Upgrade!Preview
  PROVE  DryFacts'
<1>1. /\ pc = "visit" /\ Upgrade!Onward /\ UNCHANGED <<disk, slots, began>> /\ DryFacts
      /\ unread \subseteq unread'
  BY Visited DEF DryOK
<1>2. PICK p \in PathSet : p = Ord[at] /\ at \in 1 .. 7 /\ leg \in 0 .. Newest - 1
  BY Places DEF UpInv, RunOK
<1>3. /\ \A q \in PathSet : q # p => Shown(q)' = Shown(q)
      /\ p \notin unread' =>
           Shown(p)' = IF disk[p] # Nothing /\ p \notin KeptSet THEN Hop(Shown(p)) ELSE Shown(p)
      /\ \A q \in DOMAIN pending' : q \in DOMAIN pending \/ q \notin KeptSet
  BY <1>2, ShownOn
<1>4. /\ \A i \in 1 .. 7 : Level(i)' = IF i <= at THEN leg + 1 ELSE leg
      /\ \A i \in 1 .. 7 : i # at => Level(i)' = Level(i)
  BY <1>1, OnwardLevels
<1>5. Shown(p) \in ResultSet /\ at = 1 => p = "BINDINGS"
  BY <1>2, ShownIs, Places
<1>6. /\ Shown(p) \in ResultSet
      /\ Hop(Shown(p)).file.banner = IF Shown(p).file.banner = leg THEN leg + 1 ELSE Shown(p).file.banner
      /\ Hop(Shown(p)).slots.pin =
           IF Shown(p).slots.pin = leg /\ ~Shown(p).slots.noted THEN leg + 1 ELSE Shown(p).slots.pin
      /\ Hop(Shown(p)).slots.noted = Shown(p).slots.noted
  BY <1>2, ShownIs, HopIs
<1>7. at \in {1, 2, 7} => Level(at) = leg
  BY <1>1, <1>2 DEF Level
<1>8. \A q \in DOMAIN pending' : q \notin KeptSet
  BY <1>1, <1>3 DEF DryFacts
<1>9. ASSUME NEW i \in {1, 2, 7}, began.disk[Ord[i]] # Nothing, Ord[i] \notin unread'
      PROVE  Shown(Ord[i])'.file.banner = Ladder(began.disk[Ord[i]].banner, began.slots.pin, Level(i)')
  <2>1. Shown(Ord[i]).file.banner = Ladder(began.disk[Ord[i]].banner, began.slots.pin, Level(i))
    BY <1>1, <1>9 DEF DryFacts
  <2>2. CASE i # at
    <3>1. Ord[i] # p
      BY <1>2, <2>2, Unrecorded, Places
    <3> QED BY <1>3, <1>4, <2>1, <2>2, <3>1, Unrecorded
  <2>3. CASE i = at
    <3>1. i <= at /\ i \in 1 .. 7 /\ Level(i) = leg
      BY <1>2, <1>7, <2>3
    <3>2. Level(i)' = leg + 1
      BY <1>4, <3>1
    <3>3. disk[p] # Nothing /\ p \notin KeptSet /\ Ord[i] = p
      BY <1>1, <1>2, <1>9, <2>3, Unrecorded DEF MoveInv, BeganOK, Moving
    <3>4. Shown(p)'.file.banner = IF Shown(p).file.banner = leg THEN leg + 1 ELSE Shown(p).file.banner
      BY <1>3, <1>6, <1>9, <3>3
    <3>5. /\ began.disk[Ord[i]].banner \in Bann /\ began.slots.pin \in Vers /\ began.slots.pin <= leg
      BY <1>1, Unrecorded, FilesAreRows DEF MoveInv, BeganOK, Moving
    <3> QED BY <1>2, <2>1, <3>1, <3>2, <3>3, <3>4, <3>5, Climbs
  <2> QED BY <2>2, <2>3
<1>10. ASSUME "BINDINGS" \notin unread', ~slots.noted
       PROVE  ~Shown("BINDINGS")'.slots.noted /\ Shown("BINDINGS")'.slots.pin = Level(1)'
  <2>1. ~Shown("BINDINGS").slots.noted /\ Shown("BINDINGS").slots.pin = Level(1)
    BY <1>1, <1>10 DEF DryFacts
  <2>2. 1 \in 1 .. 7 /\ "BINDINGS" \in PathSet /\ "BINDINGS" \notin KeptSet /\ "BINDINGS" \notin OrchSet
    <3>1. 1 \in 1 .. 7
      OBVIOUS
    <3> QED BY <3>1 DEF PathSet, KeptSet, OrchSet
  <2>3. CASE at = 1
    <3>1. p = "BINDINGS" /\ 1 <= at /\ Level(1) = leg /\ Level(1)' = leg + 1
      <4>1. 1 <= at /\ Level(1) = leg
        BY <1>7, <2>3
      <4> QED BY <1>2, <1>4, <2>2, <2>3, <4>1, Places
    <3>2. disk[p] # Nothing
      BY <2>2, <3>1 DEF UpInv, TreeOK
    <3> QED BY <1>3, <1>6, <1>10, <2>1, <2>2, <3>1, <3>2
  <2>4. CASE at # 1
    <3>1. p # "BINDINGS"
      BY <1>2, <2>4, Places
    <3> QED BY <1>3, <1>4, <2>1, <2>2, <2>4, <3>1
  <2> QED BY <2>3, <2>4
<1> QED BY <1>1, <1>8, <1>9, <1>10 DEF DryFacts

LEMMA DryStart == Upgrade!Init => DryOK
<1>1. Upgrade!Init => pc = "idle"
  BY DEF Upgrade!Init
<1> QED BY <1>1 DEF DryOK

LEMMA DryRowAdded == ASSUME UpInv, MoveInv, DryOK, NEW p, Upgrade!AddRow(p) PROVE DryOK'
<1>1. /\ \A q \in PathSet : (disk'[q] = Nothing <=> disk[q] = Nothing) /\ disk'[q].banner = disk[q].banner
      /\ UNCHANGED <<slots, pc, dry, leg, at, pending, unread, began>>
  BY RowAdded
<1> SUFFICES ASSUME pc = "visit", dry PROVE DryFacts'
  BY <1>1 DEF DryOK
<1>2. DryFacts
  BY DEF DryOK
<1>3. \A q \in DOMAIN pending : q \in PathSet
  BY DEF UpInv, RunOK
<1>4. ASSUME NEW q \in PathSet
      PROVE  Shown(q)'.file.banner = Shown(q).file.banner /\ Shown(q)'.slots = Shown(q).slots
  BY <1>1, ResultsMade DEF Shown
<1>5. "BINDINGS" \in PathSet
  BY DEF PathSet
<1>6. \A i \in {1, 2, 7} : Level(i)' = Level(i) /\ Level(1)' = Level(1)
  BY <1>1 DEF Level
<1>7. \A q \in DOMAIN pending' : q \notin KeptSet
  BY <1>1, <1>2, <1>3 DEF DryFacts
<1>8. \A i \in {1, 2, 7} : began'.disk[Ord[i]] # Nothing /\ Ord[i] \notin unread' =>
        Shown(Ord[i])'.file.banner = Ladder(began'.disk[Ord[i]].banner, began'.slots.pin, Level(i)')
  BY <1>1, <1>2, <1>4, <1>6, Unrecorded DEF DryFacts
<1>9. "BINDINGS" \notin unread' /\ ~slots'.noted => ~Shown("BINDINGS")'.slots.noted /\ Shown("BINDINGS")'.slots.pin = Level(1)'
  BY <1>1, <1>2, <1>4, <1>5, <1>6 DEF DryFacts
<1> QED BY <1>7, <1>8, <1>9 DEF DryFacts

LEMMA DryCreated == ASSUME UpInv, MoveInv, DryOK, NEW p, Upgrade!Create(p) PROVE DryOK'
<1>1. /\ p \in PathSet /\ disk[p] = Nothing
      /\ \A q \in PathSet : q # p => disk'[q] = disk[q]
      /\ UNCHANGED <<slots, pc, dry, leg, at, pending, unread, began>>
  BY FileCreated
<1> SUFFICES ASSUME pc = "visit", dry PROVE DryFacts'
  BY <1>1 DEF DryOK
<1>2. DryFacts /\ began.disk[p] = Nothing
  BY <1>1 DEF DryOK, MoveInv, BeganOK, Moving
<1>4. ASSUME NEW q \in PathSet, q # p PROVE Shown(q)' = Shown(q)
  BY <1>1, <1>4 DEF Shown
<1>5. "BINDINGS" \in PathSet /\ "BINDINGS" # p
  <2>1. p \in OrchSet
    BY <1>1 DEF UpInv, TreeOK
  <2> QED BY <2>1 DEF PathSet, OrchSet
<1>6. \A i \in {1, 2, 7} : Level(i)' = Level(i) /\ Level(1)' = Level(1)
  BY <1>1 DEF Level
<1>7. \A q \in DOMAIN pending' : q \notin KeptSet
  BY <1>1, <1>2 DEF DryFacts
<1>8. \A i \in {1, 2, 7} : began'.disk[Ord[i]] # Nothing /\ Ord[i] \notin unread' =>
        Shown(Ord[i])'.file.banner = Ladder(began'.disk[Ord[i]].banner, began'.slots.pin, Level(i)')
  BY <1>1, <1>2, <1>4, <1>6, Unrecorded DEF DryFacts
<1>9. "BINDINGS" \notin unread' /\ ~slots'.noted => ~Shown("BINDINGS")'.slots.noted /\ Shown("BINDINGS")'.slots.pin = Level(1)'
  BY <1>1, <1>2, <1>4, <1>5, <1>6 DEF DryFacts
<1> QED BY <1>7, <1>8, <1>9 DEF DryFacts

LEMMA DryEdited == ASSUME UpInv, MoveInv, DryOK, Upgrade!Flip \/ Upgrade!Annotate PROVE DryOK'
<1>1. /\ slots'.pin = slots.pin /\ slots'.noted \in {slots.noted, TRUE}
      /\ UNCHANGED <<disk, pc, dry, leg, at, pending, unread, began>>
  BY SlotsEdited
<1> SUFFICES ASSUME pc = "visit", dry PROVE DryFacts'
  BY <1>1 DEF DryOK
<1>2. DryFacts
  BY DEF DryOK
<1>3. ~slots'.noted => ~slots.noted
  <2>1. slots.noted \in BOOLEAN
    BY SlotFields DEF UpInv, RunOK
  <2> QED BY <1>1, <2>1
<1>4. ASSUME NEW q \in PathSet
      PROVE  /\ Shown(q)'.file = Shown(q).file
             /\ Shown(q)'.slots = Shown(q).slots \/ (q = "BINDINGS" /\ Shown(q)'.slots = slots' /\ Shown(q).slots = slots)
  <2>1. CASE q \in DOMAIN pending
    BY <1>1, <2>1 DEF Shown
  <2>2. CASE q \notin DOMAIN pending
    <3>1. /\ Shown(q) = Result(disk[q], IF q = "BINDINGS" THEN slots ELSE NoRows)
          /\ Shown(q)' = Result(disk[q], IF q = "BINDINGS" THEN slots' ELSE NoRows)
      BY <1>1, <2>2 DEF Shown
    <3> QED BY <3>1, ResultsMade
  <2> QED BY <2>1, <2>2
<1>5. "BINDINGS" \in PathSet
  BY DEF PathSet
<1>6. \A i \in {1, 2, 7} : Level(i)' = Level(i) /\ Level(1)' = Level(1)
  BY <1>1 DEF Level
<1>7. \A q \in DOMAIN pending' : q \notin KeptSet
  BY <1>1, <1>2 DEF DryFacts
<1>8. \A i \in {1, 2, 7} : began'.disk[Ord[i]] # Nothing /\ Ord[i] \notin unread' =>
        Shown(Ord[i])'.file.banner = Ladder(began'.disk[Ord[i]].banner, began'.slots.pin, Level(i)')
  BY <1>1, <1>2, <1>4, <1>6, Unrecorded DEF DryFacts
<1>9. "BINDINGS" \notin unread' /\ ~slots'.noted => ~Shown("BINDINGS")'.slots.noted /\ Shown("BINDINGS")'.slots.pin = Level(1)'
  BY <1>1, <1>2, <1>3, <1>4, <1>5, <1>6 DEF DryFacts
<1> QED BY <1>7, <1>8, <1>9 DEF DryFacts

LEMMA DryBegun == ASSUME UpInv, MoveInv, DryOK, Upgrade!StartMigrate PROVE DryOK'
<1> SUFFICES ASSUME pc' = "visit" PROVE DryFacts'
  BY DEF DryOK
<1>1. /\ pc' = "visit" /\ pending' = <<>> /\ at' = 1 /\ leg' = slots.pin /\ slots.pin \in Vers
      /\ leg' \in 0 .. Newest - 1 /\ began'.disk = disk /\ began'.slots = slots /\ UNCHANGED <<disk, slots>>
  BY MoveStarted DEF Moving
<1>2. DOMAIN pending' = {}
  <2>1. DOMAIN <<>> = {}
    OBVIOUS
  <2> QED BY <1>1, <2>1
<1>3. \A q \in PathSet : Shown(q)' = Result(disk[q], IF q = "BINDINGS" THEN slots ELSE NoRows)
  BY <1>1, <1>2 DEF Shown
<1>4. \A i \in {1, 2, 7} : Level(i)' = slots.pin /\ Level(1)' = slots.pin
  <2>1. \A i \in {1, 2, 7} : ~(i < 1) /\ ~(1 < 1)
    OBVIOUS
  <2> QED BY <1>1, <2>1 DEF Level
<1>6. ASSUME NEW i \in {1, 2, 7}
      PROVE  Shown(Ord[i])'.file.banner = Ladder(began'.disk[Ord[i]].banner, began'.slots.pin, Level(i)')
  <2>1. Shown(Ord[i])'.file = disk[Ord[i]]
    BY <1>3, Unrecorded, ResultsMade
  <2>2. disk[Ord[i]].banner \in Bann
    BY Unrecorded, FilesAreRows DEF UpInv, TreeOK
  <2> QED BY <1>1, <1>4, <2>1, <2>2, Climbs
<1>7. Shown("BINDINGS")'.slots = slots
  <2>1. "BINDINGS" \in PathSet
    BY DEF PathSet
  <2> QED BY <1>3, <2>1, ResultsMade
<1> QED BY <1>1, <1>2, <1>4, <1>6, <1>7 DEF DryFacts

LEMMA DryStep == UpInv /\ MoveInv /\ DryOK /\ [Upgrade!Next]_upgradeOnly => DryOK'
<1> SUFFICES ASSUME UpInv, MoveInv, DryOK, [Upgrade!Next]_upgradeOnly PROVE DryOK'
  OBVIOUS
<1>1. CASE UNCHANGED upgradeOnly
  BY <1>1 DEF upgradeOnly, DryOK, DryFacts, Shown, Level
<1>2. CASE Upgrade!People
  BY <1>2, DryRowAdded, DryCreated, DryEdited DEF Upgrade!People
<1>3. CASE Upgrade!Scale \/ Upgrade!Crash
  <2>1. pc' # "visit"
    BY <1>3 DEF Upgrade!Scale, Upgrade!StartScale, Upgrade!Start, Upgrade!Copy, Upgrade!FillCopy, Upgrade!Crash
  <2> QED BY <2>1 DEF DryOK
<1>4. CASE Upgrade!Pass \/ Upgrade!Preview
  <2>1. dry' = dry
    BY <1>4, Visited
  <2> QED BY <1>4, <2>1, DryVisited DEF DryOK
<1>5. CASE Upgrade!Plan \/ Upgrade!Open
  <2>1. pc' # "visit"
    BY <1>5 DEF Upgrade!Plan, Upgrade!Open
  <2> QED BY <2>1 DEF DryOK
<1>6. CASE Upgrade!Write
  <2>1. ~dry /\ dry' = dry
    BY <1>6, WriteFacts DEF Upgrade!Write
  <2> QED BY <2>1 DEF DryOK
<1> QED BY <1>1, <1>2, <1>3, <1>4, <1>5, <1>6, DryBegun DEF Upgrade!Next, Upgrade!Migrate

\* Where nothing moves but the visit itself, a promise stands.
LEMMA PromiseStands ==
  ASSUME NEW f, NEW t, NEW u, Promised(f, t, u), UNCHANGED <<disk, slots>>, Rewriting' => Rewriting /\ new' = new
  PROVE  Promised(f, t, u)'
BY DEF Promised, NotBehind

LEMMA PromiseRowAdded ==
  ASSUME UpInv, NEW f, NEW t, NEW u, Promised(f, t, u), NEW p, Upgrade!AddRow(p) PROVE Promised(f, t, u)'
<1>1. /\ \A q \in PathSet : disk'[q] = Nothing <=> disk[q] = Nothing
      /\ UNCHANGED <<slots, pc, at, new>>
  BY RowAdded
<1>2. Rewriting' <=> Rewriting
  BY <1>1 DEF Rewriting
<1> QED BY <1>1, <1>2 DEF Promised, NotBehind

LEMMA PromiseCreated ==
  ASSUME UpInv, NEW f, NEW t, NEW u, Promised(f, t, u), NEW p, Upgrade!Create(p) PROVE Promised(f, t, u)'
<1>1. /\ disk'[p] # Nothing
      /\ \A q \in PathSet : q # p => disk'[q] = disk[q]
      /\ UNCHANGED <<slots, pc, at, new>>
  BY FileCreated
<1>2. Rewriting' <=> Rewriting
  BY <1>1 DEF Rewriting
<1> QED BY <1>1, <1>2 DEF Promised, NotBehind

LEMMA PromiseEdited ==
  ASSUME UpInv, NEW f, NEW t, NEW u, Promised(f, t, u), Upgrade!Flip \/ Upgrade!Annotate
  PROVE  Promised(f, t, u)'
<1>1. /\ slots'.pin = slots.pin /\ slots'.noted \in {slots.noted, TRUE}
      /\ UNCHANGED <<disk, pc, at, new>>
  BY SlotsEdited
<1>2. slots.noted => slots'.noted
  BY <1>1
<1>3. Rewriting' <=> Rewriting
  BY <1>1 DEF Rewriting
<1>4. NotBehind(slots', t, u)
  BY <1>1, <1>2 DEF Promised, NotBehind
<1> QED BY <1>1, <1>3, <1>4 DEF Promised, NotBehind

LEMMA PromiseScaled ==
  ASSUME UpInv, NEW f, NEW t, NEW u, Promised(f, t, u), Upgrade!Scale PROVE Promised(f, t, u)'
<1>1. CASE Upgrade!StartScale
  <2>1. UNCHANGED <<disk, slots>> /\ pc = "idle" /\ pc' \in {"idle", "scale"}
    BY <1>1 DEF Upgrade!StartScale, Upgrade!Start, Upgrade!workspace
  <2>2. ~Rewriting'
    BY <2>1 DEF Rewriting
  <2> QED BY <2>1, <2>2 DEF Promised, NotBehind
<1>2. CASE Upgrade!Copy
  <2>1. pc = "scale" /\ pc' = "fill" /\ UNCHANGED slots /\ ~Rewriting'
    BY <1>2 DEF Upgrade!Copy, Rewriting
  <2>2. PICK p \in PathSet : p = Head(todo)
    BY <2>1, CopyFacts
  <2>3. disk'[p] = Void /\ \A q \in PathSet : q # p => disk'[q] = disk[q]
    <3>1. disk' = [disk EXCEPT ![p] = Void]
      BY <1>2, <2>2, DataNames DEF Upgrade!Copy
    <3> QED BY <3>1, SomeFiles, OneEntry DEF UpInv, TreeOK
  <2>4. \A q \in PathSet : disk[q] # Nothing => disk'[q] # Nothing
    BY <2>3, SomeFiles
  <2> QED BY <2>1, <2>4 DEF Promised, NotBehind
<1>3. CASE Upgrade!FillCopy
  <2>1. pc = "fill" /\ pc' \in {"idle", "scale"} /\ UNCHANGED slots /\ ~Rewriting'
    BY <1>3 DEF Upgrade!FillCopy, Rewriting
  <2>2. PICK p \in PathSet : p = Head(todo)
    BY <2>1, CopyFacts
  <2>3. disk'[p] = Row(Newest, 0) /\ \A q \in PathSet : q # p => disk'[q] = disk[q]
    <3>1. Row(Newest, 0) \in FileSet
      <4>1. Newest \in Bann /\ 0 \in 0 .. MaxAppends + 1
        BY UpgradeAssumption DEF Bann, Vers
      <4> QED BY <4>1, RowIn
    <3>2. disk' = [disk EXCEPT ![p] = Row(Newest, 0)]
      BY <1>3, <2>2 DEF Upgrade!FillCopy, Row
    <3> QED BY <3>1, <3>2, OneEntry DEF UpInv, TreeOK
  <2>4. Row(Newest, 0) # Nothing
    <3>1. 0 # MaxAppends + 1
      BY UpgradeAssumption
    <3> QED BY <3>1, RowFields DEF Nothing
  <2>5. \A q \in PathSet : disk[q] # Nothing => disk'[q] # Nothing
    BY <2>3, <2>4
  <2> QED BY <2>1, <2>5 DEF Promised, NotBehind
<1> QED BY <1>1, <1>2, <1>3 DEF Upgrade!Scale

LEMMA PromisePlanned ==
  ASSUME UpInv, MoveInv, NEW f, NEW t, NEW u, Promised(f, t, u), Upgrade!Plan
  PROVE  Promised(f, t, u)'
<1>1. /\ pc = "visit" /\ ~dry /\ pc' = "open" /\ new' = Upgrade!Planned(Upgrade!Read(Ord[at]))
      /\ UNCHANGED <<disk, slots, at>>
  BY PathNames DEF Upgrade!Plan, Upgrade!workspace
<1>2. Moving /\ ~Emptied /\ (Rewriting' => at = 1)
  BY <1>1 DEF Moving, Emptied, Rewriting
<1>3. slots.pin \in Vers
  BY <1>2 DEF MoveInv, SlotOK, SlotsAs
<1>4. slots.noted \/ "BINDINGS" \in u \/ t["BINDINGS"].slots.pin = Newest
  BY <1>3 DEF Promised, NotBehind
<1>5. at = 1 => new'.slots.noted = slots.noted
  BY <1>1, PlannedAt
<1>6. Rewriting' => NotBehind(new'.slots, t, u)
  BY <1>2, <1>4, <1>5 DEF NotBehind
<1> QED BY <1>1, <1>6 DEF Promised, NotBehind

LEMMA PromiseOpened ==
  ASSUME UpInv, NEW f, NEW t, NEW u, Promised(f, t, u), Upgrade!Open
  PROVE  Promised(f, t, u)'
<1>1. /\ pc = "open" /\ pc' = "write" /\ UNCHANGED <<at, new>>
  BY DEF Upgrade!Open, Upgrade!run
<1>2. PICK p \in PathSet : p = Ord[at] /\ at \in 1 .. 7
  BY <1>1, WriteFacts, Places
<1>3. disk' = [disk EXCEPT ![p] = Void] /\ slots' = IF at = 1 THEN NoRows ELSE slots
  BY <1>2, PathNames, Places, DataNames DEF Upgrade!Open, Upgrade!NoSlots, NoRows
<1>4. \A q \in PathSet : disk[q] # Nothing => disk'[q] # Nothing
  <2>1. disk'[p] = Void /\ \A q \in PathSet : q # p => disk'[q] = disk[q]
    BY <1>3, SomeFiles, OneEntry DEF UpInv, TreeOK
  <2> QED BY <2>1, SomeFiles
<1>5. Rewriting' => Rewriting
  BY <1>1 DEF Rewriting
<1>6. NoRows.pin \notin Vers
  <2>1. Newest + 1 \notin Vers
    BY UpgradeAssumption DEF Vers
  <2> QED BY <2>1 DEF NoRows
<1>7. NotBehind(slots', t, u)
  BY <1>3, <1>6 DEF Promised, NotBehind
<1> QED BY <1>1, <1>4, <1>5, <1>7 DEF Promised, NotBehind

LEMMA PromiseWritten ==
  ASSUME UpInv, NEW f, NEW t, NEW u, Promised(f, t, u), Upgrade!Write
  PROVE  Promised(f, t, u)'
<1>1. pc = "write" /\ Upgrade!Onward /\ new' = new
  BY DEF Upgrade!Write
<1>2. PICK p \in PathSet : p = Ord[at] /\ at \in 1 .. 7
  BY <1>1, WriteFacts, Places
<1>3. disk' = [disk EXCEPT ![p] = new.file] /\ slots' = IF at = 1 THEN new.slots ELSE slots
  BY <1>2, PathNames, Places DEF Upgrade!Write
<1>4. \A q \in PathSet : disk[q] # Nothing => disk'[q] # Nothing
  <2>1. new.file \in FileSet /\ new.file # Nothing
    BY <1>1, WriteFacts
  <2>2. disk'[p] = new.file /\ \A q \in PathSet : q # p => disk'[q] = disk[q]
    BY <1>3, <2>1, OneEntry DEF UpInv, TreeOK
  <2> QED BY <2>1, <2>2
<1>5. ~Rewriting' /\ (at = 1 => Rewriting)
  BY <1>1, OnwardLevels DEF Rewriting
<1>6. NotBehind(slots', t, u)
  BY <1>3, <1>5 DEF Promised, NotBehind
<1> QED BY <1>4, <1>5, <1>6 DEF Promised, NotBehind

\* A run of migrate that writes, and one that has answered, are those of the step before.
LEMMA StillCarrying ==
  ASSUME UpInv, Upgrade!Next, ~Upgrade!StartMigrate, Carrying'
  PROVE  Carrying /\ began' = began
<1>1. CASE Upgrade!People
  <2>1. UNCHANGED <<pc, dry, began>> /\ said' \in {said, ""}
    BY <1>1, RowAdded, FileCreated, SlotsEdited DEF Upgrade!People
  <2> QED BY <2>1 DEF Carrying, Moving
<1>2. CASE Upgrade!Scale \/ Upgrade!Crash
  <2>1. /\ pc' \in {"idle", "scale", "fill"}
        /\ said' \in {"not a workspace", "present", "scaled", "", "died"} \/ (said' = said /\ pc \in {"scale"})
    BY <1>2 DEF Upgrade!Scale, Upgrade!StartScale, Upgrade!Start, Upgrade!Copy, Upgrade!FillCopy, Upgrade!Crash
  <2>2. pc = "scale" => said # "migrated"
    BY DEF UpInv, RunOK
  <2> QED BY <2>1, <2>2 DEF Carrying, Moving
<1>3. CASE Upgrade!Pass \/ Upgrade!Preview \/ Upgrade!Write
  <2>1. pc \in {"visit", "write"} /\ Upgrade!Onward /\ UNCHANGED <<dry, began>>
    BY <1>3 DEF Upgrade!Pass, Upgrade!Preview, Upgrade!Write
  <2>2. said' = "migrated" => ~dry
    BY <2>1, OnwardLevels
  <2> QED BY <2>1, <2>2 DEF Carrying, Moving
<1>4. CASE Upgrade!Plan \/ Upgrade!Open
  <2>1. pc \in {"visit", "open"} /\ UNCHANGED <<dry, began, said>>
    BY <1>4 DEF Upgrade!Plan, Upgrade!Open, Upgrade!run
  <2> QED BY <2>1 DEF Carrying, Moving
<1> QED BY <1>1, <1>2, <1>3, <1>4 DEF Upgrade!Next, Upgrade!Migrate

\* A run that starts, starts from a workspace that still bears the promise out.
LEMMA PromiseBegun ==
  ASSUME UpInv, MoveInv, NEW f, NEW t, NEW u, Promised(f, t, u), Upgrade!StartMigrate
  PROVE  Promised(f, t, u)' /\ BeganAfter(f)'
<1>1. /\ UNCHANGED <<disk, slots>> /\ pc' \in {"idle", "visit"} /\ said' # "migrated"
      /\ Moving' => began'.disk = disk
  BY MoveStarted
<1>2. ~Rewriting'
  BY <1>1 DEF Rewriting
<1>3. Promised(f, t, u)'
  BY <1>1, <1>2, PromiseStands
<1>4. BeganAfter(f)'
  BY <1>1 DEF BeganAfter, Carrying, Promised
<1> QED BY <1>3, <1>4

\* What a preview shows when it answers is what it promises.
LEMMA PreviewMade ==
  ASSUME UpInv, MoveInv, DryOK, Upgrade!Pass \/ Upgrade!Preview, preview' # preview
  PROVE  PreviewOK'
<1>1. /\ Upgrade!Onward /\ UNCHANGED <<disk, slots, dry, began>> /\ UpInv' /\ pc = "visit"
  BY Visited
<1>2. PICK p \in PathSet : p = Ord[at] /\ at \in 1 .. 7 /\ leg \in 0 .. Newest - 1
  BY Places DEF UpInv, RunOK
<1>3. /\ Upgrade!Final /\ dry /\ preview'.from = began /\ preview'.unread = unread'
      /\ \A q \in PathSet : preview'.to[q] = Shown(q)'
  <2>1. Upgrade!Seen = [q \in PathSet |-> Shown(q)]
    BY PathNames, DataNames DEF Upgrade!Seen, Shown, Result, Upgrade!NoSlots, NoRows
  <2>2. CASE Upgrade!Pass
    <3>1. Upgrade!Final /\ dry /\ preview' = Upgrade!Promise(Upgrade!Seen) /\ pending' = pending
      BY <2>2 DEF Upgrade!Pass
    <3>2. preview'.from = began /\ preview'.to = Upgrade!Seen /\ preview'.unread = unread'
      BY <3>1 DEF Upgrade!Promise
    <3>3. \A q \in PathSet : Shown(q)' = Shown(q)
      BY <1>1, <3>1 DEF Shown
    <3> QED BY <2>1, <3>1, <3>2, <3>3
  <2>3. CASE Upgrade!Preview
    <3>1. /\ Upgrade!Final /\ dry
          /\ preview' = Upgrade!Promise([Upgrade!Seen EXCEPT ![p] = Upgrade!Planned(Upgrade!Read(p))])
          /\ pending' = [q \in DOMAIN pending \cup {p} |-> IF q = p THEN Upgrade!Planned(Upgrade!Read(q)) ELSE pending[q]]
      BY <1>2, <2>3, PathNames DEF Upgrade!Preview
    <3>2. PICK h, s : h = Upgrade!Planned(Upgrade!Read(p)) /\ s = [q \in PathSet |-> Shown(q)]
      OBVIOUS
    <3>3. pending' = [q \in DOMAIN pending \cup {p} |-> IF q = p THEN h ELSE pending[q]]
      BY <3>1, <3>2
    <3>4. preview'.from = began /\ preview'.to = [s EXCEPT ![p] = h] /\ preview'.unread = unread'
      BY <2>1, <3>1, <3>2 DEF Upgrade!Promise
    <3>5. Shown(p)' = h
      BY <3>3 DEF Shown
    <3>6. \A q \in PathSet : q # p => Shown(q)' = s[q]
      BY <1>1, <3>2, <3>3 DEF Shown
    <3>7. preview'.to[p] = h /\ \A q \in PathSet : q # p => preview'.to[q] = s[q]
      BY <3>2, <3>4
    <3> QED BY <3>1, <3>4, <3>5, <3>6, <3>7
  <2> QED BY <2>2, <2>3
<1>4. DryFacts'
  BY <1>3, DryVisited
<1>5. pc' = "idle" /\ said' = "dry-run" /\ ~Rewriting' /\ ~Carrying'
  BY <1>1, <1>3 DEF Upgrade!Onward, Rewriting, Carrying, Moving
<1>6. /\ began.disk \in [PathSet -> FileSet] /\ began.slots.pin \in Vers
      /\ \A q \in PathSet : began.disk[q] # Nothing =>
           disk[q] # Nothing /\ (q \in KeptSet => disk[q].banner = began.disk[q].banner)
  BY <1>1 DEF MoveInv, BeganOK, Moving
<1>7. \A q \in PathSet : q \notin DOMAIN pending' => Shown(q)'.file = disk[q]
  BY <1>1, ResultsMade DEF Shown
<1>8. /\ \A q \in DOMAIN pending' : q \notin KeptSet
      /\ \A i \in {1, 2, 7} : began.disk[Ord[i]] # Nothing /\ Ord[i] \notin unread' =>
           Shown(Ord[i])'.file.banner = Ladder(began.disk[Ord[i]].banner, began.slots.pin, Newest)
      /\ "BINDINGS" \notin unread' /\ ~slots.noted => Shown("BINDINGS")'.slots.pin = Newest
  BY <1>1, <1>4, <1>5 DEF DryFacts, Level
<1>9. PICK f, t, u : f = preview'.from /\ t = preview'.to /\ u = preview'.unread
  OBVIOUS
<1>10. f = began /\ u = unread' /\ \A q \in PathSet : t[q] = Shown(q)'
  BY <1>3, <1>9
<1>11. PreviewFiles(f, t, u)
  <2>1. \A q \in KeptSet : f.disk[q] # Nothing => t[q].file.banner = f.disk[q].banner
    BY <1>6, <1>7, <1>8, <1>10, PathNames
  <2>2. \A i \in {1, 2, 7} : f.disk[Ord[i]] # Nothing /\ Ord[i] \notin u =>
          t[Ord[i]].file.banner = Ladder(f.disk[Ord[i]].banner, f.slots.pin, Newest)
    BY <1>8, <1>10, Unrecorded
  <2> QED BY <1>6, <1>10, <2>1, <2>2 DEF PreviewFiles
<1>12. Promised(f, t, u)'
  <2>1. NotBehind(slots', t, u)
    <3>1. "BINDINGS" \in PathSet
      BY DEF PathSet
    <3> QED BY <1>1, <1>8, <1>10, <3>1 DEF NotBehind
  <2>2. \A q \in PathSet : f.disk[q] # Nothing => disk'[q] # Nothing
    BY <1>1, <1>6, <1>10
  <2> QED BY <1>5, <2>1, <2>2 DEF Promised
<1>13. BeganAfter(f)'
  BY <1>5 DEF BeganAfter
<1> QED BY <1>9, <1>11, <1>12, <1>13 DEF PreviewOK, Promised, BeganAfter

LEMMA PreviewStep == UpInv /\ MoveInv /\ DryOK /\ PreviewOK /\ [Upgrade!Next]_upgradeOnly => PreviewOK'
<1> SUFFICES ASSUME UpInv, MoveInv, DryOK, PreviewOK, [Upgrade!Next]_upgradeOnly PROVE PreviewOK'
  OBVIOUS
<1>1. CASE UNCHANGED upgradeOnly
  <2>1. UNCHANGED <<disk, slots, pc, dry, at, new, said, began, preview>>
    BY <1>1 DEF upgradeOnly
  <2> QED BY <2>1 DEF PreviewOK, Promised, BeganAfter, Carrying, Moving, Rewriting
<1>2. CASE Upgrade!Next /\ preview' # preview
  <2>1. Upgrade!Pass \/ Upgrade!Preview
    <3>1. ASSUME Upgrade!People PROVE FALSE
      BY <1>2, <3>1, RowAdded, FileCreated, SlotsEdited DEF Upgrade!People
    <3>2. ASSUME Upgrade!Scale \/ Upgrade!Crash PROVE FALSE
      BY <1>2, <3>2 DEF Upgrade!Scale, Upgrade!StartScale, Upgrade!Copy, Upgrade!FillCopy, Upgrade!Crash
    <3>3. ASSUME Upgrade!StartMigrate \/ Upgrade!Plan \/ Upgrade!Open \/ Upgrade!Write PROVE FALSE
      BY <1>2, <3>3 DEF Upgrade!StartMigrate, Upgrade!Plan, Upgrade!Open, Upgrade!Write
    <3> QED BY <1>2, <3>1, <3>2, <3>3 DEF Upgrade!Next, Upgrade!Migrate
  <2> QED BY <1>2, <2>1, PreviewMade
<1>3. CASE Upgrade!Next /\ preview' = preview
  <2> SUFFICES ASSUME preview # <<>> PROVE PreviewOK'
    BY <1>3 DEF PreviewOK
  <2>1. PICK f, t, u : f = preview.from /\ t = preview.to /\ u = preview.unread
    OBVIOUS
  <2>2. PreviewFiles(f, t, u) /\ Promised(f, t, u) /\ BeganAfter(f)
    BY <2>1 DEF PreviewOK
  <2>3. Promised(f, t, u)'
    <3>1. CASE Upgrade!People
      BY <2>2, <3>1, PromiseRowAdded, PromiseCreated, PromiseEdited DEF Upgrade!People
    <3>2. CASE Upgrade!Pass \/ Upgrade!Preview
      <4>1. UNCHANGED <<disk, slots>> /\ pc' \in {"idle", "visit"} /\ pc = "visit"
        BY <3>2, Visited, OnwardLevels
      <4>2. ~Rewriting'
        BY <4>1 DEF Rewriting
      <4> QED BY <2>2, <4>1, <4>2, PromiseStands
    <3>3. CASE Upgrade!Crash
      <4>1. UNCHANGED <<disk, slots>> /\ pc' = "idle"
        BY <3>3 DEF Upgrade!Crash, Upgrade!workspace
      <4>2. ~Rewriting'
        BY <4>1 DEF Rewriting
      <4> QED BY <2>2, <4>1, <4>2, PromiseStands
    <3> QED BY <1>3, <2>2, <3>1, <3>2, <3>3, PromiseScaled, PromiseBegun, PromisePlanned, PromiseOpened,
               PromiseWritten DEF Upgrade!Next, Upgrade!Migrate
  <2>4. BeganAfter(f)'
    <3>1. CASE Upgrade!StartMigrate
      BY <2>2, <3>1, PromiseBegun
    <3>2. CASE ~Upgrade!StartMigrate
      <4>1. Carrying' => Carrying /\ began' = began
        BY <1>3, <3>2, StillCarrying
      <4> QED BY <2>2, <4>1 DEF BeganAfter
    <3> QED BY <3>1, <3>2
  <2>5. f = preview'.from /\ t = preview'.to /\ u = preview'.unread
    BY <1>3, <2>1
  <2> QED BY <2>2, <2>3, <2>4, <2>5 DEF PreviewOK, Promised, BeganAfter
<1> QED BY <1>1, <1>2, <1>3

LEMMA PreviewSound == UpInv /\ MoveInv /\ PreviewOK => Upgrade!PreviewIsKept
<1> SUFFICES ASSUME UpInv, MoveInv, PreviewOK, said = "migrated", preview # <<>>, ~slots.noted,
                    began.slots = preview.from.slots,
                    NEW p \in PathSet, p \notin unread, p \notin preview.unread,
                    preview.from.disk[p] # Nothing, began.disk[p].banner = preview.from.disk[p].banner
             PROVE  /\ disk[p].banner = preview.to[p].file.banner
                    /\ p = "BINDINGS" => slots.pin = preview.to[p].slots.pin
  BY PathNames, DataNames DEF Upgrade!PreviewIsKept, Upgrade!NoPreview
<1>1. PICK f, t, u : f = preview.from /\ t = preview.to /\ u = preview.unread
  OBVIOUS
<1>2. PreviewFiles(f, t, u) /\ Promised(f, t, u) /\ BeganAfter(f) /\ Carrying
  BY <1>1 DEF PreviewOK, Carrying
<1>3. /\ began.disk[p] # Nothing /\ began.disk[p].banner = f.disk[p].banner /\ f.disk[p] # Nothing
      /\ began.slots.pin = f.slots.pin
  BY <1>1, <1>2 DEF BeganAfter
<1>4. pc = "idle" /\ ~Emptied /\ \A i \in {1, 2, 7} : Level(i) = Newest /\ Level(1) = Newest
  <2>1. pc = "idle"
    BY DEF UpInv, RunOK
  <2> QED BY <2>1 DEF Level, Emptied
<1>5. CASE p \in KeptSet
  <2>1. disk[p].banner = began.disk[p].banner
    BY <1>3, <1>5 DEF MoveInv, BeganOK
  <2>2. p # "BINDINGS"
    BY <1>5 DEF KeptSet
  <2> QED BY <1>1, <1>2, <1>3, <1>5, <2>1, <2>2 DEF PreviewFiles
<1>6. CASE p \notin KeptSet
  <2>1. PICK i \in {1, 2, 7} : p = Ord[i]
    <3>1. 1 \in 1 .. 7 /\ 2 \in 1 .. 7 /\ 7 \in 1 .. 7
      OBVIOUS
    <3> QED BY <1>6, <3>1, Places DEF PathSet, KeptSet
  <2>2. disk[p].banner = Ladder(began.disk[p].banner, began.slots.pin, Newest)
    BY <1>3, <1>4, <2>1 DEF MoveInv, CarryOK
  <2>3. t[p].file.banner = Ladder(f.disk[p].banner, f.slots.pin, Newest)
    BY <1>1, <1>2, <1>3, <2>1 DEF PreviewFiles
  <2>4. disk[p].banner = preview.to[p].file.banner
    BY <1>1, <1>3, <2>2, <2>3
  <2>5. p = "BINDINGS" => slots.pin = Newest /\ slots.pin \in Vers
    BY <1>4 DEF MoveInv, CarryOK, SlotOK, SlotsAs
  <2>6. p = "BINDINGS" => t["BINDINGS"].slots.pin = Newest
    BY <1>1, <1>2, <2>5 DEF Promised, NotBehind
  <2> QED BY <1>1, <2>4, <2>5, <2>6
<1> QED BY <1>5, <1>6

(***************************************************************************)
(* The stamp.                                                              *)
(***************************************************************************)

Trio(q) == q \in {"3agent.local", "3agent.git-sync"}
Topologies == {"2agent.local", "3agent.local", "2agent.git-sync", "3agent.git-sync", "no --profile"}
Doorway == <<"channel", "INDEX", "start">>
Rooms == <<"owner", "owner MEMORY", "owner auth-log", "builder", "builder MEMORY", "builder auth-log">>
OrchRoom == <<"orchestrator", "orchestrator auth-log", "orchestrator MEMORY", "dispatch-log",
              "TASKQUEUE", "session-registry", "cost-ledger">>
Papers == <<"BINDINGS", "README", "MODELS">>
Starts == <<"START owner", "START builder">>
OrchStart == <<"START orchestrator">>
Toolbox == <<".claude", "settings", "workflows", "integrity", "tools", "validate_auth_log", "conformance_check">>
Way(q) ==
  Doorway \o Rooms \o (IF Trio(q) THEN OrchRoom ELSE <<>>) \o Papers
    \o (Starts \o (IF Trio(q) THEN OrchStart ELSE <<>>)) \o Toolbox
Full == "3agent.local"
Everything ==
  {"channel", "INDEX", "start", "owner", "owner MEMORY", "owner auth-log", "builder", "builder MEMORY",
   "builder auth-log", "orchestrator", "orchestrator auth-log", "orchestrator MEMORY", "dispatch-log",
   "TASKQUEUE", "session-registry", "cost-ledger", "BINDINGS", "README", "MODELS", "START owner",
   "START builder", "START orchestrator", ".claude", "settings", "workflows", "integrity", "tools",
   "validate_auth_log", "conformance_check"}
Ranged(u) == {u[i] : i \in 1 .. Len(u)}
Apart(u, w) == \A i \in 1 .. Len(u), j \in 1 .. Len(w) : u[i] # w[j]
Dest == Ranged(Way(Full))

LEMMA Listed ==
  ASSUME NEW n \in Nat, NEW u, u = [i \in 1 .. n |-> u[i]], \A i \in 1 .. n : u[i] \in Everything
  PROVE  u \in Seq(Everything)
OBVIOUS

LEMMA Chained ==
  ASSUME NEW u \in Seq(Everything), NEW w \in Seq(Everything), Single(u), Single(w), Ranged(u) \cap Ranged(w) = {}
  PROVE  /\ u \o w \in Seq(Everything) /\ Single(u \o w) /\ Len(u \o w) = Len(u) + Len(w)
         /\ Ranged(u \o w) = Ranged(u) \cup Ranged(w)
         /\ \A i \in 1 .. Len(u) : (u \o w)[i] = u[i]
<1>1. PICK x \in Seq(Everything) : x = u \o w
  BY ConcatProperties
<1>2. Len(u) \in Nat /\ Len(w) \in Nat /\ Len(x) = Len(u) + Len(w)
  BY <1>1
<1>3. \A i \in 1 .. Len(u) : i \in 1 .. Len(x) /\ x[i] = u[i]
  BY <1>1, <1>2
<1>4. \A i \in 1 .. Len(w) : i + Len(u) \in 1 .. Len(x) /\ x[i + Len(u)] = w[i]
  BY <1>1, <1>2
<1>5. ASSUME NEW i \in 1 .. Len(x), i > Len(u) PROVE \E k \in 1 .. Len(w) : i = k + Len(u) /\ x[i] = w[k]
  <2>1. PICK k : k = i - Len(u)
    OBVIOUS
  <2>2. k \in 1 .. Len(w) /\ i = k + Len(u)
    BY <1>2, <1>5, <2>1
  <2> QED BY <1>4, <2>2
<1>6. \A i \in 1 .. Len(x) : i <= Len(u) => i \in 1 .. Len(u)
  BY <1>2
<1>7. \A i \in 1 .. Len(u), j \in 1 .. Len(w) : u[i] # w[j]
  BY DEF Ranged
<1>8. ASSUME NEW i \in 1 .. Len(x), NEW j \in 1 .. Len(x), x[i] = x[j] PROVE i = j
  <2>1. CASE i <= Len(u) /\ j <= Len(u)
    BY <1>3, <1>6, <1>8, <2>1 DEF Single
  <2>2. CASE i <= Len(u) /\ j > Len(u)
    BY <1>3, <1>5, <1>6, <1>7, <1>8, <2>2
  <2>3. CASE i > Len(u) /\ j <= Len(u)
    BY <1>3, <1>5, <1>6, <1>7, <1>8, <2>3
  <2>4. CASE i > Len(u) /\ j > Len(u)
    <3>1. PICK k \in 1 .. Len(w) : i = k + Len(u) /\ x[i] = w[k]
      BY <1>5, <2>4
    <3>2. PICK m \in 1 .. Len(w) : j = m + Len(u) /\ x[j] = w[m]
      BY <1>5, <2>4
    <3>3. w[k] = w[m]
      BY <1>8, <3>1, <3>2
    <3>4. k = m
      BY <3>3 DEF Single
    <3> QED BY <3>1, <3>2, <3>4
  <2> QED BY <1>2, <2>1, <2>2, <2>3, <2>4
<1>9. Ranged(x) = Ranged(u) \cup Ranged(w)
  <2>1. ASSUME NEW i \in 1 .. Len(x) PROVE x[i] \in Ranged(u) \cup Ranged(w)
    <3>1. CASE i <= Len(u)
      BY <1>3, <1>6, <3>1 DEF Ranged
    <3>2. CASE i > Len(u)
      BY <1>5, <3>2 DEF Ranged
    <3> QED BY <1>2, <3>1, <3>2
  <2>2. \A y : y \in Ranged(u) \cup Ranged(w) => y \in Ranged(x)
    BY <1>3, <1>4 DEF Ranged
  <2> QED BY <2>1, <2>2 DEF Ranged
<1> QED BY <1>1, <1>2, <1>3, <1>8, <1>9 DEF Single

Joined(u, w) ==
  /\ u \o w \in Seq(Everything) /\ Single(u \o w) /\ Len(u \o w) = Len(u) + Len(w)
  /\ Ranged(u \o w) = Ranged(u) \cup Ranged(w)
  /\ \A i \in 1 .. Len(u) : (u \o w)[i] = u[i]

DoorSet == {"channel", "INDEX", "start"}
RoomSet == {"owner", "owner MEMORY", "owner auth-log", "builder", "builder MEMORY", "builder auth-log"}
OrchRoomSet == {"orchestrator", "orchestrator auth-log", "orchestrator MEMORY", "dispatch-log",
                "TASKQUEUE", "session-registry", "cost-ledger"}
PaperSet == {"BINDINGS", "README", "MODELS"}
StartSet == {"START owner", "START builder"}
ToolSet == {".claude", "settings", "workflows", "integrity", "tools", "validate_auth_log", "conformance_check"}

LEMMA DoorPieces ==
  /\ Doorway \in Seq(Everything) /\ Single(Doorway) /\ Ranged(Doorway) = DoorSet /\ Len(Doorway) = 3
  /\ Doorway[1] = "channel"
<1>1. Len(Doorway) = 3
  BY DEF Doorway
<1>2. /\ Doorway[1] = "channel" /\ Doorway[2] = "INDEX"
      /\ Doorway[3] = "start"
  BY DEF Doorway
<1>3. 1 .. 3 = {1, 2, 3}
  OBVIOUS
<1>4. Ranged(Doorway) = DoorSet
  BY <1>1, <1>2, <1>3 DEF Ranged, DoorSet
<1>5. Single(Doorway)
  <2>1. \A j \in 1 .. 3 : Doorway[1] = Doorway[j] => j = 1
    BY <1>2, <1>3
  <2>2. \A j \in 1 .. 3 : Doorway[2] = Doorway[j] => j = 2
    BY <1>2, <1>3
  <2>3. \A j \in 1 .. 3 : Doorway[3] = Doorway[j] => j = 3
    BY <1>2, <1>3
  <2> QED BY <1>1, <1>3, <2>1, <2>2, <2>3 DEF Single
<1>6. Doorway \in Seq(Everything)
  <2>1. Doorway = [i \in 1 .. 3 |-> Doorway[i]]
    BY DEF Doorway
  <2>2. \A i \in 1 .. 3 : Doorway[i] \in Everything
    BY <1>2, <1>3 DEF Everything
  <2> QED BY <2>1, <2>2, Listed
<1> QED BY <1>1, <1>2, <1>4, <1>5, <1>6

LEMMA RoomPieces ==
  /\ Rooms \in Seq(Everything) /\ Single(Rooms) /\ Ranged(Rooms) = RoomSet /\ Len(Rooms) = 6
<1>1. Len(Rooms) = 6
  BY DEF Rooms
<1>2. /\ Rooms[1] = "owner" /\ Rooms[2] = "owner MEMORY"
      /\ Rooms[3] = "owner auth-log" /\ Rooms[4] = "builder"
      /\ Rooms[5] = "builder MEMORY" /\ Rooms[6] = "builder auth-log"
  BY DEF Rooms
<1>3. 1 .. 6 = {1, 2, 3, 4, 5, 6}
  OBVIOUS
<1>4. Ranged(Rooms) = RoomSet
  BY <1>1, <1>2, <1>3 DEF Ranged, RoomSet
<1>5. Single(Rooms)
  <2>1. \A j \in 1 .. 6 : Rooms[1] = Rooms[j] => j = 1
    BY <1>2, <1>3
  <2>2. \A j \in 1 .. 6 : Rooms[2] = Rooms[j] => j = 2
    BY <1>2, <1>3
  <2>3. \A j \in 1 .. 6 : Rooms[3] = Rooms[j] => j = 3
    BY <1>2, <1>3
  <2>4. \A j \in 1 .. 6 : Rooms[4] = Rooms[j] => j = 4
    BY <1>2, <1>3
  <2>5. \A j \in 1 .. 6 : Rooms[5] = Rooms[j] => j = 5
    BY <1>2, <1>3
  <2>6. \A j \in 1 .. 6 : Rooms[6] = Rooms[j] => j = 6
    BY <1>2, <1>3
  <2> QED BY <1>1, <1>3, <2>1, <2>2, <2>3, <2>4, <2>5, <2>6 DEF Single
<1>6. Rooms \in Seq(Everything)
  <2>1. Rooms = [i \in 1 .. 6 |-> Rooms[i]]
    BY DEF Rooms
  <2>2. \A i \in 1 .. 6 : Rooms[i] \in Everything
    BY <1>2, <1>3 DEF Everything
  <2> QED BY <2>1, <2>2, Listed
<1> QED BY <1>1, <1>2, <1>4, <1>5, <1>6

LEMMA OrchPieces ==
  /\ OrchRoom \in Seq(Everything) /\ Single(OrchRoom) /\ Ranged(OrchRoom) = OrchRoomSet /\ Len(OrchRoom) = 7
<1>1. Len(OrchRoom) = 7
  BY DEF OrchRoom
<1>2. /\ OrchRoom[1] = "orchestrator" /\ OrchRoom[2] = "orchestrator auth-log"
      /\ OrchRoom[3] = "orchestrator MEMORY" /\ OrchRoom[4] = "dispatch-log"
      /\ OrchRoom[5] = "TASKQUEUE" /\ OrchRoom[6] = "session-registry"
      /\ OrchRoom[7] = "cost-ledger"
  BY DEF OrchRoom
<1>3. 1 .. 7 = {1, 2, 3, 4, 5, 6, 7}
  OBVIOUS
<1>4. Ranged(OrchRoom) = OrchRoomSet
  <2>1. OrchRoomSet =
        {OrchRoom[1], OrchRoom[2], OrchRoom[3], OrchRoom[4], OrchRoom[5], OrchRoom[6], OrchRoom[7]}
    BY <1>2 DEF OrchRoomSet
  <2> QED BY <1>1, <2>1, Seven DEF Ranged
<1>5. Single(OrchRoom)
  <2>1. \A j \in 1 .. 7 : OrchRoom[1] = OrchRoom[j] => j = 1
    BY <1>2, <1>3
  <2>2. \A j \in 1 .. 7 : OrchRoom[2] = OrchRoom[j] => j = 2
    BY <1>2, <1>3
  <2>3. \A j \in 1 .. 7 : OrchRoom[3] = OrchRoom[j] => j = 3
    BY <1>2, <1>3
  <2>4. \A j \in 1 .. 7 : OrchRoom[4] = OrchRoom[j] => j = 4
    BY <1>2, <1>3
  <2>5. \A j \in 1 .. 7 : OrchRoom[5] = OrchRoom[j] => j = 5
    BY <1>2, <1>3
  <2>6. \A j \in 1 .. 7 : OrchRoom[6] = OrchRoom[j] => j = 6
    BY <1>2, <1>3
  <2>7. \A j \in 1 .. 7 : OrchRoom[7] = OrchRoom[j] => j = 7
    BY <1>2, <1>3
  <2> QED BY <1>1, <1>3, <2>1, <2>2, <2>3, <2>4, <2>5, <2>6, <2>7 DEF Single
<1>6. OrchRoom \in Seq(Everything)
  <2>1. OrchRoom = [i \in 1 .. 7 |-> OrchRoom[i]]
    BY DEF OrchRoom
  <2>2. \A i \in 1 .. 7 : OrchRoom[i] \in Everything
    BY <1>2, <1>3 DEF Everything
  <2> QED BY <2>1, <2>2, Listed
<1> QED BY <1>1, <1>2, <1>4, <1>5, <1>6

LEMMA PaperPieces ==
  /\ Papers \in Seq(Everything) /\ Single(Papers) /\ Ranged(Papers) = PaperSet /\ Len(Papers) = 3
<1>1. Len(Papers) = 3
  BY DEF Papers
<1>2. /\ Papers[1] = "BINDINGS" /\ Papers[2] = "README"
      /\ Papers[3] = "MODELS"
  BY DEF Papers
<1>3. 1 .. 3 = {1, 2, 3}
  OBVIOUS
<1>4. Ranged(Papers) = PaperSet
  BY <1>1, <1>2, <1>3 DEF Ranged, PaperSet
<1>5. Single(Papers)
  <2>1. \A j \in 1 .. 3 : Papers[1] = Papers[j] => j = 1
    BY <1>2, <1>3
  <2>2. \A j \in 1 .. 3 : Papers[2] = Papers[j] => j = 2
    BY <1>2, <1>3
  <2>3. \A j \in 1 .. 3 : Papers[3] = Papers[j] => j = 3
    BY <1>2, <1>3
  <2> QED BY <1>1, <1>3, <2>1, <2>2, <2>3 DEF Single
<1>6. Papers \in Seq(Everything)
  <2>1. Papers = [i \in 1 .. 3 |-> Papers[i]]
    BY DEF Papers
  <2>2. \A i \in 1 .. 3 : Papers[i] \in Everything
    BY <1>2, <1>3 DEF Everything
  <2> QED BY <2>1, <2>2, Listed
<1> QED BY <1>1, <1>2, <1>4, <1>5, <1>6

LEMMA StartPieces ==
  /\ Starts \in Seq(Everything) /\ Single(Starts) /\ Ranged(Starts) = StartSet /\ Len(Starts) = 2
<1>1. Len(Starts) = 2
  BY DEF Starts
<1>2. /\ Starts[1] = "START owner" /\ Starts[2] = "START builder"
  BY DEF Starts
<1>3. 1 .. 2 = {1, 2}
  OBVIOUS
<1>4. Ranged(Starts) = StartSet
  BY <1>1, <1>2, <1>3 DEF Ranged, StartSet
<1>5. Single(Starts)
  <2>1. \A j \in 1 .. 2 : Starts[1] = Starts[j] => j = 1
    BY <1>2, <1>3
  <2>2. \A j \in 1 .. 2 : Starts[2] = Starts[j] => j = 2
    BY <1>2, <1>3
  <2> QED BY <1>1, <1>3, <2>1, <2>2 DEF Single
<1>6. Starts \in Seq(Everything)
  <2>1. Starts = [i \in 1 .. 2 |-> Starts[i]]
    BY DEF Starts
  <2>2. \A i \in 1 .. 2 : Starts[i] \in Everything
    BY <1>2, <1>3 DEF Everything
  <2> QED BY <2>1, <2>2, Listed
<1> QED BY <1>1, <1>2, <1>4, <1>5, <1>6

LEMMA ToolPieces ==
  /\ Toolbox \in Seq(Everything) /\ Single(Toolbox) /\ Ranged(Toolbox) = ToolSet /\ Len(Toolbox) = 7
<1>1. Len(Toolbox) = 7
  BY DEF Toolbox
<1>2. /\ Toolbox[1] = ".claude" /\ Toolbox[2] = "settings"
      /\ Toolbox[3] = "workflows" /\ Toolbox[4] = "integrity"
      /\ Toolbox[5] = "tools" /\ Toolbox[6] = "validate_auth_log"
      /\ Toolbox[7] = "conformance_check"
  BY DEF Toolbox
<1>3. 1 .. 7 = {1, 2, 3, 4, 5, 6, 7}
  OBVIOUS
<1>4. Ranged(Toolbox) = ToolSet
  <2>1. ToolSet =
        {Toolbox[1], Toolbox[2], Toolbox[3], Toolbox[4], Toolbox[5], Toolbox[6], Toolbox[7]}
    BY <1>2 DEF ToolSet
  <2> QED BY <1>1, <2>1, Seven DEF Ranged
<1>5. Single(Toolbox)
  <2>1. \A j \in 1 .. 7 : Toolbox[1] = Toolbox[j] => j = 1
    BY <1>2, <1>3
  <2>2. \A j \in 1 .. 7 : Toolbox[2] = Toolbox[j] => j = 2
    BY <1>2, <1>3
  <2>3. \A j \in 1 .. 7 : Toolbox[3] = Toolbox[j] => j = 3
    BY <1>2, <1>3
  <2>4. \A j \in 1 .. 7 : Toolbox[4] = Toolbox[j] => j = 4
    BY <1>2, <1>3
  <2>5. \A j \in 1 .. 7 : Toolbox[5] = Toolbox[j] => j = 5
    BY <1>2, <1>3
  <2>6. \A j \in 1 .. 7 : Toolbox[6] = Toolbox[j] => j = 6
    BY <1>2, <1>3
  <2>7. \A j \in 1 .. 7 : Toolbox[7] = Toolbox[j] => j = 7
    BY <1>2, <1>3
  <2> QED BY <1>1, <1>3, <2>1, <2>2, <2>3, <2>4, <2>5, <2>6, <2>7 DEF Single
<1>6. Toolbox \in Seq(Everything)
  <2>1. Toolbox = [i \in 1 .. 7 |-> Toolbox[i]]
    BY DEF Toolbox
  <2>2. \A i \in 1 .. 7 : Toolbox[i] \in Everything
    BY <1>2, <1>3 DEF Everything
  <2> QED BY <2>1, <2>2, Listed
<1> QED BY <1>1, <1>2, <1>4, <1>5, <1>6

Nowhere == <<>>
LEMMA LastPieces ==
  /\ OrchStart \in Seq(Everything) /\ Single(OrchStart) /\ Ranged(OrchStart) = {"START orchestrator"} /\ Len(OrchStart) = 1
  /\ Nowhere \in Seq(Everything) /\ Single(Nowhere) /\ Ranged(Nowhere) = {} /\ Len(Nowhere) = 0
<1>1. Len(OrchStart) = 1 /\ OrchStart[1] = "START orchestrator"
  BY DEF OrchStart
<1>2. 1 .. 1 = {1}
  OBVIOUS
<1>7. 1 .. 0 = {}
  OBVIOUS
<1>3. Ranged(OrchStart) = {"START orchestrator"} /\ Single(OrchStart)
  <2>1. 1 .. Len(OrchStart) = {1}
    BY <1>1, <1>2
  <2>2. Ranged(OrchStart) = {"START orchestrator"}
    <3>1. \A i \in 1 .. Len(OrchStart) : OrchStart[i] = "START orchestrator"
      BY <1>1, <2>1
    <3>2. 1 \in 1 .. Len(OrchStart)
      BY <2>1
    <3> QED BY <3>1, <3>2 DEF Ranged
  <2>3. Single(OrchStart)
    BY <2>1 DEF Single
  <2> QED BY <2>2, <2>3
<1>4. OrchStart \in Seq(Everything)
  <2>1. OrchStart = [i \in 1 .. 1 |-> OrchStart[i]]
    BY DEF OrchStart
  <2>2. \A i \in 1 .. 1 : OrchStart[i] \in Everything
    BY <1>1, <1>2 DEF Everything
  <2> QED BY <2>1, <2>2, Listed
<1>5. Nowhere \in Seq(Everything) /\ Len(Nowhere) = 0
  <2>1. <<>> \in Seq(Everything)
    OBVIOUS
  <2>2. Len(<<>>) = 0
    OBVIOUS
  <2> QED BY <2>1, <2>2 DEF Nowhere
<1>6. Single(Nowhere) /\ Ranged(Nowhere) = {}
  BY <1>5, <1>7 DEF Single, Ranged
<1> QED BY <1>1, <1>3, <1>4, <1>5, <1>6

OrchPart(q) == IF Trio(q) THEN OrchRoom ELSE Nowhere
OrchPartSet(q) == IF Trio(q) THEN OrchRoomSet ELSE {}
LastPart(q) == IF Trio(q) THEN OrchStart ELSE Nowhere
LastPartSet(q) == IF Trio(q) THEN {"START orchestrator"} ELSE {}
WaySet(q) == DoorSet \cup RoomSet \cup OrchPartSet(q) \cup PaperSet \cup StartSet \cup LastPartSet(q) \cup ToolSet

\* No two steps of a stamp make the same thing, and the first makes the channel.
LEMMA WayIs ==
  ASSUME NEW q
  PROVE  /\ Way(q) \in Seq(Everything) /\ Single(Way(q)) /\ Ranged(Way(q)) = WaySet(q)
         /\ Len(Way(q)) = IF Trio(q) THEN 29 ELSE 21
         /\ Way(q)[1] = "channel"
<1>1. PICK o \in Seq(Everything) : /\ o = OrchPart(q) /\ Single(o) /\ Ranged(o) = OrchPartSet(q)
                                   /\ Len(o) = IF Trio(q) THEN 7 ELSE 0
  <2>1. CASE Trio(q)
    BY <2>1, OrchPieces DEF OrchPart, OrchPartSet
  <2>2. CASE ~Trio(q)
    BY <2>2, LastPieces DEF OrchPart, OrchPartSet
  <2> QED BY <2>1, <2>2
<1>2. PICK l \in Seq(Everything) : /\ l = LastPart(q) /\ Single(l) /\ Ranged(l) = LastPartSet(q)
                                   /\ Len(l) = IF Trio(q) THEN 1 ELSE 0
  <2>1. CASE Trio(q)
    BY <2>1, LastPieces DEF LastPart, LastPartSet
  <2>2. CASE ~Trio(q)
    BY <2>2, LastPieces DEF LastPart, LastPartSet
  <2> QED BY <2>1, <2>2
<1>3. /\ Doorway \in Seq(Everything) /\ Rooms \in Seq(Everything) /\ Papers \in Seq(Everything)
      /\ Starts \in Seq(Everything) /\ Toolbox \in Seq(Everything)
  BY DoorPieces, RoomPieces, PaperPieces, StartPieces, ToolPieces
<1>4. /\ DoorSet \cap RoomSet = {} /\ (DoorSet \cup RoomSet) \cap OrchRoomSet = {}
      /\ (DoorSet \cup RoomSet \cup OrchRoomSet) \cap PaperSet = {}
  BY DEF DoorSet, RoomSet, OrchRoomSet, PaperSet
<1>5. StartSet \cap {"START orchestrator"} = {}
  BY DEF StartSet
<1>6. (DoorSet \cup RoomSet \cup OrchRoomSet \cup PaperSet) \cap (StartSet \cup {"START orchestrator"}) = {}
  BY DEF DoorSet, RoomSet, OrchRoomSet, PaperSet, StartSet
<1>7. (DoorSet \cup RoomSet \cup OrchRoomSet \cup PaperSet \cup StartSet \cup {"START orchestrator"}) \cap ToolSet = {}
  BY DEF DoorSet, RoomSet, OrchRoomSet, PaperSet, StartSet, ToolSet
<1>8. PICK a \in Seq(Everything) : /\ a = Doorway \o Rooms /\ Single(a) /\ Ranged(a) = DoorSet \cup RoomSet
                                   /\ Len(a) = 9 /\ a[1] = "channel"
  <2>1. 1 \in 1 .. 3
    OBVIOUS
  <2>2. Ranged(Doorway) \cap Ranged(Rooms) = {}
    BY <1>4, DoorPieces, RoomPieces
  <2>3. Joined(Doorway, Rooms)
    BY <1>3, <2>2, Chained, DoorPieces, RoomPieces DEF Joined
  <2>4. PICK x : x = Doorway \o Rooms
    OBVIOUS
  <2>5. x \in Seq(Everything) /\ Single(x) /\ Ranged(x) = DoorSet \cup RoomSet
    BY <2>3, <2>4, DoorPieces, RoomPieces DEF Joined
  <2>6. Len(x) = 9
    <3>1. Len(x) = 3 + 6
      BY <2>3, <2>4, DoorPieces, RoomPieces DEF Joined
    <3> QED BY <3>1
  <2>7. x[1] = "channel"
    BY <2>1, <2>3, <2>4, DoorPieces DEF Joined
  <2> QED BY <2>4, <2>5, <2>6, <2>7
<1>9. PICK b \in Seq(Everything) : /\ b = a \o o /\ Single(b)
                                   /\ Ranged(b) = DoorSet \cup RoomSet \cup OrchPartSet(q)
                                   /\ Len(b) = 9 + Len(o) /\ b[1] = "channel"
  <2>1. 1 \in 1 .. 9
    OBVIOUS
  <2>2. Ranged(a) \cap Ranged(o) = {}
    BY <1>1, <1>4, <1>8 DEF OrchPartSet
  <2>3. Joined(a, o)
    BY <1>1, <1>8, <2>2, Chained DEF Joined
  <2> QED BY <1>1, <1>8, <2>1, <2>3 DEF Joined
<1>10. PICK c \in Seq(Everything) : /\ c = b \o Papers /\ Single(c)
                                    /\ Ranged(c) = DoorSet \cup RoomSet \cup OrchPartSet(q) \cup PaperSet
                                    /\ Len(c) = 9 + Len(o) + 3 /\ c[1] = "channel"
  <2>1. 1 \in 1 .. Len(b)
    BY <1>1, <1>9
  <2>2. Ranged(b) \cap Ranged(Papers) = {}
    BY <1>4, <1>9, PaperPieces DEF OrchPartSet
  <2>3. Joined(b, Papers)
    BY <1>3, <1>9, <2>2, Chained, PaperPieces DEF Joined
  <2> QED BY <1>9, <2>1, <2>3, PaperPieces DEF Joined
<1>11. PICK d \in Seq(Everything) : /\ d = Starts \o l /\ Single(d) /\ Ranged(d) = StartSet \cup LastPartSet(q)
                                    /\ Len(d) = 2 + Len(l)
  <2>1. Ranged(Starts) \cap Ranged(l) = {}
    BY <1>2, <1>5, StartPieces DEF LastPartSet
  <2>2. Joined(Starts, l)
    BY <1>2, <1>3, <2>1, Chained, StartPieces DEF Joined
  <2> QED BY <1>2, <2>2, StartPieces DEF Joined
<1>12. PICK e \in Seq(Everything) : /\ e = c \o d /\ Single(e)
                                    /\ Ranged(e) = DoorSet \cup RoomSet \cup OrchPartSet(q) \cup PaperSet
                                                     \cup StartSet \cup LastPartSet(q)
                                    /\ Len(e) = 9 + Len(o) + 3 + (2 + Len(l)) /\ e[1] = "channel"
  <2>1. 1 \in 1 .. Len(c)
    BY <1>1, <1>10
  <2>2. Ranged(c) \cap Ranged(d) = {}
    BY <1>6, <1>10, <1>11 DEF OrchPartSet, LastPartSet
  <2>3. Joined(c, d)
    BY <1>10, <1>11, <2>2, Chained DEF Joined
  <2> QED BY <1>10, <1>11, <2>1, <2>3 DEF Joined
<1>13. PICK w \in Seq(Everything) : /\ w = e \o Toolbox /\ Single(w) /\ Ranged(w) = WaySet(q)
                                    /\ Len(w) = 9 + Len(o) + 3 + (2 + Len(l)) + 7 /\ w[1] = "channel"
  <2>1. 1 \in 1 .. Len(e)
    BY <1>1, <1>2, <1>12
  <2>2. Ranged(e) \cap Ranged(Toolbox) = {}
    BY <1>7, <1>12, ToolPieces DEF OrchPartSet, LastPartSet
  <2>3. Ranged(e) \cup Ranged(Toolbox) = WaySet(q)
    BY <1>12, ToolPieces DEF WaySet
  <2>4. Joined(e, Toolbox)
    BY <1>3, <1>12, <2>2, Chained, ToolPieces DEF Joined
  <2> QED BY <1>12, <2>1, <2>3, <2>4, ToolPieces DEF Joined
<1>14. w = Way(q)
  BY <1>1, <1>2, <1>8, <1>9, <1>10, <1>11, <1>12, <1>13 DEF Way, OrchPart, LastPart, Nowhere
<1>15. Len(w) = IF Trio(q) THEN 29 ELSE 21
  BY <1>1, <1>2, <1>13
<1> QED BY <1>13, <1>14, <1>15

Bare == [by |-> NoStamper, whole |-> FALSE]
Mine(s) == [by |-> s, whole |-> TRUE]
Half(s) == [by |-> s, whole |-> FALSE]
Entry == [by : Stampers \cup {NoStamper}, whole : BOOLEAN]
Phases == {"idle", "stamping", "git", "done", "refused", "usage", "error", "dead"}
Fills(q) ==
  {"CANONICAL_REPO", "REVIEWER", "PRINCIPAL", "PINNED_RESOURCES", "SIGNING", "HEARTBEAT",
   "WATCHER", "EMBARGOES / GATES"}
  \cup (IF Trio(q) THEN {"FLAVOR", "AUTH_PROVENANCE", "ESCALATION", "DUTIES", "TICKS"} ELSE {})
  \cup (IF q \in {"2agent.git-sync", "3agent.git-sync"} THEN {"WORKSPACE_REMOTE"} ELSE {})
Answers == {"FILL", "DEFERRED", "answer"}

StampTypes ==
  /\ tree \in [Dest -> Entry] /\ stampPc \in [Stampers -> Phases]
  /\ stamped \in [Stampers -> Topologies] /\ step \in [Stampers -> 1 .. 30]
  /\ rows = <<>> \/ \E q \in Topologies \ {"no --profile"} : rows \in [Fills(q) -> Answers]
  /\ repo \subseteq {"init", "add", "commit"} /\ deaths \in 0 .. MaxDeaths

\* A stamper that has made the channel is the only one.
Ahead(s) == stampPc[s] \in {"git", "done"} \/ (stampPc[s] = "stamping" /\ step[s] > 1)
Upto(s) == IF stampPc[s] = "stamping" THEN step[s] - 1 ELSE Len(Way(stamped[s]))
Has(w, k, x) == \E i \in 1 .. k : w[i] = x
\* Of w, s has written the first k, and may be writing the next; nobody else has anything.
OwnTree(t, s, w, k) ==
  /\ \A i \in 1 .. k : t[w[i]] = Mine(s)
  /\ \A p \in Dest : t[p] # Bare => Has(w, k, p) \/ (k < Len(w) /\ p = w[k + 1] /\ t[p] = Half(s))
AnswersOK(r, q) ==
  /\ DOMAIN r = Fills(q)
  /\ (\E slot \in {"CANONICAL_REPO", "REVIEWER"} : r[slot] # "FILL") =>
       \A slot \in DOMAIN r : r[slot] = "FILL" => slot \in {"PRINCIPAL", "WORKSPACE_REMOTE"}
ChannelOK ==
  /\ tree["channel"] # Bare => tree["channel"].whole
  /\ tree["channel"] = Bare => \A p \in Dest : tree[p] = Bare
  /\ \A s \in Stampers : Ahead(s) => tree["channel"] = Mine(s)
OwnOK ==
  \A s \in Stampers :
    /\ stampPc[s] = "stamping" => step[s] <= Len(Way(stamped[s])) + 1 /\ stamped[s] # "no --profile"
    /\ stampPc[s] = "git" => step[s] <= 3
    /\ Ahead(s) => /\ OwnTree(tree, s, Way(stamped[s]), Upto(s))
                   /\ Has(Way(stamped[s]), Upto(s), "BINDINGS") => AnswersOK(rows, stamped[s])
StampInv == StampTypes /\ ChannelOK /\ OwnOK

LEMMA StampNames ==
  /\ \A q : Stamping!Steps(q) = Way(q) /\ Stamping!FillSlots(q) = Fills(q)
  /\ Stamping!Paths = Dest /\ Stamping!Absent = Bare
  /\ Stamping!Profiles \cup {Stamping!Unasked} = Topologies /\ Stamping!Unasked = "no --profile"
<1>1. \A q : Stamping!Steps(q) = Way(q)
  BY DEF Stamping!Steps, Stamping!RoleSteps, Stamping!OrchSteps, Stamping!StartSteps, Stamping!ThreeAgent,
         Way, Doorway, Rooms, OrchRoom, Papers, Starts, OrchStart, Toolbox, Trio
<1>2. \A q : Stamping!FillSlots(q) = Fills(q)
  BY DEF Stamping!FillSlots, Stamping!ThreeAgent, Fills, Trio
<1>3. Stamping!Paths = Dest
  <2>1. PICK w \in Seq(Everything) : w = Way(Full)
    BY WayIs
  <2>2. DOMAIN w = 1 .. Len(w)
    OBVIOUS
  <2>3. Stamping!Paths = {w[i] : i \in DOMAIN w}
    BY <1>1, <2>1 DEF Stamping!Paths, Stamping!ToSet, Full
  <2> QED BY <2>1, <2>2, <2>3 DEF Dest, Ranged
<1> QED BY <1>1, <1>2, <1>3 DEF Stamping!Absent, Bare, Stamping!Profiles, Stamping!Unasked, Topologies

LEMMA WayFacts ==
  ASSUME NEW q
  PROVE  /\ Len(Way(q)) \in {21, 29} /\ Len(Way(q)) \in 1 .. 29 /\ Single(Way(q)) /\ Way(q)[1] = "channel"
         /\ \A i \in 1 .. Len(Way(q)) : Way(q)[i] \in Dest
         /\ "channel" \in Dest /\ \E i \in 1 .. Len(Way(q)) : Way(q)[i] = "BINDINGS"
         /\ Dest = WaySet(Full)
<1>1. Len(Way(q)) \in {21, 29}
  BY WayIs
<1>2. Len(Way(q)) \in 1 .. 29
  BY <1>1
<1>3. Ranged(Way(q)) = WaySet(q) /\ Dest = WaySet(Full)
  BY WayIs DEF Dest
<1>4. WaySet(q) \subseteq WaySet(Full)
  BY DEF WaySet, OrchPartSet, LastPartSet, Trio, Full
<1>5. \A i \in 1 .. Len(Way(q)) : Way(q)[i] \in Dest
  BY <1>3, <1>4 DEF Ranged
<1>6. "BINDINGS" \in WaySet(q) /\ "channel" \in WaySet(Full)
  BY DEF WaySet, PaperSet, DoorSet
<1>7. \E i \in 1 .. Len(Way(q)) : Way(q)[i] = "BINDINGS"
  BY <1>3, <1>6 DEF Ranged
<1> QED BY <1>1, <1>2, <1>3, <1>5, <1>6, <1>7, WayIs

LEMMA Entries ==
  ASSUME NEW s \in Stampers, NEW r \in Stampers
  PROVE  /\ Bare \in Entry /\ Mine(s) \in Entry /\ Half(s) \in Entry
         /\ Mine(s) # Bare /\ Half(s) # Bare /\ Mine(s) # Half(s) /\ (Mine(s) = Mine(r) => s = r)
         /\ Mine(s).whole /\ ~Half(s).whole
<1>1. Bare \in Entry /\ Mine(s) \in Entry /\ Half(s) \in Entry
  BY DEF Bare, Mine, Half, Entry
<1>2. Mine(s).whole = TRUE /\ Half(s).whole = FALSE /\ Bare.whole = FALSE
  BY DEF Bare, Mine, Half
<1>3. Mine(s).by = s /\ Mine(r).by = r /\ Half(s).by = s /\ Bare.by = NoStamper /\ s # NoStamper
  BY StampAssumption DEF Bare, Mine, Half
<1> QED BY <1>1, <1>2, <1>3

\* The next of w is written, or begun.
LEMMA OneMore ==
  ASSUME NEW s \in Stampers, NEW w \in Seq(Everything), Single(w), \A i \in 1 .. Len(w) : w[i] \in Dest,
         NEW k \in Nat, k < Len(w), NEW t \in [Dest -> Entry], OwnTree(t, s, w, k),
         NEW u \in [Dest -> Entry], \A p \in Dest : p # w[k + 1] => u[p] = t[p]
  PROVE  /\ u[w[k + 1]] = Mine(s) => OwnTree(u, s, w, k + 1)
         /\ u[w[k + 1]] = Half(s) => OwnTree(u, s, w, k)
<1>1. k + 1 \in 1 .. Len(w) /\ \A i \in 1 .. k : i \in 1 .. Len(w) /\ i # k + 1
  OBVIOUS
<1>2. \A i \in 1 .. k : w[i] # w[k + 1] /\ w[i] \in Dest /\ u[w[i]] = Mine(s)
  BY <1>1 DEF Single, OwnTree
<1>3. ASSUME u[w[k + 1]] = Mine(s) PROVE OwnTree(u, s, w, k + 1)
  <2>1. \A i \in 1 .. k + 1 : i \in 1 .. k \/ i = k + 1
    OBVIOUS
  <2>2. \A i \in 1 .. k : i \in 1 .. k + 1
    OBVIOUS
  <2>3. \A i \in 1 .. k + 1 : u[w[i]] = Mine(s)
    BY <1>2, <1>3, <2>1
  <2>4. \A p \in Dest : u[p] # Bare => Has(w, k + 1, p)
    <3>1. \A p : Has(w, k, p) => Has(w, k + 1, p)
      BY <2>2 DEF Has
    <3>2. k + 1 \in 1 .. k + 1
      OBVIOUS
    <3>3. Has(w, k + 1, w[k + 1])
      BY <3>2 DEF Has
    <3> QED BY <3>1, <3>3 DEF OwnTree
  <2> QED BY <2>3, <2>4 DEF OwnTree
<1>4. ASSUME u[w[k + 1]] = Half(s) PROVE OwnTree(u, s, w, k)
  BY <1>2, <1>4 DEF OwnTree
<1> QED BY <1>3, <1>4

LEMMA StampTyped ==
  ASSUME StampInv, NEW s \in Stampers
  PROVE  /\ tree \in [Dest -> Entry] /\ stampPc \in [Stampers -> Phases] /\ stamped \in [Stampers -> Topologies]
         /\ step \in [Stampers -> 1 .. 30] /\ step[s] \in Nat /\ step[s] \in 1 .. 30 /\ stamped[s] \in Topologies
         /\ Way(stamped[s]) \in Seq(Everything) /\ Len(Way(stamped[s])) \in 1 .. 29
<1>1. step[s] \in 1 .. 30 /\ stamped[s] \in Topologies
  BY DEF StampInv, StampTypes
<1>2. step[s] \in Nat
  BY <1>1
<1> QED BY <1>1, <1>2, WayIs, WayFacts DEF StampInv, StampTypes

LEMMA StampStart == Stamping!Init => StampInv
<1> SUFFICES ASSUME Stamping!Init PROVE StampInv
  OBVIOUS
<1>1. /\ tree = [p \in Dest |-> Bare] /\ stampPc = [s \in Stampers |-> "idle"]
      /\ stamped = [s \in Stampers |-> "no --profile"] /\ step = [s \in Stampers |-> 1]
      /\ rows = <<>> /\ repo = {} /\ deaths = 0
  BY StampNames DEF Stamping!Init
<1>2. \A s \in Stampers : stampPc[s] = "idle" /\ ~Ahead(s)
  BY <1>1 DEF Ahead
<1>3. StampTypes
  <2>1. Bare \in Entry
    BY DEF Bare, Entry
  <2>2. step \in [Stampers -> 1 .. 30]
    <3>1. 1 \in 1 .. 30
      OBVIOUS
    <3> QED BY <1>1, <3>1
  <2>3. deaths \in 0 .. MaxDeaths
    <3>1. 0 \in 0 .. MaxDeaths
      BY StampAssumption
    <3> QED BY <1>1, <3>1
  <2>4. tree \in [Dest -> Entry]
    BY <1>1, <2>1
  <2>5. stampPc \in [Stampers -> Phases] /\ stamped \in [Stampers -> Topologies]
    BY <1>1 DEF Phases, Topologies
  <2> QED BY <1>1, <2>2, <2>3, <2>4, <2>5 DEF StampTypes
<1>4. ChannelOK
  BY <1>1, <1>2, WayFacts DEF ChannelOK
<1>5. OwnOK
  BY <1>2 DEF OwnOK
<1> QED BY <1>3, <1>4, <1>5 DEF StampInv

LEMMA OneEach ==
  ASSUME NEW T, NEW D, NEW d \in [D -> T], NEW s \in D, NEW x \in T, NEW e, e = [d EXCEPT ![s] = x]
  PROVE  /\ e \in [D -> T] /\ e[s] = x
         /\ \A q \in D : q # s => e[q] = d[q]
OBVIOUS

\* Nothing is written, and whoever is ahead was: nothing more is to be known.
LEMMA NothingMade ==
  ASSUME StampInv, StampTypes', UNCHANGED <<tree, rows>>,
         \A s \in Stampers :
           /\ stampPc'[s] = "stamping" => step'[s] <= Len(Way(stamped'[s])) + 1 /\ stamped'[s] # "no --profile"
           /\ stampPc'[s] = "git" => step'[s] <= 3
           /\ Ahead(s)' => Ahead(s) /\ stamped'[s] = stamped[s] /\ Upto(s)' = Upto(s)
  PROVE  StampInv'
<1>1. ChannelOK'
  BY DEF StampInv, ChannelOK
<1>2. OwnOK'
  BY DEF StampInv, OwnOK
<1> QED BY <1>1, <1>2 DEF StampInv

LEMMA StampBegun == ASSUME StampInv, NEW s \in Stampers, Stamping!Begin(s) PROVE StampInv'
<1>1. /\ stampPc[s] = "idle" /\ UNCHANGED <<tree, rows, repo, deaths>> /\ step' = [step EXCEPT ![s] = 1]
  BY DEF Stamping!Begin
<1>2. \/ stampPc' = [stampPc EXCEPT ![s] = "usage"] /\ stamped' = stamped
      \/ \E q \in Topologies \ {"no --profile"}, x \in {"stamping", "refused"} :
           stamped' = [stamped EXCEPT ![s] = q] /\ stampPc' = [stampPc EXCEPT ![s] = x]
  <2>1. PICK asked \in Topologies, alone \in BOOLEAN :
          IF Stamping!Conflict(asked, alone)
            THEN stampPc' = [stampPc EXCEPT ![s] = "usage"] /\ UNCHANGED stamped
            ELSE /\ stamped' = [stamped EXCEPT ![s] = Stamping!Resolved(asked, alone)]
                 /\ stampPc' = [stampPc EXCEPT ![s] = IF Stamping!Empty THEN "stamping" ELSE "refused"]
    BY StampNames DEF Stamping!Begin
  <2>2. Stamping!Resolved(asked, alone) \in Topologies \ {"no --profile"}
    BY StampNames DEF Stamping!Resolved, Topologies
  <2> QED BY <2>1, <2>2
<1>3. /\ tree \in [Dest -> Entry] /\ stampPc \in [Stampers -> Phases] /\ stamped \in [Stampers -> Topologies]
      /\ step \in [Stampers -> 1 .. 30]
  BY StampTyped
<1>4. 1 \in 1 .. 30
  OBVIOUS
<1>5. /\ step' \in [Stampers -> 1 .. 30] /\ step'[s] = 1 /\ \A r \in Stampers : r # s => step'[r] = step[r]
  BY <1>1, <1>3, <1>4, OneEach
<1>6. /\ stampPc' \in [Stampers -> Phases] /\ stampPc'[s] \in {"usage", "stamping", "refused"}
      /\ \A r \in Stampers : r # s => stampPc'[r] = stampPc[r]
  <2>1. PICK x \in {"usage", "stamping", "refused"} : stampPc' = [stampPc EXCEPT ![s] = x]
    BY <1>2
  <2>2. x \in Phases
    BY DEF Phases
  <2> QED BY <1>3, <2>1, <2>2, OneEach
<1>7. /\ stamped' \in [Stampers -> Topologies] /\ (stampPc'[s] = "stamping" => stamped'[s] # "no --profile")
      /\ \A r \in Stampers : r # s => stamped'[r] = stamped[r]
  <2>1. CASE stampPc' = [stampPc EXCEPT ![s] = "usage"] /\ stamped' = stamped
    BY <1>3, <2>1
  <2>2. CASE \E q \in Topologies \ {"no --profile"} : stamped' = [stamped EXCEPT ![s] = q]
    <3>1. PICK q \in Topologies \ {"no --profile"} : stamped' = [stamped EXCEPT ![s] = q]
      BY <2>2
    <3>2. /\ stamped' \in [Stampers -> Topologies] /\ stamped'[s] = q
          /\ \A r \in Stampers : r # s => stamped'[r] = stamped[r]
      BY <1>3, <3>1, OneEach
    <3> QED BY <3>2
  <2> QED BY <1>2, <2>1, <2>2
<1>8. StampTypes'
  BY <1>1, <1>5, <1>6, <1>7 DEF StampInv, StampTypes
<1>9. ~Ahead(s)'
  BY <1>5, <1>6 DEF Ahead
<1>10. step'[s] <= Len(Way(stamped'[s])) + 1
  <2>1. \A n \in 1 .. 29 : 1 <= n + 1
    OBVIOUS
  <2> QED BY <1>5, <2>1, WayFacts
<1>11. ASSUME NEW r \in Stampers, r # s
       PROVE  /\ stampPc'[r] = "stamping" => step'[r] <= Len(Way(stamped'[r])) + 1 /\ stamped'[r] # "no --profile"
              /\ stampPc'[r] = "git" => step'[r] <= 3
              /\ Ahead(r)' => Ahead(r) /\ stamped'[r] = stamped[r] /\ Upto(r)' = Upto(r)
  BY <1>5, <1>6, <1>7, <1>11 DEF StampInv, OwnOK, Ahead, Upto
<1> QED BY <1>1, <1>6, <1>7, <1>8, <1>9, <1>10, <1>11, NothingMade

\* A step counted from one, and how many came before it.
LEMMA Counted ==
  ASSUME NEW n \in 1 .. 30, NEW l \in 1 .. 29, n <= l
  PROVE  /\ n - 1 \in Nat /\ n - 1 < l /\ (n - 1) + 1 = n /\ n \in 1 .. l /\ (n - 1 = 0 <=> ~(n > 1))
         /\ (n - 1 = 0 <=> n = 1) /\ n + 1 <= l + 1 /\ (n + 1) - 1 = (n - 1) + 1
         /\ \A i \in 1 .. n - 1 : i \in 1 .. l /\ i # n
         /\ \A i \in 1 .. (n - 1) + 1 : i \in 1 .. n - 1 \/ i = n
OBVIOUS

\* What a step that writes does.
LEMMA SomethingMade ==
  ASSUME StampInv, NEW s \in Stampers, stampPc[s] = "stamping", UNCHANGED <<stampPc, stamped>>,
         NEW p \in Dest, step[s] <= Len(Way(stamped[s])), p = Way(stamped[s])[step[s]],
         NEW x \in Entry, tree' = [tree EXCEPT ![p] = x], StampTypes',
         \/ /\ x = Mine(s) /\ step' = [step EXCEPT ![s] = step[s] + 1] /\ (tree[p] = Bare \/ tree[p] = Half(s))
            /\ p = "BINDINGS" => AnswersOK(rows', stamped[s])
            /\ p # "BINDINGS" => rows' = rows
         \/ x = Half(s) /\ step' = step /\ p # "channel" /\ rows' = rows
  PROVE  StampInv'
<1>1. PICK w \in Seq(Everything) : /\ w = Way(stamped[s]) /\ Single(w) /\ w[1] = "channel" /\ Len(w) \in 1 .. 29
                                   /\ \A i \in 1 .. Len(w) : w[i] \in Dest
  BY WayIs, WayFacts
<1>2. PICK k \in Nat : /\ k = step[s] - 1 /\ k < Len(w) /\ step[s] = k + 1 /\ k + 1 \in 1 .. Len(w)
                       /\ p = w[k + 1] /\ (k = 0 <=> ~(step[s] > 1)) /\ (k = 0 <=> k + 1 = 1)
                       /\ step[s] + 1 <= Len(w) + 1 /\ (step[s] + 1) - 1 = k + 1
                       /\ step[s] <= Len(w) + 1
                       /\ \A i \in 1 .. k : i \in 1 .. Len(w) /\ i # k + 1
                       /\ \A i \in 1 .. k + 1 : i \in 1 .. k \/ i = k + 1
  <2>1. PICK n \in 1 .. 30 : n = step[s]
    BY StampTyped
  <2>2. PICK l \in 1 .. 29 : l = Len(w)
    BY <1>1
  <2>3. n <= l /\ p = w[n]
    BY <1>1, <2>1, <2>2
  <2>4. n <= l + 1
    BY <2>3
  <2>5. PICK k : k = n - 1
    OBVIOUS
  <2>6. /\ k \in Nat /\ k < l /\ k + 1 = n /\ k + 1 \in 1 .. l /\ (k = 0 <=> ~(n > 1)) /\ (k = 0 <=> k + 1 = 1)
        /\ n + 1 <= l + 1 /\ (n + 1) - 1 = k + 1
        /\ \A i \in 1 .. k : i \in 1 .. l /\ i # k + 1
        /\ \A i \in 1 .. k + 1 : i \in 1 .. k \/ i = k + 1
    BY <2>3, <2>5, Counted
  <2> QED BY <2>1, <2>2, <2>3, <2>4, <2>5, <2>6
<1>3. tree \in [Dest -> Entry] /\ tree' \in [Dest -> Entry] /\ tree'[p] = x /\ \A q \in Dest : q # p => tree'[q] = tree[q]
  <2>1. tree \in [Dest -> Entry]
    BY StampTyped
  <2> QED BY <2>1, OneEach
<1>4. k = 0 <=> p = "channel"
  <2>1. 1 \in 1 .. Len(w)
    BY <1>1
  <2>2. k = 0 => p = "channel"
    BY <1>1, <1>2
  <2>3. p = "channel" => k + 1 = 1
    BY <1>1, <1>2, <2>1 DEF Single
  <2> QED BY <1>2, <2>2, <2>3
<1>5. Upto(s) = k /\ (Ahead(s) <=> k # 0)
  BY <1>2 DEF Upto, Ahead
\* The channel is his own before he writes anything else, and afterwards.
<1>6. /\ OwnTree(tree, s, w, k)
      /\ k # 0 => tree["channel"] = Mine(s)
      /\ k = 0 => x = Mine(s) /\ \A r \in Stampers : ~Ahead(r)
      /\ k # 0 => (Has(w, k, "BINDINGS") => AnswersOK(rows, stamped[s]))
      /\ \A r \in Stampers : Ahead(r) => r = s
  <2>1. CASE k # 0
    <3>1. Ahead(s) /\ tree["channel"] = Mine(s)
      BY <1>5, <2>1 DEF StampInv, ChannelOK
    <3>2. OwnTree(tree, s, w, k) /\ (Has(w, k, "BINDINGS") => AnswersOK(rows, stamped[s]))
      BY <1>1, <1>5, <3>1 DEF StampInv, OwnOK
    <3>3. \A r \in Stampers : Ahead(r) => r = s
      BY <3>1, Entries DEF StampInv, ChannelOK
    <3> QED BY <2>1, <3>1, <3>2, <3>3
  <2>2. CASE k = 0
    <3>1. p = "channel" /\ x = Mine(s) /\ "channel" \in Dest
      BY <1>4, <2>2, WayFacts
    <3>2. tree["channel"] = Bare \/ tree["channel"] = Half(s)
      BY <3>1, Entries
    <3>3. tree["channel"] = Bare
      BY <3>2, Entries DEF StampInv, ChannelOK
    <3>4. \A q \in Dest : tree[q] = Bare
      BY <3>3 DEF StampInv, ChannelOK
    <3>5. \A r \in Stampers : ~Ahead(r)
      BY <3>3, Entries DEF StampInv, ChannelOK
    <3>6. OwnTree(tree, s, w, k)
      <4>1. 1 .. 0 = {}
        OBVIOUS
      <4> QED BY <2>2, <3>4, <4>1 DEF OwnTree
    <3> QED BY <2>2, <3>1, <3>5, <3>6
  <2> QED BY <2>1, <2>2
<1>7. /\ x = Mine(s) => OwnTree(tree', s, w, k + 1)
      /\ x = Half(s) => OwnTree(tree', s, w, k)
  <2>1. PICK t \in [Dest -> Entry], u \in [Dest -> Entry] : t = tree /\ u = tree'
    BY <1>3
  <2>2. OwnTree(t, s, w, k) /\ (\A q \in Dest : q # w[k + 1] => u[q] = t[q]) /\ u[w[k + 1]] = x
    BY <1>2, <1>3, <1>6, <2>1
  <2>3. /\ u[w[k + 1]] = Mine(s) => OwnTree(u, s, w, k + 1)
        /\ u[w[k + 1]] = Half(s) => OwnTree(u, s, w, k)
    BY <1>1, <1>2, <2>2, OneMore
  <2> QED BY <2>1, <2>2, <2>3
<1>8. tree'["channel"] = Mine(s)
  BY <1>3, <1>4, <1>6, WayFacts
<1>9. ChannelOK'
  <2>1. ASSUME NEW r \in Stampers, Ahead(r)' PROVE r = s
    <3>1. CASE r # s
      <4>1. step'[r] = step[r]
        BY <3>1, StampTyped
      <4> QED BY <1>6, <2>1, <4>1 DEF Ahead
    <3> QED BY <3>1
  <2> QED BY <1>8, <2>1, Entries DEF ChannelOK
<1>10. ASSUME NEW r \in Stampers, r # s
       PROVE  /\ stampPc'[r] = "stamping" => step'[r] <= Len(Way(stamped'[r])) + 1 /\ stamped'[r] # "no --profile"
              /\ stampPc'[r] = "git" => step'[r] <= 3
              /\ ~Ahead(r)'
  <2>1. step'[r] = step[r]
    BY <1>10, StampTyped
  <2> QED BY <1>6, <1>10, <2>1 DEF StampInv, OwnOK, Ahead
<1>11. stamped'[s] = stamped[s] /\ stamped[s] # "no --profile" /\ Upto(s)' = step'[s] - 1 /\ stampPc'[s] = "stamping"
  BY DEF StampInv, OwnOK, Upto
<1>12. /\ step'[s] <= Len(w) + 1
       /\ OwnTree(tree', s, w, Upto(s)')
       /\ Has(w, Upto(s)', "BINDINGS") => AnswersOK(rows', stamped[s])
  <2>1. CASE /\ x = Mine(s) /\ step' = [step EXCEPT ![s] = step[s] + 1]
             /\ p = "BINDINGS" => AnswersOK(rows', stamped[s])
             /\ p # "BINDINGS" => rows' = rows
    <3>1. step'[s] = step[s] + 1
      BY <2>1, StampTyped
    <3>2. Upto(s)' = k + 1 /\ step'[s] <= Len(w) + 1
      BY <1>2, <1>11, <3>1
    <3>3. Has(w, k + 1, "BINDINGS") => Has(w, k, "BINDINGS") \/ p = "BINDINGS"
      BY <1>2 DEF Has
    <3>4. Has(w, k, "BINDINGS") => k # 0
      <4>1. 1 .. 0 = {}
        OBVIOUS
      <4> QED BY <4>1 DEF Has
    <3>5. Has(w, k + 1, "BINDINGS") => AnswersOK(rows', stamped[s])
      BY <1>6, <2>1, <3>3, <3>4
    <3> QED BY <1>7, <2>1, <3>2, <3>5
  <2>2. CASE x = Half(s) /\ step' = step /\ p # "channel" /\ rows' = rows
    <3>1. Upto(s)' = k /\ step'[s] <= Len(w) + 1 /\ k # 0
      BY <1>2, <1>4, <1>11, <2>2
    <3> QED BY <1>6, <1>7, <2>2, <3>1
  <2> QED BY <2>1, <2>2
<1>13. OwnOK'
  <2>1. Way(stamped'[s]) = w
    BY <1>1, <1>11
  <2> QED BY <1>10, <1>11, <1>12, <2>1 DEF OwnOK
<1> QED BY <1>9, <1>13 DEF StampInv

\* A step of the stamp, and the types after it.
LEMMA StepTaken ==
  ASSUME StampInv, NEW s \in Stampers, stampPc[s] = "stamping", step[s] <= Len(Way(stamped[s]))
  PROVE  /\ Way(stamped[s])[step[s]] \in Dest
         /\ [step EXCEPT ![s] = step[s] + 1] \in [Stampers -> 1 .. 30]
         /\ \A x \in Entry, p \in Dest : [tree EXCEPT ![p] = x] \in [Dest -> Entry]
<1>1. PICK n \in 1 .. 30 : n = step[s]
  BY StampTyped
<1>2. PICK l \in 1 .. 29 : l = Len(Way(stamped[s]))
  BY StampTyped
<1>3. n <= l
  BY <1>1, <1>2
<1>4. n \in 1 .. l /\ n + 1 \in 1 .. 30
  BY <1>3
<1>5. Way(stamped[s])[n] \in Dest
  BY <1>2, <1>4, WayFacts
<1>6. [step EXCEPT ![s] = n + 1] \in [Stampers -> 1 .. 30]
  BY <1>4, StampTyped
<1>7. tree \in [Dest -> Entry]
  BY StampTyped
<1> QED BY <1>1, <1>5, <1>6, <1>7

LEMMA DirMade == ASSUME StampInv, NEW s \in Stampers, Stamping!MakeDir(s) PROVE StampInv'
<1>1. PICK p : p = Way(stamped[s])[step[s]]
  OBVIOUS
<1>2. /\ stampPc[s] = "stamping" /\ step[s] <= Len(Way(stamped[s])) /\ p # "BINDINGS"
      /\ UNCHANGED <<stamped, rows, repo, deaths>>
      /\ \/ tree[p] = Bare /\ tree' = [tree EXCEPT ![p] = Mine(s)] /\ step' = [step EXCEPT ![s] = step[s] + 1] /\ stampPc' = stampPc
         \/ stampPc' = [stampPc EXCEPT ![s] = "error"] /\ UNCHANGED <<tree, step>>
  BY <1>1, StampNames DEF Stamping!MakeDir, Stamping!CanMake, Stamping!Directories, Mine
<1>3. p \in Dest /\ Mine(s) \in Entry
  BY <1>1, <1>2, StepTaken, Entries
<1>4. CASE tree[p] = Bare /\ tree' = [tree EXCEPT ![p] = Mine(s)] /\ step' = [step EXCEPT ![s] = step[s] + 1] /\ stampPc' = stampPc
  <2>1. tree' \in [Dest -> Entry] /\ step' \in [Stampers -> 1 .. 30]
    BY <1>2, <1>3, <1>4, StepTaken
  <2>2. StampTypes'
    BY <1>2, <1>4, <2>1 DEF StampInv, StampTypes
  <2> QED BY <1>1, <1>2, <1>3, <1>4, <2>2, SomethingMade
<1>5. CASE stampPc' = [stampPc EXCEPT ![s] = "error"] /\ UNCHANGED <<tree, step>>
  <2>1. /\ stampPc' \in [Stampers -> Phases] /\ stampPc'[s] = "error"
        /\ \A r \in Stampers : r # s => stampPc'[r] = stampPc[r]
    <3>1. "error" \in Phases
      BY DEF Phases
    <3> QED BY <1>5, <3>1, StampTyped, OneEach
  <2>2. StampTypes'
    BY <1>2, <1>5, <2>1 DEF StampInv, StampTypes
  <2>3. ASSUME NEW r \in Stampers
        PROVE  /\ stampPc'[r] = "stamping" => step'[r] <= Len(Way(stamped'[r])) + 1 /\ stamped'[r] # "no --profile"
               /\ stampPc'[r] = "git" => step'[r] <= 3
               /\ Ahead(r)' => Ahead(r) /\ stamped'[r] = stamped[r] /\ Upto(r)' = Upto(r)
    BY <1>2, <1>5, <2>1 DEF StampInv, OwnOK, Ahead, Upto
  <2> QED BY <1>2, <1>5, <2>2, <2>3, NothingMade
<1> QED BY <1>2, <1>4, <1>5

LEMMA PageBegun == ASSUME StampInv, NEW s \in Stampers, Stamping!Create(s) PROVE StampInv'
<1>1. PICK p : p = Way(stamped[s])[step[s]]
  OBVIOUS
<1>2. /\ stampPc[s] = "stamping" /\ step[s] <= Len(Way(stamped[s])) /\ p # "channel"
      /\ UNCHANGED <<stampPc, stamped, step, rows, repo, deaths>>
      /\ tree' = [tree EXCEPT ![p] = Half(s)]
  BY <1>1, StampNames DEF Stamping!Create, Stamping!Directories, Half
<1>3. p \in Dest /\ Half(s) \in Entry
  BY <1>1, <1>2, StepTaken, Entries
<1>4. tree' \in [Dest -> Entry]
  BY <1>2, <1>3, StepTaken
<1>5. StampTypes'
  BY <1>2, <1>4 DEF StampInv, StampTypes
<1> QED BY <1>1, <1>2, <1>3, <1>5, SomethingMade

\* Whoever answered one of the two slots the preflight asks for went through the
\* wizard, and the wizard leaves nothing but the remote and the principal's name.
LEMMA SlotsAnswered ==
  ASSUME NEW q \in Topologies, NEW wizard \in BOOLEAN, NEW deferred, NEW named \in Answers,
         NEW r, r = Stamping!SlotsAfter(q, wizard, deferred, named)
  PROVE  r \in [Fills(q) -> Answers] /\ AnswersOK(r, q)
<1>1. r = [slot \in Fills(q) |->
             CASE slot = "PRINCIPAL" -> named
               [] wizard /\ slot \in Stamping!Walked(q) -> IF slot \in deferred THEN "DEFERRED" ELSE "answer"
               [] OTHER -> "FILL"]
  BY StampNames DEF Stamping!SlotsAfter
<1>2. "FILL" \in Answers /\ "DEFERRED" \in Answers /\ "answer" \in Answers
  BY DEF Answers
<1>3. ASSUME NEW slot \in Fills(q)
      PROVE  /\ r[slot] \in Answers
             /\ slot # "PRINCIPAL" /\ r[slot] # "FILL" => wizard
             /\ slot # "PRINCIPAL" /\ wizard /\ slot \in Stamping!Walked(q) => r[slot] # "FILL"
  <2>1. CASE slot = "PRINCIPAL"
    <3>1. slot \notin Stamping!Walked(q)
      BY <2>1 DEF Stamping!Walked, Stamping!Preflight, Stamping!DayOne, Stamping!Deferrable,
                  Stamping!DeferrableOrch, Stamping!ThreeAgent
    <3>2. r[slot] = named
      BY <1>1, <2>1, <3>1
    <3> QED BY <2>1, <3>1, <3>2
  <2>2. CASE slot # "PRINCIPAL" /\ wizard /\ slot \in Stamping!Walked(q)
    <3>1. r[slot] = IF slot \in deferred THEN "DEFERRED" ELSE "answer"
      BY <1>1, <2>2
    <3>2. r[slot] \in Answers /\ r[slot] # "FILL"
      BY <1>2, <3>1
    <3> QED BY <2>2, <3>2
  <2>3. CASE slot # "PRINCIPAL" /\ ~(wizard /\ slot \in Stamping!Walked(q))
    <3>1. r[slot] = "FILL"
      BY <1>1, <2>3
    <3> QED BY <1>2, <2>3, <3>1
  <2> QED BY <2>1, <2>2, <2>3
<1>4. DOMAIN r = Fills(q) /\ r \in [Fills(q) -> Answers]
  BY <1>1, <1>3
<1>5. Fills(q) \subseteq Stamping!Walked(q) \cup {"PRINCIPAL", "WORKSPACE_REMOTE"}
  BY DEF Fills, Stamping!Walked, Stamping!Preflight, Stamping!DayOne, Stamping!Deferrable,
         Stamping!DeferrableOrch, Stamping!ThreeAgent, Trio
<1>6. "CANONICAL_REPO" \in Fills(q) /\ "REVIEWER" \in Fills(q)
  BY DEF Fills
<1>7. (\E slot \in {"CANONICAL_REPO", "REVIEWER"} : r[slot] # "FILL") => wizard
  BY <1>3, <1>6
<1>8. ASSUME wizard, NEW slot \in Fills(q), r[slot] = "FILL" PROVE slot \in {"PRINCIPAL", "WORKSPACE_REMOTE"}
  BY <1>3, <1>5, <1>8
<1> QED BY <1>4, <1>7, <1>8 DEF AnswersOK

LEMMA PageFilled == ASSUME StampInv, NEW s \in Stampers, Stamping!Fill(s) PROVE StampInv'
<1>1. PICK p : p = Way(stamped[s])[step[s]]
  OBVIOUS
<1>2. /\ stampPc[s] = "stamping" /\ step[s] <= Len(Way(stamped[s])) /\ tree[p] = Half(s)
      /\ UNCHANGED <<stampPc, stamped, repo, deaths>>
      /\ tree' = [tree EXCEPT ![p].whole = TRUE] /\ step' = [step EXCEPT ![s] = step[s] + 1]
  BY <1>1, StampNames DEF Stamping!Fill, Half
<1>3. p \in Dest /\ Mine(s) \in Entry
  BY <1>1, <1>2, StepTaken, Entries
<1>4. tree' = [tree EXCEPT ![p] = Mine(s)]
  <2>1. tree' = [tree EXCEPT ![p] = [tree[p] EXCEPT !.whole = TRUE]]
    BY <1>2
  <2>2. PICK h : h = tree[p]
    OBVIOUS
  <2>3. h \in Entry /\ h.by = s
    BY <1>2, <2>2, Entries DEF Half
  <2>4. PICK g : g = [h EXCEPT !.whole = TRUE]
    OBVIOUS
  <2>5. g \in Entry /\ g.by = s /\ g.whole = TRUE
    BY <2>3, <2>4 DEF Entry
  <2>6. g = [by |-> s, whole |-> TRUE]
    BY <2>5 DEF Entry
  <2> QED BY <2>1, <2>2, <2>4, <2>6 DEF Mine
<1>5. tree' \in [Dest -> Entry] /\ step' \in [Stampers -> 1 .. 30]
  <2>1. \A x \in Entry, q \in Dest : [tree EXCEPT ![q] = x] \in [Dest -> Entry]
    BY <1>2, StepTaken
  <2>2. [step EXCEPT ![s] = step[s] + 1] \in [Stampers -> 1 .. 30]
    BY <1>2, StepTaken
  <2>3. PICK m : m = Mine(s)
    OBVIOUS
  <2>4. [tree EXCEPT ![p] = m] \in [Dest -> Entry]
    BY <1>3, <2>1, <2>3
  <2> QED BY <1>2, <1>4, <2>2, <2>3, <2>4
<1>6. stamped[s] \in Topologies /\ stamped[s] # "no --profile"
  BY <1>2, StampTyped DEF StampInv, OwnOK
<1>7. CASE p = "BINDINGS"
  <2>1. PICK wizard \in BOOLEAN, deferred \in {{}, {"SIGNING", "TICKS"}}, named \in {"answer", "DEFERRED", "FILL"} :
          rows' = Stamping!SlotsAfter(stamped[s], wizard, deferred, named)
    BY <1>1, <1>7, StampNames DEF Stamping!Fill
  <2>2. named \in Answers
    BY DEF Answers
  <2>3. rows' \in [Fills(stamped[s]) -> Answers] /\ AnswersOK(rows', stamped[s])
    BY <1>6, <2>1, <2>2, SlotsAnswered
  <2>4. StampTypes'
    BY <1>2, <1>5, <1>6, <2>3 DEF StampInv, StampTypes
  <2> QED BY <1>1, <1>2, <1>3, <1>4, <1>7, <2>3, <2>4, SomethingMade
<1>8. CASE p # "BINDINGS"
  <2>1. rows' = rows
    BY <1>1, <1>8, StampNames DEF Stamping!Fill
  <2>2. StampTypes'
    BY <1>2, <1>5, <2>1 DEF StampInv, StampTypes
  <2> QED BY <1>1, <1>2, <1>3, <1>4, <1>8, <2>1, <2>2, SomethingMade
<1> QED BY <1>7, <1>8

LEMMA StampEnds == ASSUME StampInv, NEW s \in Stampers, Stamping!Stamped(s) PROVE StampInv'
<1>1. /\ stampPc[s] = "stamping" /\ step[s] > Len(Way(stamped[s])) /\ UNCHANGED <<tree, stamped, rows, deaths>>
      /\ repo' = {} /\ step' = [step EXCEPT ![s] = 1]
  BY StampNames DEF Stamping!Stamped
<1>2. PICK x \in {"git", "done"} : stampPc' = [stampPc EXCEPT ![s] = x]
  BY DEF Stamping!Stamped
<1>3. x \in Phases /\ 1 \in 1 .. 30
  BY DEF Phases
<1>4. /\ stampPc' \in [Stampers -> Phases] /\ stampPc'[s] = x
      /\ \A r \in Stampers : r # s => stampPc'[r] = stampPc[r]
  BY <1>2, <1>3, StampTyped, OneEach
<1>5. /\ step' \in [Stampers -> 1 .. 30] /\ step'[s] = 1 /\ \A r \in Stampers : r # s => step'[r] = step[r]
  BY <1>1, <1>3, StampTyped, OneEach
<1>6. StampTypes'
  BY <1>1, <1>4, <1>5 DEF StampInv, StampTypes
<1>7. step[s] > 1 /\ step[s] - 1 = Len(Way(stamped[s]))
  <2>1. PICK n \in 1 .. 30 : n = step[s]
    BY StampTyped
  <2>2. PICK l \in 1 .. 29 : l = Len(Way(stamped[s]))
    BY StampTyped
  <2>3. n > l /\ n <= l + 1
    BY <1>1, <2>1, <2>2 DEF StampInv, OwnOK
  <2>4. n > 1 /\ n - 1 = l
    BY <2>3
  <2> QED BY <2>1, <2>2, <2>4
<1>8. Ahead(s) /\ Upto(s)' = Upto(s)
  BY <1>1, <1>4, <1>7 DEF Ahead, Upto
<1>9. ASSUME NEW r \in Stampers
      PROVE  /\ stampPc'[r] = "stamping" => step'[r] <= Len(Way(stamped'[r])) + 1 /\ stamped'[r] # "no --profile"
             /\ stampPc'[r] = "git" => step'[r] <= 3
             /\ Ahead(r)' => Ahead(r) /\ stamped'[r] = stamped[r] /\ Upto(r)' = Upto(r)
  <2>1. CASE r = s
    <3>1. stampPc'[s] # "stamping" /\ step'[s] <= 3
      BY <1>2, <1>4, <1>5
    <3> QED BY <1>1, <1>8, <2>1, <3>1
  <2>2. CASE r # s
    BY <1>1, <1>4, <1>5, <2>2 DEF StampInv, OwnOK, Ahead, Upto
  <2> QED BY <2>1, <2>2
<1> QED BY <1>1, <1>6, <1>9, NothingMade

LEMMA GitRan == ASSUME StampInv, NEW s \in Stampers, Stamping!GitInit(s) PROVE StampInv'
<1>1. /\ stampPc[s] = "git" /\ UNCHANGED <<tree, stamped, rows, deaths>>
      /\ \/ /\ repo' = repo \cup {Stamping!GitSteps[step[s]]} /\ step' = [step EXCEPT ![s] = step[s] + 1]
            /\ stampPc' = [stampPc EXCEPT ![s] = IF step[s] = Len(Stamping!GitSteps) THEN "done" ELSE "git"]
         \/ stampPc' = [stampPc EXCEPT ![s] = "done"] /\ UNCHANGED <<repo, step>>
  BY DEF Stamping!GitInit
<1>2. PICK n \in 1 .. 3 : n = step[s]
  <2>1. PICK n \in 1 .. 30 : n = step[s]
    BY StampTyped
  <2>2. n <= 3
    BY <1>1, <2>1 DEF StampInv, OwnOK
  <2>3. n \in 1 .. 3
    BY <2>2
  <2> QED BY <2>1, <2>3
<1>3. Len(Stamping!GitSteps) = 3 /\ Stamping!GitSteps[n] \in {"init", "add", "commit"}
  BY DEF Stamping!GitSteps
<1>4. n + 1 \in 1 .. 30 /\ (n # 3 => n + 1 <= 3)
  OBVIOUS
<1>5. repo' \subseteq {"init", "add", "commit"}
  BY <1>1, <1>2, <1>3 DEF StampInv, StampTypes
<1>6. /\ step' \in [Stampers -> 1 .. 30] /\ \A r \in Stampers : r # s => step'[r] = step[r]
  <2>1. CASE step' = [step EXCEPT ![s] = n + 1]
    BY <1>4, <2>1, StampTyped, OneEach
  <2>2. CASE step' = step
    BY <2>2, StampTyped
  <2> QED BY <1>1, <1>2, <2>1, <2>2
<1>7. PICK x \in {"git", "done"} : /\ stampPc' = [stampPc EXCEPT ![s] = x]
                                   /\ x = "git" => n # 3 /\ step' = [step EXCEPT ![s] = n + 1]
  BY <1>1, <1>2, <1>3
<1>8. x \in Phases
  BY DEF Phases
<1>9. /\ stampPc' \in [Stampers -> Phases] /\ stampPc'[s] = x
      /\ \A r \in Stampers : r # s => stampPc'[r] = stampPc[r]
  BY <1>7, <1>8, StampTyped, OneEach
<1>10. x = "git" => step'[s] <= 3
  <2>1. x = "git" => step'[s] = n + 1
    BY <1>7, StampTyped
  <2> QED BY <1>4, <1>7, <2>1
<1>11. StampTypes'
  BY <1>1, <1>5, <1>6, <1>9 DEF StampInv, StampTypes
<1>12. ASSUME NEW r \in Stampers
       PROVE  /\ stampPc'[r] = "stamping" => step'[r] <= Len(Way(stamped'[r])) + 1 /\ stamped'[r] # "no --profile"
              /\ stampPc'[r] = "git" => step'[r] <= 3
              /\ Ahead(r)' => Ahead(r) /\ stamped'[r] = stamped[r] /\ Upto(r)' = Upto(r)
  <2>1. CASE r = s
    BY <1>1, <1>9, <1>10, <2>1 DEF Ahead, Upto
  <2>2. CASE r # s
    BY <1>1, <1>6, <1>9, <2>2 DEF StampInv, OwnOK, Ahead, Upto
  <2> QED BY <2>1, <2>2
<1> QED BY <1>1, <1>11, <1>12, NothingMade

LEMMA StamperDies == ASSUME StampInv, NEW s \in Stampers, Stamping!Die(s) PROVE StampInv'
<1>1. /\ UNCHANGED <<tree, stamped, step, rows, repo>> /\ deaths < MaxDeaths /\ deaths' = deaths + 1
      /\ stampPc' = [stampPc EXCEPT ![s] = "dead"]
  BY DEF Stamping!Die
<1>2. /\ stampPc' \in [Stampers -> Phases] /\ stampPc'[s] = "dead"
      /\ \A r \in Stampers : r # s => stampPc'[r] = stampPc[r]
  <2>1. "dead" \in Phases
    BY DEF Phases
  <2> QED BY <1>1, <2>1, StampTyped, OneEach
<1>3. deaths' \in 0 .. MaxDeaths
  <2>1. deaths \in 0 .. MaxDeaths
    BY DEF StampInv, StampTypes
  <2> QED BY <1>1, <2>1, StampAssumption
<1>4. StampTypes'
  BY <1>1, <1>2, <1>3 DEF StampInv, StampTypes
<1>5. ASSUME NEW r \in Stampers
      PROVE  /\ stampPc'[r] = "stamping" => step'[r] <= Len(Way(stamped'[r])) + 1 /\ stamped'[r] # "no --profile"
             /\ stampPc'[r] = "git" => step'[r] <= 3
             /\ Ahead(r)' => Ahead(r) /\ stamped'[r] = stamped[r] /\ Upto(r)' = Upto(r)
  <2>1. CASE r = s
    BY <1>2, <2>1 DEF Ahead
  <2>2. CASE r # s
    BY <1>1, <1>2, <2>2 DEF StampInv, OwnOK, Ahead, Upto
  <2> QED BY <2>1, <2>2
<1> QED BY <1>1, <1>4, <1>5, NothingMade

LEMMA TreeCleared == ASSUME StampInv, Stamping!Clear PROVE StampInv'
<1>1. /\ tree' = [p \in Dest |-> Bare] /\ rows' = <<>> /\ repo' = {} /\ UNCHANGED <<stamped, deaths>>
      /\ stampPc' = [s \in Stampers |-> "idle"] /\ step' = [s \in Stampers |-> 1]
  BY StampNames DEF Stamping!Clear, Stamping!NoSlots
<1>2. \A s \in Stampers : stampPc'[s] = "idle" /\ ~Ahead(s)'
  BY <1>1 DEF Ahead
<1>3. Bare \in Entry /\ 1 \in 1 .. 30 /\ "idle" \in Phases
  BY DEF Bare, Entry, Phases
<1>4. tree' \in [Dest -> Entry] /\ step' \in [Stampers -> 1 .. 30] /\ stampPc' \in [Stampers -> Phases]
  BY <1>1, <1>3
<1>5. StampTypes'
  BY <1>1, <1>4 DEF StampInv, StampTypes
<1>6. ChannelOK'
  BY <1>1, <1>2, WayFacts DEF ChannelOK
<1>7. OwnOK'
  BY <1>2 DEF OwnOK
<1> QED BY <1>5, <1>6, <1>7 DEF StampInv

LEMMA StampStep == ASSUME StampInv, Stamping!Next \/ UNCHANGED stampOnly PROVE StampInv'
<1>1. CASE UNCHANGED stampOnly
  BY <1>1 DEF stampOnly, StampInv, StampTypes, ChannelOK, OwnOK, Ahead, Upto, OwnTree
<1>2. CASE Stamping!Clear
  BY <1>2, TreeCleared
<1>3. CASE \E s \in Stampers : Stamping!Stamp(s) \/ Stamping!Die(s)
  <2>1. PICK s \in Stampers : Stamping!Stamp(s) \/ Stamping!Die(s)
    BY <1>3
  <2> QED BY <2>1, StampBegun, DirMade, PageBegun, PageFilled, StampEnds, GitRan, StamperDies DEF Stamping!Stamp
<1> QED BY <1>1, <1>2, <1>3 DEF Stamping!Next

LEMMA StampSound == ASSUME StampInv PROVE Stamping!TypeOK /\ Stamping!StampIsWhole
<1>1. Stamping!TypeOK
  <2>1. Len(Stamping!Steps("3agent.local")) + 1 = 30
    <3>1. Len(Way("3agent.local")) = 29
      BY WayIs DEF Trio
    <3>2. 29 + 1 = 30
      OBVIOUS
    <3> QED BY <3>1, <3>2, StampNames
  <2>2. Stamping!ToSet(Stamping!GitSteps) = {"init", "add", "commit"}
    BY DEF Stamping!ToSet, Stamping!GitSteps
  <2>3. Stamping!Profiles = Topologies \ {"no --profile"}
    BY DEF Stamping!Profiles, Topologies
  <2> QED BY <2>1, <2>2, <2>3, StampNames DEF StampInv, StampTypes, Stamping!TypeOK, Entry, Phases, Answers, Stamping!NoSlots
<1>2. ASSUME NEW s \in Stampers, stampPc[s] = "stamping", NEW i \in 1 .. step[s] - 1
      PROVE  tree[Way(stamped[s])[i]] = Mine(s)
  <2>1. Ahead(s) /\ Upto(s) = step[s] - 1
    <3>1. PICK n \in 1 .. 30 : n = step[s]
      BY StampTyped
    <3>2. i \in 1 .. n - 1
      BY <3>1
    <3>3. n > 1
      BY <3>2
    <3> QED BY <1>2, <3>1, <3>3 DEF Ahead, Upto
  <2> QED BY <2>1 DEF StampInv, OwnOK, OwnTree
<1>3. ASSUME NEW s \in Stampers, stampPc[s] \in {"git", "done"}
      PROVE  /\ \A p \in Dest : tree[p] = IF p \in Ranged(Way(stamped[s])) THEN Mine(s) ELSE Bare
             /\ AnswersOK(rows, stamped[s])
  <2>1. PICK w : w = Way(stamped[s])
    OBVIOUS
  <2>2. PICK l \in 1 .. 29 : l = Len(w)
    BY <2>1, StampTyped
  <2>3. Ahead(s) /\ Upto(s) = l
    BY <1>3, <2>1, <2>2 DEF Ahead, Upto
  <2>4. OwnTree(tree, s, w, l) /\ (Has(w, l, "BINDINGS") => AnswersOK(rows, stamped[s]))
    BY <2>1, <2>3 DEF StampInv, OwnOK
  <2>5. Has(w, l, "BINDINGS")
    BY <2>1, <2>2, WayFacts DEF Has
  <2>6. ~(l < l)
    OBVIOUS
  <2>7. \A p \in Dest : tree[p] # Bare => Has(w, l, p)
    BY <2>2, <2>4, <2>6 DEF OwnTree
  <2>8. \A p \in Dest : (p \in Ranged(w) <=> Has(w, l, p)) /\ (Has(w, l, p) => tree[p] = Mine(s))
    BY <2>2, <2>4 DEF Ranged, Has, OwnTree
  <2> QED BY <2>1, <2>4, <2>5, <2>7, <2>8
<1>4. \A q : Stamping!ToSet(Stamping!Steps(q)) = Ranged(Way(q))
  <2> SUFFICES ASSUME NEW q PROVE Stamping!ToSet(Way(q)) = Ranged(Way(q))
    BY StampNames
  <2>1. PICK w \in Seq(Everything) : w = Way(q)
    BY WayIs
  <2>2. DOMAIN w = 1 .. Len(w)
    OBVIOUS
  <2> QED BY <2>1, <2>2 DEF Stamping!ToSet, Ranged
<1>5. Stamping!StampIsWhole
  <2>1. ASSUME NEW s \in Stampers, stampPc[s] = "stamping"
        PROVE  \A i \in 1 .. step[s] - 1 : tree[Stamping!Steps(stamped[s])[i]] = [by |-> s, whole |-> TRUE]
    BY <1>2, <2>1, StampNames DEF Mine
  <2>2. ASSUME NEW s \in Stampers, stampPc[s] \in {"git", "done"}
        PROVE  /\ \A p \in Stamping!Paths :
                    tree[p] = IF p \in Stamping!ToSet(Stamping!Steps(stamped[s])) THEN [by |-> s, whole |-> TRUE]
                              ELSE Stamping!Absent
               /\ DOMAIN rows = Stamping!FillSlots(stamped[s])
               /\ (\E slot \in Stamping!Preflight : rows[slot] # "FILL") =>
                    \A slot \in DOMAIN rows :
                      rows[slot] = "FILL" => slot \in {"PRINCIPAL", "WORKSPACE_REMOTE"}
    <3>1. \A p \in Stamping!Paths :
            tree[p] = IF p \in Stamping!ToSet(Stamping!Steps(stamped[s])) THEN [by |-> s, whole |-> TRUE]
                      ELSE Stamping!Absent
      BY <1>3, <1>4, <2>2, StampNames DEF Mine
    <3>2. Stamping!Preflight = {"CANONICAL_REPO", "REVIEWER"}
      BY DEF Stamping!Preflight
    <3> QED BY <1>3, <2>2, <3>1, <3>2, StampNames DEF AnswersOK
  <2> QED BY <2>1, <2>2 DEF Stamping!StampIsWhole
<1> QED BY <1>1, <1>5

(***************************************************************************)
(* The four tools, one of which a behaviour runs.                          *)
(***************************************************************************)

LEMMA PreviewStart == Upgrade!Init => PreviewOK
BY DEF Upgrade!Init, Upgrade!NoPreview, PreviewOK

WorkspaceInv ==
  /\ focus = "stamp" => StampInv
  /\ focus = "upgrade" => UpInv /\ MoveInv /\ DryOK /\ PreviewOK
  /\ focus = "vendor" => VendorInv
  /\ focus = "gate" => GateInv

LEMMA WorkspaceStep == WorkspaceInv /\ [Next]_vars => WorkspaceInv'
<1> SUFFICES ASSUME WorkspaceInv, [Next]_vars PROVE WorkspaceInv'
  OBVIOUS
<1>1. focus' = focus
  BY DEF Next, vars
<1>2. CASE focus = "stamp"
  <2>1. Stamping!Next \/ UNCHANGED stampOnly
    BY <1>2 DEF Next, vars
  <2>2. StampInv'
    BY <1>2, <2>1, StampStep DEF WorkspaceInv
  <2> QED BY <1>1, <1>2, <2>2 DEF WorkspaceInv
<1>3. CASE focus = "upgrade"
  <2>1. [Upgrade!Next]_upgradeOnly
    BY <1>3 DEF Next, vars
  <2>2. UpInv' /\ MoveInv' /\ DryOK' /\ PreviewOK'
    BY <1>3, <2>1, UpgradeStep, MoveStep, DryStep, PreviewStep DEF WorkspaceInv
  <2> QED BY <1>1, <1>3, <2>2 DEF WorkspaceInv
<1>4. CASE focus = "vendor"
  <2>1. [Vendored!Next]_vendorOnly
    BY <1>4 DEF Next, vars
  <2>2. VendorInv'
    BY <1>4, <2>1, VendorStep DEF WorkspaceInv
  <2> QED BY <1>1, <1>4, <2>2 DEF WorkspaceInv
<1>5. CASE focus = "gate"
  <2>1. [Gate!Next]_gateOnly
    BY <1>5 DEF Next, vars
  <2>2. GateInv'
    BY <1>5, <2>1, GateStep DEF WorkspaceInv
  <2> QED BY <1>1, <1>5, <2>2 DEF WorkspaceInv
<1>6. CASE focus \notin {"stamp", "upgrade", "vendor", "gate"}
  BY <1>1, <1>6 DEF WorkspaceInv
<1> QED BY <1>2, <1>3, <1>4, <1>5, <1>6

LEMMA WorkspaceSound == Spec => []WorkspaceInv
<1>1. Init => WorkspaceInv
  BY StampStart, UpgradeStart, MoveStart, DryStart, PreviewStart, VendorStart, GateStart
     DEF Init, WorkspaceInv
<1> QED BY <1>1, WorkspaceStep, PTL DEF Spec

\* A stamp that answers 0 has written all that its profile promises and nothing else is
\* there, and what it has written so far is its own and whole, however many operators
\* stamp the one destination in the same moment, and whoever of them dies half way
\* (new_project.py's stamp() and its exclusive mkdir of the channel).
THEOREM StampIsAlwaysWhole == Spec => []StampIsWhole
<1>1. WorkspaceInv => StampIsWhole
  BY StampSound DEF WorkspaceInv, StampIsWhole
<1> QED BY <1>1, WorkspaceSound, PTL

\* An append-only record that is there holds every row its sessions ever gave it, under
\* the first banner it had, whatever runs of scale_workspace.py and migrate_workspace.py
\* read, rewrote or left half done around it; but a file that somebody wrote to between
\* scale()'s look and the end of its copy, which the copy goes over.
THEOREM RecordsStay == Spec => []RecordsAsWritten
<1>1. WorkspaceInv => RecordsAsWritten
  BY UpgradeSound DEF WorkspaceInv, RecordsAsWritten
<1> QED BY <1>1, WorkspaceSound, PTL

\* As long as no run has died, a scale_workspace.py that has answered leaves the whole of
\* the orchestrator's files, and a workspace that is not blocked once its profile is set;
\* it is warned of only for a pin behind the newest version or a missing third name, for
\* which its instructions do not ask.
THEOREM ScaledIsAlwaysComplete == Spec => []ScaledIsComplete
<1>1. WorkspaceInv => ScaledIsComplete
  BY UpgradeSound DEF WorkspaceInv, ScaledIsComplete
<1> QED BY <1>1, WorkspaceSound, PTL

\* A run that says "migrated" has carried the pin, and every banner that was not behind
\* it, to the newest version, though runs before it died between two files of a leg; and
\* each file ends where a preview of it, from the same slots, said it would
\* (migrate_workspace.py's migrate(), _plan_file() and --dry-run).  Excepted are the files
\* it could not read, of which it says nothing, and a pin with words beside it.
THEOREM MigrationIsCarried == Spec => []MigrationHolds
<1>1. WorkspaceInv => MigrationHolds
  BY MoveSound, PreviewSound DEF WorkspaceInv, MigrationHolds
<1> QED BY <1>1, WorkspaceSound, PTL

\* However the checker and its copy change, reconcile_vendored.py --fix destroys no name
\* that only the copy defines where both texts parse, calls no copy divergent that nobody
\* touched when it can read the history, and answers 0 only over the canonical text under
\* a true stamp.
THEOREM OnlyRotIsEverOverwritten == Spec => []OnlyRotIsOverwritten
<1>1. WorkspaceInv => OnlyRotIsOverwritten
  BY VendorSound DEF WorkspaceInv, OnlyRotIsOverwritten
<1> QED BY <1>1, WorkspaceSound, PTL

\* As long as every push was green and compared with the head it replaced, every line of
\* every earlier head is still there but those that begin with "--"; no commit has mixed a
\* role's log with anything else, nor, as long as no head changed the provenance map,
\* written a log that the map does not let its author write; and the counter is the
\* highest it was, if its file was never deleted (the steps of INTEGRITY_WORKFLOW, over
\* pushes of several commits).
THEOREM GreenAlwaysKeepsLogs == Spec => []GreenKeepsLogs
<1>1. WorkspaceInv => GreenKeepsLogs
  BY GateSound DEF WorkspaceInv, GreenKeepsLogs
<1> QED BY <1>1, WorkspaceSound, PTL
=============================================================================
