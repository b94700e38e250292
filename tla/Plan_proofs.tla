---------------------------- MODULE Plan_proofs ----------------------------
(***************************************************************************)
(* What the plan tools keep, for any files, steps, seats, sessions and     *)
(* edits.  A compaction hook unlinks only what has been judged dead since  *)
(* its sweep began; the digest carries what is owed at any later time; and *)
(* what a check has read is the ledger as it stands, as long as nothing    *)
(* has been edited since it began.                                         *)
(***************************************************************************)
EXTENDS MCPlan, FiniteSetTheorems, TLAPS

\* A step belongs to one of the tools and leaves the variables of the others alone.
LEMMA StepsApart ==
  ASSUME [PlanNext]_all
  PROVE  /\ [LedgerNext]_ledgerVars
         /\ \/ UNCHANGED gateVars
            \/ UNCHANGED ledgerVars /\ \E s \in Sessions : StopStep(s) \/ CheckStep(s, Keys)
         /\ [Marks!Next]_markOnly
<1>1. CASE UNCHANGED all
  BY <1>1 DEF all
<1>2. CASE Editing
  <2>1. LedgerNext
    <3>1. CASE Some
      <4>1. CASE Done
        <5>1. PICK s \in Steps : /\ ledger[file1].plan.step[s].status # "done"
                                 /\ SetPlan(file1, [ledger[file1].plan EXCEPT !.step[s].status = "done"])
          BY <4>1 DEF Done
        <5>2. file1 \in Files
          BY StartAssumption DEF file1
        <5> QED BY <5>1, <5>2 DEF LedgerNext, Progress
      <4> QED BY <3>1, <4>1 DEF Some, LedgerNext
    <3> QED BY <1>2, <3>1 DEF Editing
  <2> QED BY <1>2, <2>1 DEF Editing
<1>3. ASSUME NEW s \in Sessions, Gating(s) PROVE UNCHANGED <<ledgerVars, markOnly>> /\ (StopStep(s) \/ CheckStep(s, Keys))
  <2>1. CASE StopStep(s)
    BY <1>3, <2>1 DEF Gating
  <2>2. CASE CheckStep(s, Files \cup {<<file1, step1>>})
    <3>1. Files \cup {<<file1, step1>>} \subseteq Keys
      BY StartAssumption DEF Keys, file1, step1
    <3> QED BY <1>3, <2>2, <3>1 DEF Gating, CheckStep
  <2> QED BY <1>3, <2>1, <2>2 DEF Gating
<1>4. CASE Marking
  BY <1>4 DEF Marking
<1> QED BY <1>1, <1>2, <1>3, <1>4 DEF PlanNext

-----------------------------------------------------------------------------
(* The compaction hooks.                                                   *)

Pcs == {"receipts", "keys", "judge", "unlink mark", "unlink side", "write", "sentinel", "load",
        "emitted", "done"}
HookFrame == [mode : {"mark", "inject"}, pc : Pcs, now : 0 .. today, keep : SUBSET Sessions,
              unread : SUBSET Sessions, todo : SUBSET Sessions, key : SUBSET Sessions, code : {0, 1}]
Running(s) == hook[s].pc # "idle"
Sweeping(s) == hook[s].pc \in {"keys", "judge", "unlink mark", "unlink side"}
Unlinking(s) == hook[s].pc \in {"unlink mark", "unlink side"}

\* Whoever is not to be kept had no acknowledged receipt, or none that could be read, or
\* has moved since the sweep began.
Unkept(s, k) == k \in since[s] \/ ~side[k].acked \/ k \in hook[s].unread
\* Whoever has been judged has left its files alone for a week.
Dead(s, k) == k \in since[s] \/ ((~side[k].acked \/ k \in hook[s].unread) /\ \A d \in Marks!Halves(k) : hook[s].now - d > Week)

HookInv(s) ==
  /\ Sweeping(s) => \A k \in Sessions \ hook[s].keep : Unkept(s, k)
  /\ Unlinking(s) => \E k \in Sessions : hook[s].key = {k} /\ Dead(s, k)
HooksOK == hook \in [Sessions -> HookFrame \cup {Marks!Resting}]
MarksInv == Marks!TypeOK /\ HooksOK /\ \A s \in Sessions : HookInv(s)

\* No hook runs at the start.
LEMMA MarksInit == PlanInit => MarksInv
<1> SUFFICES ASSUME Marks!Init PROVE MarksInv
  BY DEF PlanInit
<1> USE HookAssumption DEF Marks!Init
<1>1. \A s \in Sessions : hook[s] = Marks!Resting /\ hook[s].pc = "idle"
  BY DEF Marks!Resting
<1>2. Marks!NoSide \in [at : {Marks!None} \cup 0 .. today, acked : BOOLEAN]
  BY DEF Marks!NoSide, Marks!None
<1>3. Marks!TypeOK
  <2>1. side \in [Sessions -> [at : {Marks!None} \cup 0 .. today, acked : BOOLEAN]]
    BY <1>2
  <2>2. mark \in [Sessions -> {Marks!None} \cup 0 .. today] /\ since \in [Sessions -> SUBSET Sessions]
    OBVIOUS
  <2> QED BY <2>1, <2>2 DEF Marks!TypeOK
<1>4. HooksOK
  BY DEF HooksOK
<1>5. ASSUME NEW s \in Sessions PROVE HookInv(s)
  BY <1>1 DEF HookInv, Sweeping, Unlinking
<1> QED BY <1>3, <1>4, <1>5 DEF MarksInv

\* What a session's hook knows of another stays true while it stands still, as long as
\* what is written is noted.
Calm(t) ==
  \A k \in Sessions :
    \/ k \in since[t]'
    \/ /\ k \notin since[t] /\ Marks!Halves(k)' \subseteq Marks!Halves(k)
       /\ side'[k].acked => side[k].acked
\* A hook that stands still knows no less, as long as the others are calm.
LEMMA StandsStill ==
  ASSUME NEW t \in Sessions, HookInv(t), hook'[t] = hook[t], Calm(t)
  PROVE  HookInv(t)'
<1>1. ASSUME NEW k \in Sessions, Unkept(t, k) PROVE Unkept(t, k)'
  BY <1>1 DEF Unkept, Calm
<1>2. ASSUME NEW k \in Sessions, Dead(t, k) PROVE Dead(t, k)'
  BY <1>2 DEF Dead, Calm
<1> QED BY <1>1, <1>2 DEF HookInv, Sweeping, Unlinking

\* A day more leaves the frames frames.
LEMMA FramesGrow == ASSUME today \in Nat, today' \in Nat, today <= today' PROVE HookFrame \subseteq HookFrame'
<1>1. 0 .. today \subseteq 0 .. today'
  OBVIOUS
<1> QED BY <1>1 DEF HookFrame

\* The frame of a hook at rest, and of one at work.
LEMMA RestingIsIdle == Marks!Resting.pc = "idle" /\ \A h \in HookFrame : h.pc \in Pcs /\ h.pc # "idle"
BY DEF Marks!Resting, HookFrame, Pcs

\* A hook that is at work has a frame, and goes on in it.
LEMMA Goes ==
  ASSUME HooksOK, NEW s \in Sessions, hook[s].pc # "idle", NEW pc \in Pcs, Marks!Go(s, pc)
  PROVE  /\ hook' \in [Sessions -> HookFrame \cup {Marks!Resting}]
         /\ hook[s] \in HookFrame /\ hook'[s] \in HookFrame /\ hook'[s].pc = pc
         /\ hook'[s].now = hook[s].now /\ hook'[s].keep = hook[s].keep
         /\ hook'[s].key = hook[s].key /\ hook'[s].todo = hook[s].todo
         /\ hook'[s].unread = hook[s].unread
         /\ \A t \in Sessions \ {s} : hook'[t] = hook[t]
<1>1. PICK h \in HookFrame : h = hook[s]
  BY RestingIsIdle DEF HooksOK
<1>2. PICK g : g = [h EXCEPT !.pc = pc]
  OBVIOUS
<1>3. g \in HookFrame /\ g.pc = pc /\ g.now = h.now /\ g.keep = h.keep /\ g.key = h.key /\ g.todo = h.todo
      /\ g.unread = h.unread
  BY <1>1, <1>2 DEF HookFrame
<1>4. hook' = [hook EXCEPT ![s] = g]
  BY <1>1, <1>2 DEF Marks!Go
<1> QED BY <1>1, <1>3, <1>4 DEF HooksOK

\* A step that writes no file and forgets nothing leaves the other sessions calm.
LEMMA NothingWritten ==
  ASSUME MarksInv, UNCHANGED <<mark, side, since>>, NEW t \in Sessions, hook'[t] = hook[t]
  PROVE  HookInv(t)'
<1>1. Calm(t)
  BY DEF Calm, Marks!Halves
<1> QED BY <1>1, StandsStill DEF MarksInv

\* A write of a session's own files is noted in every other's history.
LEMMA WriteIsNoted ==
  ASSUME MarksInv, NEW s \in Sessions, Marks!Touched(s), NEW t \in Sessions, hook'[t] = hook[t],
         \A k \in Sessions \ {s} : mark'[k] = mark[k] /\ side'[k] = side[k]
  PROVE  HookInv(t)'
<1>1. \A k \in Sessions : k \in since[t]' <=> k \in since[t] \/ k = s
  BY DEF Marks!Touched, MarksInv, Marks!TypeOK
<1>2. Calm(t)
  BY <1>1 DEF Calm, Marks!Halves
<1> QED BY <1>2, StandsStill DEF MarksInv

\* The steps of a hook up to its verdicts.
LEMMA StartHook ==
  ASSUME MarksInv, NEW s \in Sessions, NEW mode \in {"mark", "inject"}, Marks!Start(s, mode)
  PROVE  MarksInv'
<1> USE HookAssumption DEF Marks!Start
<1>1. PICK h : h = Marks!Frame(mode)
  OBVIOUS
<1>2. h \in HookFrame /\ h.pc \in {"receipts", "load"}
  <2>1. today \in 0 .. today
    BY DEF MarksInv, Marks!TypeOK
  <2> QED BY <1>1, <2>1 DEF Marks!Frame, HookFrame, Pcs
<1>3. hook' = [hook EXCEPT ![s] = h]
  BY <1>1
<1>4. hook'[s] = h /\ \A t \in Sessions \ {s} : hook'[t] = hook[t]
  BY <1>3 DEF MarksInv, HooksOK
<1>5. HooksOK'
  BY <1>2, <1>3 DEF MarksInv, HooksOK, HookFrame
<1>6. Marks!TypeOK'
  BY DEF MarksInv, Marks!TypeOK
<1>7. ASSUME NEW t \in Sessions PROVE HookInv(t)'
  <2>1. CASE t = s
    BY <1>2, <1>4, <2>1 DEF HookInv, Sweeping, Unlinking
  <2>2. CASE t # s
    <3>1. since'[t] = since[t]
      BY <2>2 DEF MarksInv, Marks!TypeOK
    <3>2. Calm(t)
      BY <3>1 DEF Calm, Marks!Halves
    <3> QED BY <1>4, <2>2, <3>2, StandsStill DEF MarksInv
  <2> QED BY <2>1, <2>2
<1> QED BY <1>5, <1>6, <1>7 DEF MarksInv

\* From here on the sweep knows whom to keep.
LEMMA ReceiptsStep ==
  ASSUME MarksInv, NEW s \in Sessions, Marks!Receipts(s)
  PROVE  MarksInv'
<1> USE DEF Marks!Receipts
<1>1. PICK h \in HookFrame : h = hook[s]
  BY RestingIsIdle DEF HooksOK, MarksInv
<1>0. PICK unread \in SUBSET Sessions :
        hook' = [hook EXCEPT ![s].keep = Marks!AckedReceipts \ unread, ![s].unread = unread,
                            ![s].pc = "keys"]
  OBVIOUS
<1>2. PICK g : g = [h EXCEPT !.keep = Marks!AckedReceipts \ unread, !.unread = unread, !.pc = "keys"]
  OBVIOUS
<1>3. g \in HookFrame /\ g.pc = "keys" /\ g.keep = Marks!AckedReceipts \ unread /\ g.unread = unread
  BY <1>1, <1>2 DEF HookFrame, Marks!AckedReceipts, Pcs
<1>4. hook' = [hook EXCEPT ![s] = g]
  BY <1>0, <1>1, <1>2
<1>5. HooksOK' /\ hook'[s] = g /\ \A t \in Sessions \ {s} : hook'[t] = hook[t]
  BY <1>3, <1>4 DEF MarksInv, HooksOK, HookFrame
<1>6. Marks!TypeOK'
  BY DEF MarksInv, Marks!TypeOK
<1>7. HookInv(s)'
  BY <1>3, <1>5 DEF HookInv, Sweeping, Unlinking, Unkept, Marks!AckedReceipts
<1> QED BY <1>5, <1>6, <1>7, NothingWritten DEF MarksInv

\* The bindings that it will judge.
LEMMA ListKeysStep ==
  ASSUME MarksInv, NEW s \in Sessions, Marks!ListKeys(s)
  PROVE  MarksInv'
<1> USE DEF Marks!ListKeys
<1>1. PICK h \in HookFrame : h = hook[s]
  BY RestingIsIdle DEF HooksOK, MarksInv
<1>2. PICK keys : keys = {k \in Sessions : mark[k] # Marks!None \/ side[k] # Marks!NoSide}
  OBVIOUS
<1>3. PICK g : g = [h EXCEPT !.todo = keys, !.pc = "judge"]
  OBVIOUS
<1>4. g \in HookFrame /\ g.pc = "judge" /\ g.keep = h.keep /\ g.unread = h.unread
  BY <1>1, <1>2, <1>3 DEF HookFrame, Pcs
<1>5. hook' = [hook EXCEPT ![s] = g]
  BY <1>1, <1>2, <1>3
<1>6. HooksOK' /\ hook'[s] = g /\ \A t \in Sessions \ {s} : hook'[t] = hook[t]
  BY <1>4, <1>5 DEF MarksInv, HooksOK, HookFrame
<1>7. Marks!TypeOK'
  BY DEF MarksInv, Marks!TypeOK
<1>8. HookInv(s)'
  BY <1>1, <1>4, <1>6 DEF MarksInv, HookInv, Sweeping, Unlinking, Unkept
<1> QED BY <1>6, <1>7, <1>8, NothingWritten DEF MarksInv

\* What it judges dead has had both of its halves for more than a week.
LEMMA JudgeStep ==
  ASSUME MarksInv, NEW s \in Sessions, Marks!Judge(s)
  PROVE  MarksInv'
<1> USE DEF Marks!Judge
<1>1. PICK h \in HookFrame : h = hook[s]
  BY RestingIsIdle DEF HooksOK, MarksInv
<1>2. Marks!TypeOK'
  BY DEF MarksInv, Marks!TypeOK
<1>3. CASE hook[s].todo = {} /\ Marks!Go(s, "write")
  <2>1. hook' \in [Sessions -> HookFrame \cup {Marks!Resting}] /\ hook'[s].pc = "write"
        /\ \A t \in Sessions \ {s} : hook'[t] = hook[t]
    BY <1>3, Goes DEF MarksInv, Pcs
  <2>2. HooksOK' /\ HookInv(s)'
    BY <2>1 DEF HooksOK, HookInv, Sweeping, Unlinking, HookFrame
  <2> QED BY <1>2, <2>1, <2>2, NothingWritten DEF MarksInv
<1>4. ASSUME NEW k \in hook[s].todo,
             hook' = [hook EXCEPT ![s].todo = @ \ {k}, ![s].key = {k},
                        ![s].pc = IF k \notin hook[s].keep /\ Marks!AllAreOld(k, hook[s].now)
                                  THEN "unlink mark" ELSE "judge"]
      PROVE  MarksInv'
  <2>1. PICK next : next = IF k \notin hook[s].keep /\ Marks!AllAreOld(k, hook[s].now)
                           THEN "unlink mark" ELSE "judge"
    OBVIOUS
  <2>2. PICK g : g = [h EXCEPT !.todo = h.todo \ {k}, !.key = {k}, !.pc = next]
    OBVIOUS
  <2>3. k \in Sessions /\ h.todo \ {k} \subseteq Sessions /\ next \in {"unlink mark", "judge"}
    BY <1>1, <1>4, <2>1 DEF HookFrame
  <2>4. g \in HookFrame /\ g.pc = next /\ g.key = {k} /\ g.keep = h.keep /\ g.now = h.now
        /\ g.unread = h.unread
    BY <1>1, <2>2, <2>3 DEF HookFrame, Pcs
  <2>5. hook' = [hook EXCEPT ![s] = g]
    BY <1>1, <1>4, <2>1, <2>2
  <2>6. HooksOK' /\ hook'[s] = g /\ \A t \in Sessions \ {s} : hook'[t] = hook[t]
    BY <2>4, <2>5 DEF MarksInv, HooksOK, HookFrame
  <2>7. \A j \in Sessions \ hook'[s].keep : Unkept(s, j)'
    BY <1>1, <2>4, <2>6 DEF MarksInv, HookInv, Sweeping, Unkept
  <2>8. ASSUME next = "unlink mark" PROVE Dead(s, k)'
    BY <1>1, <2>1, <2>3, <2>4, <2>6, <2>7, <2>8 DEF Dead, Unkept, Marks!AllAreOld, Marks!Halves
  <2>9. HookInv(s)'
    BY <2>3, <2>4, <2>6, <2>7, <2>8 DEF HookInv, Unlinking
  <2> QED BY <1>2, <2>6, <2>9, NothingWritten DEF MarksInv
<1> QED BY <1>3, <1>4

\* An unlink takes one half of what was judged, and nothing of anyone else.
LEMMA UnlinkStep ==
  ASSUME MarksInv, NEW s \in Sessions, Marks!UnlinkMark(s) \/ Marks!UnlinkSide(s)
  PROVE  /\ MarksInv'
         /\ \E k \in Sessions :
              /\ hook[s].key = {k} /\ Unlinking(s) /\ Dead(s, k)
              /\ \A j \in Sessions \ {k} : mark'[j] = mark[j] /\ side'[j] = side[j]
<1>1. PICK k \in Sessions : hook[s].key = {k} /\ Dead(s, k)
  BY DEF MarksInv, HookInv, Unlinking, Marks!UnlinkMark, Marks!UnlinkSide
<1>2. Unlinking(s) /\ Sweeping(s) /\ hook[s].pc # "idle"
  BY DEF Unlinking, Sweeping, Marks!UnlinkMark, Marks!UnlinkSide
<1>3. /\ mark' = mark \/ (mark' = [mark EXCEPT ![k] = Marks!None] /\ side' = side)
      /\ side' = side \/ (side' = [side EXCEPT ![k] = Marks!NoSide] /\ mark' = mark)
  BY <1>1 DEF Marks!UnlinkMark, Marks!UnlinkSide
<1>4. since' = since /\ today' = today /\ hooks' = hooks /\ sentinel' = sentinel
  BY DEF Marks!UnlinkMark, Marks!UnlinkSide
<1>5. \A j \in Sessions \ {k} : mark'[j] = mark[j] /\ side'[j] = side[j]
  BY <1>3 DEF MarksInv, Marks!TypeOK
<1>6. Marks!NoSide \in [at : {Marks!None} \cup 0 .. today, acked : BOOLEAN]
      /\ ~Marks!NoSide.acked /\ Marks!NoSide.at = Marks!None
  BY DEF Marks!NoSide
<1>7. Marks!TypeOK'
  <2>1. side' \in [Sessions -> [at : {Marks!None} \cup 0 .. today, acked : BOOLEAN]]
    BY <1>3, <1>6 DEF MarksInv, Marks!TypeOK
  <2>2. mark' \in [Sessions -> {Marks!None} \cup 0 .. today]
    BY <1>3 DEF MarksInv, Marks!TypeOK
  <2> QED BY <1>4, <2>1, <2>2 DEF MarksInv, Marks!TypeOK
<1>8. Marks!Halves(k)' \subseteq Marks!Halves(k) /\ (side'[k].acked => side[k].acked)
  BY <1>3, <1>6 DEF MarksInv, Marks!TypeOK, Marks!Halves
<1>9. \A t \in Sessions : Calm(t)
  BY <1>4, <1>5, <1>8 DEF Calm, Marks!Halves
<1>10. PICK pc \in {"unlink side", "judge"} :
         Marks!Go(s, pc) /\ (pc = "judge" \/ pc = "unlink side")
  BY DEF Marks!UnlinkMark, Marks!UnlinkSide
<1>11. /\ hook' \in [Sessions -> HookFrame \cup {Marks!Resting}]
       /\ hook'[s].pc = pc /\ hook'[s].key = hook[s].key /\ hook'[s].now = hook[s].now
       /\ hook'[s].keep = hook[s].keep /\ hook'[s].unread = hook[s].unread
       /\ \A t \in Sessions \ {s} : hook'[t] = hook[t]
  BY <1>2, <1>10, Goes DEF MarksInv, Pcs
<1>12. HooksOK'
  BY <1>4, <1>11 DEF HooksOK, HookFrame
<1>13. HookInv(s)'
  <2>1. \A j \in Sessions \ hook'[s].keep : Unkept(s, j)'
    BY <1>2, <1>9, <1>11 DEF MarksInv, HookInv, Unkept, Calm
  <2>2. Dead(s, k)'
    BY <1>1, <1>9, <1>11 DEF Dead, Calm
  <2> QED BY <1>1, <1>11, <2>1, <2>2 DEF HookInv, Unlinking
<1>14. \A t \in Sessions \ {s} : HookInv(t)'
  BY <1>9, <1>11, StandsStill DEF MarksInv
<1>15. MarksInv'
  BY <1>7, <1>12, <1>13, <1>14 DEF MarksInv
<1> QED BY <1>1, <1>2, <1>5, <1>15

\* The steps after the sweep: what is written is today's, and is noted.
LEMMA WriteStep ==
  ASSUME MarksInv, NEW s \in Sessions, Marks!WriteMark(s) \/ Marks!WriteSidecar(s)
  PROVE  /\ MarksInv'
         /\ mark'[s] # Marks!None \/ mark'[s] = mark[s]
         /\ side'[s] # Marks!NoSide \/ side'[s] = side[s]
         /\ \A k \in Sessions \ {s} : mark'[k] = mark[k] /\ side'[k] = side[k]
<1>1. today \in Nat /\ today # Marks!None
  BY HookAssumption DEF MarksInv, Marks!TypeOK, Marks!None
<1>2. PICK new : new = [at |-> today, acked |-> FALSE]
  OBVIOUS
<1>3. new \in [at : {Marks!None} \cup 0 .. today, acked : BOOLEAN] /\ new # Marks!NoSide
  <2>1. new.at = today /\ Marks!NoSide.at = Marks!None
    BY <1>2 DEF Marks!NoSide
  <2> QED BY <1>1, <1>2, <2>1
<1>4. /\ mark' = mark \/ (mark' = [mark EXCEPT ![s] = today] /\ side' = side)
      /\ side' = side \/ (side' = [side EXCEPT ![s] = new] /\ mark' = mark)
      /\ today' = today /\ hooks' = hooks /\ sentinel' = sentinel
      /\ Marks!Touched(s) \/ UNCHANGED <<mark, side, since>>
  BY <1>2 DEF Marks!WriteMark, Marks!WriteSidecar
<1>5. PICK pc \in {"done", "sentinel"} : Marks!Go(s, pc) /\ hook[s].pc # "idle"
  BY DEF Marks!WriteMark, Marks!WriteSidecar
<1>6. /\ hook' \in [Sessions -> HookFrame \cup {Marks!Resting}] /\ hook'[s].pc = pc
      /\ \A t \in Sessions \ {s} : hook'[t] = hook[t]
  BY <1>5, Goes DEF MarksInv, Pcs
<1>7. HooksOK' /\ HookInv(s)'
  BY <1>4, <1>6 DEF HooksOK, HookFrame, HookInv, Sweeping, Unlinking
<1>8. /\ \A k \in Sessions \ {s} : mark'[k] = mark[k] /\ side'[k] = side[k]
      /\ mark'[s] # Marks!None \/ mark'[s] = mark[s]
      /\ side'[s] # Marks!NoSide \/ side'[s] = side[s]
  BY <1>1, <1>3, <1>4 DEF MarksInv, Marks!TypeOK
<1>9. Marks!TypeOK'
  <2>1. mark' \in [Sessions -> {Marks!None} \cup 0 .. today]
    BY <1>1, <1>4 DEF MarksInv, Marks!TypeOK
  <2>2. side' \in [Sessions -> [at : {Marks!None} \cup 0 .. today, acked : BOOLEAN]]
    BY <1>3, <1>4 DEF MarksInv, Marks!TypeOK
  <2>3. since' \in [Sessions -> SUBSET Sessions]
    BY <1>4 DEF MarksInv, Marks!TypeOK, Marks!Touched
  <2> QED BY <1>4, <2>1, <2>2, <2>3 DEF MarksInv, Marks!TypeOK
<1>10. ASSUME NEW t \in Sessions \ {s} PROVE HookInv(t)'
  <2>1. CASE Marks!Touched(s)
    BY <1>6, <1>8, <2>1, WriteIsNoted
  <2>2. CASE UNCHANGED <<mark, side, since>>
    BY <1>6, <2>2, NothingWritten
  <2> QED BY <1>4, <2>1, <2>2
<1> QED BY <1>7, <1>8, <1>9, <1>10 DEF MarksInv

\* The steps that only move a hook on, or end it.
LEMMA MoveStep ==
  ASSUME MarksInv, NEW s \in Sessions,
         Marks!WriteSentinel(s) \/ Marks!Inject(s) \/ Marks!Watchdog(s) \/ Marks!Return(s)
  PROVE  MarksInv'
<1>1. UNCHANGED <<mark, side, since, today, hooks>> /\ sentinel' \subseteq Sessions
  BY DEF MarksInv, Marks!TypeOK, Marks!WriteSentinel, Marks!Inject, Marks!Watchdog, Marks!Return
<1>2. /\ hook' \in [Sessions -> HookFrame \cup {Marks!Resting}]
      /\ hook'[s].pc \in {"done", "emitted", "idle"}
      /\ \A t \in Sessions \ {s} : hook'[t] = hook[t]
  <2>1. ASSUME NEW pc \in {"done", "emitted"}, Marks!Go(s, pc), hook[s].pc # "idle"
        PROVE  /\ hook' \in [Sessions -> HookFrame \cup {Marks!Resting}] /\ hook'[s].pc = pc
               /\ \A t \in Sessions \ {s} : hook'[t] = hook[t]
    BY <2>1, Goes DEF MarksInv, Pcs
  <2>2. CASE Marks!Inject(s) \/ Marks!Watchdog(s)
    <3>1. PICK pc \in {"done", "emitted"} : Marks!Go(s, pc) /\ hook[s].pc # "idle"
      BY <2>2 DEF Marks!Inject, Marks!Watchdog
    <3> QED BY <2>1, <3>1
  <2>3. CASE Marks!WriteSentinel(s)
    <3>1. CASE Marks!Go(s, "done")
      BY <2>1, <2>3, <3>1 DEF Marks!WriteSentinel
    <3>2. CASE hook' = [hook EXCEPT ![s].pc = "done", ![s].code = 1]
      <4>1. PICK h \in HookFrame : h = hook[s]
        BY <2>3, RestingIsIdle DEF MarksInv, HooksOK, Marks!WriteSentinel
      <4>2. PICK g : g = [h EXCEPT !.pc = "done", !.code = 1]
        OBVIOUS
      <4>3. g \in HookFrame /\ g.pc = "done"
        BY <4>1, <4>2 DEF HookFrame, Pcs
      <4>4. hook' = [hook EXCEPT ![s] = g]
        BY <3>2, <4>1, <4>2
      <4> QED BY <4>3, <4>4 DEF MarksInv, HooksOK
    <3> QED BY <2>3, <3>1, <3>2 DEF Marks!WriteSentinel
  <2>4. CASE Marks!Return(s)
    BY <2>4, RestingIsIdle DEF Marks!Return, MarksInv, HooksOK
  <2> QED BY <2>2, <2>3, <2>4
<1>3. HooksOK' /\ HookInv(s)'
  BY <1>1, <1>2 DEF HooksOK, HookFrame, HookInv, Sweeping, Unlinking
<1>4. Marks!TypeOK'
  BY <1>1 DEF MarksInv, Marks!TypeOK
<1> QED BY <1>1, <1>2, <1>3, <1>4, NothingWritten DEF MarksInv

\* Acknowledging is a write of the session's own files, and is noted.
LEMMA AckStep ==
  ASSUME MarksInv, NEW s \in Sessions, Marks!Ack(s)
  PROVE  /\ MarksInv'
         /\ mark'[s] # Marks!None \/ mark'[s] = mark[s]
         /\ side'[s] # Marks!NoSide
         /\ \A k \in Sessions \ {s} : mark'[k] = mark[k] /\ side'[k] = side[k]
<1> USE DEF Marks!Ack
<1>1. today \in Nat /\ today # Marks!None
  BY HookAssumption DEF MarksInv, Marks!TypeOK, Marks!None
<1>2. PICK new : new = [at |-> today, acked |-> TRUE]
  OBVIOUS
<1>3. new \in [at : {Marks!None} \cup 0 .. today, acked : BOOLEAN] /\ new # Marks!NoSide
  <2>1. new.at = today /\ Marks!NoSide.at = Marks!None
    BY <1>2 DEF Marks!NoSide
  <2> QED BY <1>1, <1>2, <2>1
<1>4. side' = [side EXCEPT ![s] = new]
  BY <1>2
<1>5. PICK day : day = (IF mark[s] = Marks!None THEN Marks!None ELSE today)
  OBVIOUS
<1>6. mark' = [mark EXCEPT ![s] = day] /\ day \in {Marks!None} \cup 0 .. today
      /\ (day # Marks!None \/ day = mark[s])
  BY <1>1, <1>5
<1>7. /\ mark'[s] # Marks!None \/ mark'[s] = mark[s]
      /\ side'[s] # Marks!NoSide
      /\ \A k \in Sessions \ {s} : mark'[k] = mark[k] /\ side'[k] = side[k]
  BY <1>3, <1>4, <1>6 DEF MarksInv, Marks!TypeOK
<1>8. Marks!TypeOK'
  <2>1. mark' \in [Sessions -> {Marks!None} \cup 0 .. today]
    BY <1>6 DEF MarksInv, Marks!TypeOK
  <2>2. side' \in [Sessions -> [at : {Marks!None} \cup 0 .. today, acked : BOOLEAN]]
    BY <1>3, <1>4 DEF MarksInv, Marks!TypeOK
  <2>3. since' \in [Sessions -> SUBSET Sessions]
    BY DEF MarksInv, Marks!TypeOK, Marks!Touched
  <2> QED BY <2>1, <2>2, <2>3 DEF MarksInv, Marks!TypeOK
<1>9. HooksOK'
  BY DEF MarksInv, HooksOK, HookFrame
<1>10. \A t \in Sessions : HookInv(t)'
  BY <1>7, WriteIsNoted
<1> QED BY <1>7, <1>8, <1>9, <1>10 DEF MarksInv

\* A day later nobody is younger.
LEMMA NextDayStep == ASSUME MarksInv, Marks!NextDay PROVE MarksInv'
<1> USE HookAssumption DEF Marks!NextDay
<1>1. today \in Nat /\ today' = today + 1 /\ today < MaxDays
  BY DEF MarksInv, Marks!TypeOK
<1>2. 0 .. today \subseteq 0 .. today'
  BY <1>1
<1>3. Marks!TypeOK'
  <2>1. mark' \in [Sessions -> {Marks!None} \cup 0 .. today']
    BY <1>2 DEF MarksInv, Marks!TypeOK
  <2>2. side' \in [Sessions -> [at : {Marks!None} \cup 0 .. today', acked : BOOLEAN]]
    BY <1>2 DEF MarksInv, Marks!TypeOK
  <2> QED BY <1>1, <2>1, <2>2 DEF MarksInv, Marks!TypeOK
<1>4. HooksOK'
  BY <1>1, FramesGrow DEF MarksInv, HooksOK
<1> QED BY <1>3, <1>4, NothingWritten DEF MarksInv

\* Every step of the hooks and their sessions.
LEMMA MarksStep == MarksInv /\ [Marks!Next]_markOnly => MarksInv'
<1> SUFFICES ASSUME MarksInv, [Marks!Next]_markOnly PROVE MarksInv'
  OBVIOUS
<1>1. CASE UNCHANGED markOnly
  <2>1. \A t \in Sessions : HookInv(t)'
    BY <1>1, NothingWritten DEF markOnly
  <2> QED BY <1>1, <2>1 DEF markOnly, MarksInv, Marks!TypeOK, HooksOK, HookFrame
<1>2. ASSUME NEW s \in Sessions, Marks!Ack(s) \/ Marks!HookStep(s) PROVE MarksInv'
  BY <1>2, AckStep, StartHook, ReceiptsStep, ListKeysStep, JudgeStep, UnlinkStep, WriteStep, MoveStep
  DEF Marks!HookStep
<1>3. CASE Marks!NextDay
  BY <1>3, NextDayStep
<1> QED BY <1>1, <1>2, <1>3 DEF Marks!Next

\* What a step takes away, an unlink of it has taken.
LEMMA TakenByUnlink ==
  ASSUME MarksInv, [Marks!Next]_markOnly, NEW k \in Sessions,
         \/ mark[k] # Marks!None /\ mark'[k] = Marks!None
         \/ side[k] # Marks!NoSide /\ side'[k] = Marks!NoSide
  PROVE  \E s \in Sessions :
           /\ hook[s].key = {k} /\ hook[s].pc \in {"unlink mark", "unlink side"}
           /\ k \in since[s] \/ ((~side[k].acked \/ k \in hook[s].unread)
                                /\ \A d \in Marks!Halves(k) : today - d > Week)
<1>1. ~UNCHANGED <<mark, side>>
  OBVIOUS
<1>2. PICK s \in Sessions : Marks!Ack(s) \/ Marks!WriteMark(s) \/ Marks!WriteSidecar(s)
                             \/ Marks!UnlinkMark(s) \/ Marks!UnlinkSide(s)
  BY <1>1 DEF Marks!Next, Marks!HookStep, markOnly, Marks!NextDay, Marks!Start, Marks!Receipts, Marks!ListKeys,
    Marks!Judge, Marks!WriteSentinel, Marks!Inject, Marks!Watchdog, Marks!Return
<1>3. Marks!UnlinkMark(s) \/ Marks!UnlinkSide(s)
  BY <1>2, AckStep, WriteStep
<1>4. PICK j \in Sessions : /\ hook[s].key = {j} /\ Unlinking(s) /\ Dead(s, j)
                            /\ \A i \in Sessions \ {j} : mark'[i] = mark[i] /\ side'[i] = side[i]
  BY <1>3, UnlinkStep
<1>5. j = k
  BY <1>4
<1>6. hook[s] \in HookFrame
  BY <1>4, RestingIsIdle DEF Unlinking, MarksInv, HooksOK
<1>7. hook[s].now \in Int /\ hook[s].now <= today /\ today \in Int
  BY <1>6, HookAssumption DEF HookFrame, MarksInv, Marks!TypeOK
<1>8. \A d \in Marks!Halves(k) : d \in Int
  BY HookAssumption DEF MarksInv, Marks!TypeOK, Marks!Halves, Marks!None
<1>9. k \in since[s] \/ ((~side[k].acked \/ k \in hook[s].unread) /\ \A d \in Marks!Halves(k) : today - d > Week)
  BY <1>4, <1>5, <1>7, <1>8, HookAssumption DEF Dead
<1> QED BY <1>4, <1>5, <1>9 DEF Unlinking

\* _cleanup_stale() ends no binding whose receipt it can read, whatever other sessions mark, inject and
\* acknowledge meanwhile, and wherever a watchdog ends it.
THEOREM SweepsTakeOnlyDead == PlanSpec => SweepTakesOnlyDead
<1> DEFINE Taken ==
      \A k \in Sessions :
        \/ mark[k] # Marks!None /\ mark'[k] = Marks!None
        \/ side[k] # Marks!NoSide /\ side'[k] = Marks!NoSide
        => \E s \in Sessions :
             /\ hook[s].key = {k} /\ hook[s].pc \in {"unlink mark", "unlink side"}
             /\ \/ k \in since[s]
                \/ /\ ~side[k].acked \/ k \in hook[s].unread
                   /\ \A d \in Marks!Halves(k) : today - d > Week
<1>1. PlanInit => MarksInv
  BY MarksInit
<1>2. MarksInv /\ [PlanNext]_all => MarksInv' /\ [Taken]_markOnly
  BY StepsApart, MarksStep, TakenByUnlink
<1>3. SweepTakesOnlyDead <=> [][Taken]_markOnly
  BY DEF SweepTakesOnlyDead, Marks!SweepTakesOnlyDead, Marks!markVars, markOnly
<1> HIDE DEF Taken
<1> QED BY <1>1, <1>2, <1>3, PTL DEF PlanSpec

-----------------------------------------------------------------------------
(* The ledger, as the tools read it.                                       *)

LedgerInv == ledger \in [Files -> File] /\ now \in 0 .. MaxNow /\ edits \in 0 .. MaxEdits

Ledgers == [Files -> File]

\* The parts of a plan have their types.
LEMMA PlanTypes ==
  ASSUME NEW p \in Plan, NEW s \in Steps
  PROVE  /\ p.open \in BOOLEAN /\ p.ruled \in BOOLEAN /\ p.fired \in BOOLEAN /\ p.typed \in BOOLEAN
         /\ p.byGate \in BOOLEAN /\ p.dangling \in BOOLEAN
         /\ p.fires \in Nat /\ p.until \in Nat /\ p.parks \subseteq Files \X Steps
         /\ p.step[s] \in Step /\ p.step[s].pre \subseteq Steps \cup {Gate, Clock, Typo}
         /\ p.step[s].owner \in Seats \cup {Nobody} /\ p.step[s].judged \in BOOLEAN
         /\ p.step[s].coord \in BOOLEAN
         /\ p.step[s].status \in {"pending", "blocked", "done", "superseded"}
<1>1. p.step \in [Steps -> Step] /\ p.step[s] \in Step
  BY DEF Plan
<1>2. p.fires \in Nat /\ p.until \in Nat
  BY LedgerAssumption DEF Plan, Never
<1> QED BY <1>1, <1>2 DEF Plan, Step

\* What holds at one time of a reference, or of a constraint, at a later one too.
LEMMA MetLater ==
  ASSUME NEW p \in Plan, NEW ref, NEW at \in Nat, NEW then \in Nat, at <= then, Met(p, ref, at)
  PROVE  Met(p, ref, then)
<1>1. p.fires \in Nat
  BY LedgerAssumption DEF Plan, Never
<1>2. p.fires <= at => p.fires <= then
  BY <1>1
<1>3. CASE ref \in Steps
  BY <1>3, LedgerAssumption DEF Met
<1>4. CASE ref \notin Steps
  BY <1>2, <1>4, LedgerAssumption DEF Met
<1> QED BY <1>3, <1>4

\* A constraint that is in force was so at every earlier time.
LEMMA ActiveBefore ==
  ASSUME NEW p \in Plan, NEW at \in Nat, NEW then \in Nat, at <= then, Active(p, then)
  PROVE  Active(p, at)
<1>1. p.until \in Nat
  BY LedgerAssumption DEF Plan, Never
<1> QED BY <1>1 DEF Active

\* What is parked was parked before.
LEMMA ParkedBefore ==
  ASSUME NEW files \in Ledgers, NEW at \in Nat, NEW then \in Nat, at <= then
  PROVE  Parked(files, then) \subseteq Parked(files, at)
<1>1. ASSUME NEW g \in Opens(files), Active(files[g].plan, then) PROVE Active(files[g].plan, at)
  <2>1. files[g].plan \in Plan
    BY DEF Opens, Loaded, Ledgers, File
  <2> QED BY <1>1, <2>1, ActiveBefore
<1> QED BY <1>1 DEF Parked

\* What time does to a list of runnable steps: it only grows.
LEMMA RunnableLater ==
  ASSUME NEW files \in Ledgers, NEW at \in Nat, NEW then \in Nat, at <= then, NEW seat
  PROVE  Runnable(files, seat, at) \subseteq Runnable(files, seat, then)
<1>1. ASSUME NEW f \in Opens(files), NEW s \in Steps, Satisfied(files[f].plan, s, at)
      PROVE  Satisfied(files[f].plan, s, then)
  <2>1. files[f].plan \in Plan
    BY DEF Opens, Loaded, Ledgers, File
  <2> QED BY <1>1, <2>1, MetLater DEF Satisfied
<1>2. Parked(files, then) \subseteq Parked(files, at)
  BY ParkedBefore
<1> QED BY <1>1, <1>2 DEF Runnable

-----------------------------------------------------------------------------
(* The steps of seats.                                                     *)

\* An edit of one plan, seen from the readers.
LEMMA EditOfOne ==
  ASSUME LedgerInv, NEW f \in Files, NEW p \in Plan, SetPlan(f, p)
  PROVE  /\ ledger' \in Ledgers /\ ledger'[f].plan = p /\ ledger'[f].text = "fine"
         /\ ledger[f].text = "fine" /\ \A g \in Files \ {f} : ledger'[g] = ledger[g]
         /\ now' = now /\ edits' = edits + 1 /\ edits' \in 0 .. MaxEdits
         /\ Loaded(ledger') = Loaded(ledger)
<1>1. PICK file : file = [ledger[f] EXCEPT !.plan = p]
  OBVIOUS
<1>2. file \in File /\ file.plan = p /\ file.text = "fine" /\ ledger[f].text = "fine"
  BY <1>1 DEF LedgerInv, File, SetPlan
<1>3. ledger' = [ledger EXCEPT ![f] = file]
  BY <1>1 DEF SetPlan
<1>4. ledger' \in Ledgers /\ ledger'[f] = file /\ \A g \in Files \ {f} : ledger'[g] = ledger[g]
  BY <1>2, <1>3 DEF LedgerInv, Ledgers
<1>5. DOMAIN ledger' = Files /\ DOMAIN ledger = Files
  BY <1>4 DEF LedgerInv, Ledgers
<1>6. Loaded(ledger') = Loaded(ledger)
  BY <1>2, <1>4, <1>5 DEF Loaded, Loads
<1>7. now' = now /\ edits' = edits + 1 /\ edits' \in 0 .. MaxEdits
  BY LedgerAssumption DEF SetPlan, LedgerInv
<1> QED BY <1>2, <1>4, <1>6, <1>7

\* What progress makes of a plan: a step done, the gate ruled or the clock fired.
Further(p, q) ==
  \/ \E s \in Steps : q = [p EXCEPT !.step[s].status = "done"]
  \/ q = [p EXCEPT !.ruled = TRUE]
  \/ q = [p EXCEPT !.fired = TRUE]

\* Progress keeps a plan's shape.
LEMMA FurtherIs ==
  ASSUME NEW p \in Plan, NEW q, Further(p, q)
  PROVE  /\ q \in Plan /\ q.open = p.open /\ q.byGate = p.byGate /\ q.until = p.until
         /\ q.parks = p.parks /\ q.fires = p.fires
         /\ (p.ruled => q.ruled) /\ (p.fired => q.fired)
         /\ \A s \in Steps :
              /\ q.step[s].owner = p.step[s].owner /\ q.step[s].pre = p.step[s].pre
              /\ q.step[s].judged = p.step[s].judged
              /\ q.step[s].status = p.step[s].status \/ q.step[s].status = "done"
<1>1. ASSUME NEW s \in Steps, q = [p EXCEPT !.step[s].status = "done"]
      PROVE  /\ q \in [open : {p.open}, step : [Steps -> Step], coords : {p.coords}, ruled : {p.ruled}, dangling : {p.dangling},
                       fired : {p.fired}, fires : {p.fires}, typed : {p.typed}, byGate : {p.byGate},
                       until : {p.until}, parks : {p.parks}]
             /\ \A t \in Steps :
                  /\ q.step[t].owner = p.step[t].owner /\ q.step[t].pre = p.step[t].pre
                  /\ q.step[t].judged = p.step[t].judged
                  /\ q.step[t].status = p.step[t].status \/ q.step[t].status = "done"
  <2>1. p.step \in [Steps -> Step]
    BY DEF Plan
  <2>2. PICK st : st = [p.step[s] EXCEPT !.status = "done"]
    OBVIOUS
  <2>3. st \in Step /\ st.status = "done" /\ st.owner = p.step[s].owner /\ st.pre = p.step[s].pre
        /\ st.judged = p.step[s].judged
    BY <2>1, <2>2 DEF Step
  <2>4. PICK steps : steps = [p.step EXCEPT ![s] = st]
    OBVIOUS
  <2>5. steps \in [Steps -> Step] /\ steps[s] = st /\ \A t \in Steps \ {s} : steps[t] = p.step[t]
    BY <2>1, <2>3, <2>4
  <2>6. q = [p EXCEPT !.step = steps]
    BY <1>1, <2>2, <2>4
  <2>7. q.step = steps
    BY <2>6 DEF Plan
  <2>8. q \in [open : {p.open}, step : [Steps -> Step], coords : {p.coords}, ruled : {p.ruled}, dangling : {p.dangling},
                       fired : {p.fired}, fires : {p.fires}, typed : {p.typed}, byGate : {p.byGate},
                       until : {p.until}, parks : {p.parks}]
    BY <2>5, <2>6 DEF Plan
  <2> QED BY <2>3, <2>5, <2>7, <2>8
<1>2. CASE q = [p EXCEPT !.ruled = TRUE]
  BY <1>2 DEF Plan
<1>3. CASE q = [p EXCEPT !.fired = TRUE]
  BY <1>3 DEF Plan
<1>4. ASSUME NEW s \in Steps, q = [p EXCEPT !.step[s].status = "done"]
      PROVE  q \in Plan /\ q.open = p.open /\ q.byGate = p.byGate /\ q.until = p.until
             /\ q.parks = p.parks /\ q.fires = p.fires /\ q.ruled = p.ruled /\ q.fired = p.fired
  BY <1>1, <1>4 DEF Plan
<1> QED BY <1>1, <1>2, <1>3, <1>4 DEF Further

\* Progress meets conditions and ends constraints, never the other way about.
LEMMA FurtherMeets ==
  ASSUME NEW p \in Plan, NEW q, Further(p, q), NEW at
  PROVE  /\ \A ref : Met(p, ref, at) => Met(q, ref, at)
         /\ Active(q, at) => Active(p, at)
         /\ \A s \in Steps : /\ Satisfied(p, s, at) => Satisfied(q, s, at)
                             /\ Believed(q, s) /\ q.step[s].status # "done" => Believed(p, s)
                             /\ Open(p.step[s]) /\ q.step[s].status # "done" => Open(q.step[s])
<1>1. ASSUME NEW ref, Met(p, ref, at) PROVE Met(q, ref, at)
  <2>1. CASE ref \in Steps
    BY <1>1, <2>1, FurtherIs, LedgerAssumption DEF Met
  <2>2. CASE ref \notin Steps
    BY <1>1, <2>2, FurtherIs, LedgerAssumption DEF Met
  <2> QED BY <2>1, <2>2
<1>2. Active(q, at) => Active(p, at)
  BY FurtherIs DEF Active
<1>3. ASSUME NEW s \in Steps PROVE Satisfied(p, s, at) => Satisfied(q, s, at)
  BY <1>1, FurtherIs DEF Satisfied
<1>4. ASSUME NEW s \in Steps
      PROVE  /\ Believed(q, s) /\ q.step[s].status # "done" => Believed(p, s)
             /\ Open(p.step[s]) /\ q.step[s].status # "done" => Open(q.step[s])
  BY FurtherIs DEF Believed, Open
<1> QED BY <1>1, <1>2, <1>3, <1>4

\* An edit that makes progress makes it on one plan.
LEMMA ProgressIsFurther ==
  ASSUME LedgerInv, Progress
  PROVE  \E f \in Files : \E q \in Plan : Further(ledger[f].plan, q) /\ SetPlan(f, q)
<1>1. PICK f \in Files :
        LET p == ledger[f].plan IN
        \/ \E s \in Steps : p.step[s].status # "done" /\ SetPlan(f, [p EXCEPT !.step[s].status = "done"])
        \/ ~p.ruled /\ SetPlan(f, [p EXCEPT !.ruled = TRUE])
        \/ ~p.fired /\ SetPlan(f, [p EXCEPT !.fired = TRUE])
  BY DEF Progress
<1>2. PICK q : Further(ledger[f].plan, q) /\ SetPlan(f, q)
  BY <1>1 DEF Further
<1>3. ledger[f].plan \in Plan
  BY DEF LedgerInv, File
<1> QED BY <1>2, <1>3, FurtherIs

\* Progress on one plan leaves what is runnable runnable, but for what it has done.
LEMMA ProgressKeeps ==
  ASSUME LedgerInv, NEW f \in Files, NEW q \in Plan, Further(ledger[f].plan, q), SetPlan(f, q),
         NEW seat, NEW e \in Runnable(ledger, seat, now),
         ledger'[e[1]].plan.step[e[2]].status # "done"
  PROVE  e \in Runnable(ledger', seat, now)
<1> DEFINE p == ledger[f].plan
<1>1. p \in Plan
  BY DEF LedgerInv, File
<1>2. /\ ledger'[f].plan = q /\ ledger'[f].text = "fine" /\ ledger[f].text = "fine"
      /\ \A g \in Files \ {f} : ledger'[g] = ledger[g]
      /\ Loaded(ledger') = Loaded(ledger) /\ Loaded(ledger) \subseteq Files
  BY EditOfOne DEF Loaded, LedgerInv
<1>3. Opens(ledger') = Opens(ledger) /\ Opens(ledger) \subseteq Files
  BY <1>1, <1>2, FurtherIs DEF Opens
<1>4. \A g \in Files : g = f \/ ledger'[g].plan = ledger[g].plan
  BY <1>2
<1>5. Parked(ledger', now) \subseteq Parked(ledger, now)
  <2>1. ASSUME NEW g \in Opens(ledger), Active(ledger'[g].plan, now)
        PROVE  Active(ledger[g].plan, now) /\ ledger'[g].plan.parks = ledger[g].plan.parks
    <3>1. CASE g = f
      BY <1>1, <1>2, <2>1, <3>1, FurtherMeets, FurtherIs
    <3> QED BY <1>3, <1>4, <2>1, <3>1
  <2> QED BY <1>3, <2>1 DEF Parked
<1>6. PICK g \in Opens(ledger), s \in Steps :
        /\ e = <<g, s>> /\ ledger[g].plan.step[s].owner = seat
        /\ Open(ledger[g].plan.step[s]) /\ ~Believed(ledger[g].plan, s) /\ Satisfied(ledger[g].plan, s, now)
        /\ e \notin Parked(ledger, now)
  BY DEF Runnable
<1>7. /\ ledger'[g].plan.step[s].owner = seat /\ Open(ledger'[g].plan.step[s])
      /\ ~Believed(ledger'[g].plan, s) /\ Satisfied(ledger'[g].plan, s, now)
  <2>1. ledger'[g].plan.step[s].status # "done"
    BY <1>6
  <2>2. CASE g = f
    <3>1. q.step[s].status # "done" /\ q.step[s].owner = p.step[s].owner
      BY <1>1, <1>2, <2>1, <2>2, FurtherIs
    <3>2. Open(q.step[s]) /\ ~Believed(q, s) /\ Satisfied(q, s, now)
      BY <1>1, <1>6, <2>2, <3>1, FurtherMeets
    <3> QED BY <1>2, <1>6, <2>2, <3>1, <3>2
  <2>3. CASE g # f
    BY <1>3, <1>4, <1>6, <2>3
  <2> QED BY <2>2, <2>3
<1>8. e[1] = g /\ e[2] = s /\ e \in Opens(ledger') \X Steps
  BY <1>3, <1>6
<1> HIDE DEF p
<1> QED BY <1>5, <1>6, <1>7, <1>8 DEF Runnable

\* Time and progress take only what is done off a list.
LEMMA ProgressHides ==
  ASSUME LedgerInv, Tick \/ Progress
  PROVE  \A seat \in Seats : \A e \in Runnable(ledger, seat, now) \ Runnable(ledger', seat, now') :
           ledger'[e[1]].plan.step[e[2]].status = "done"
<1>1. CASE Tick
  <2>1. ledger' = ledger /\ now \in Nat /\ now' \in Nat /\ now <= now' /\ ledger \in Ledgers
    BY <1>1, LedgerAssumption DEF Tick, LedgerInv, Ledgers
  <2>2. \A seat : Runnable(ledger, seat, now) \subseteq Runnable(ledger, seat, now')
    BY <2>1, RunnableLater
  <2> QED BY <2>1, <2>2
<1>2. CASE Progress
  <2>1. PICK f \in Files, q \in Plan : Further(ledger[f].plan, q) /\ SetPlan(f, q)
    BY <1>2, ProgressIsFurther
  <2>2. now' = now
    BY <2>1 DEF SetPlan
  <2> QED BY <2>1, <2>2, ProgressKeeps
<1> QED BY <1>1, <1>2

-----------------------------------------------------------------------------
(* The types of the ledger.                                                *)

\* An edit that reworks a plan leaves a plan.
LEMMA ReworkIs ==
  ASSUME LedgerInv, Rework
  PROVE  \E f \in Files : \E q \in Plan : SetPlan(f, q)
<1>1. PICK f \in Files :
        LET p == ledger[f].plan IN
        \/ \E s \in Steps, st \in {"blocked", "pending"} :
             p.step[s].status # st /\ SetPlan(f, [p EXCEPT !.step[s].status = st])
        \/ SetPlan(f, [p EXCEPT !.open = ~@])
        \/ ~p.typed /\ SetPlan(f, [p EXCEPT !.typed = TRUE, !.fires = Never])
  BY DEF Rework
<1>2. PICK p \in Plan : p = ledger[f].plan
  BY DEF LedgerInv, File
<1>3. ASSUME NEW s \in Steps, NEW st \in {"blocked", "pending"}
      PROVE  [p EXCEPT !.step[s].status = st] \in Plan
  <2>1. p.step \in [Steps -> Step]
    BY DEF Plan
  <2>2. PICK new : new = [p.step[s] EXCEPT !.status = st]
    OBVIOUS
  <2>3. new \in Step
    BY <2>1, <2>2 DEF Step
  <2>4. PICK steps : steps = [p.step EXCEPT ![s] = new]
    OBVIOUS
  <2>5. steps \in [Steps -> Step]
    BY <2>1, <2>3, <2>4
  <2>6. [p EXCEPT !.step[s].status = st] = [p EXCEPT !.step = steps]
    BY <2>2, <2>4
  <2>7. [p EXCEPT !.step = steps] \in Plan
    BY <2>5 DEF Plan
  <2> QED BY <2>6, <2>7
<1>4. [p EXCEPT !.open = ~p.open] \in Plan
  BY DEF Plan
<1>5. [p EXCEPT !.typed = TRUE, !.fires = Never] \in Plan
  <2>1. Never \in 0 .. Never
    BY LedgerAssumption DEF Never
  <2> QED BY <2>1 DEF Plan
<1> QED BY <1>1, <1>2, <1>3, <1>4, <1>5

\* The ledgers a behaviour starts from.
LEMMA LedgerInit0 == LedgerInit => LedgerInv
BY LedgerAssumption DEF LedgerInit, LedgerInv

\* Every step of the ledger, and edits are counted.
LEMMA LedgerStep == LedgerInv /\ [LedgerNext]_ledgerVars => LedgerInv' /\ edits' \in Nat /\ edits <= edits'
<1> SUFFICES ASSUME LedgerInv, [LedgerNext]_ledgerVars PROVE LedgerInv' /\ edits' \in Nat /\ edits <= edits'
  OBVIOUS
<1> USE LedgerAssumption
<1>1. ASSUME NEW f \in Files, NEW q \in Plan, SetPlan(f, q) PROVE LedgerInv' /\ edits' \in Nat /\ edits <= edits'
  BY <1>1, EditOfOne DEF LedgerInv, Ledgers
<1>2. CASE Progress
  BY <1>1, <1>2, ProgressIsFurther
<1>3. CASE Rework
  BY <1>1, <1>3, ReworkIs
<1>4. CASE Damage
  <2>1. PICK f \in Files, text \in {"fine", "broken", "unreadable"} :
          /\ text # ledger[f].text /\ edits < MaxEdits /\ edits' = edits + 1
          /\ ledger' = [ledger EXCEPT ![f].text = text] /\ now' = now
    BY <1>4 DEF Damage
  <2>2. PICK file : file = [ledger[f] EXCEPT !.text = text]
    OBVIOUS
  <2>3. file \in File
    BY <2>2 DEF LedgerInv, File
  <2>4. ledger' = [ledger EXCEPT ![f] = file]
    BY <2>1, <2>2
  <2>5. ledger' \in [Files -> File]
    BY <2>3, <2>4 DEF LedgerInv
  <2> QED BY <2>1, <2>5 DEF LedgerInv
<1>5. CASE Tick \/ UNCHANGED ledgerVars
  BY <1>5 DEF Tick, ledgerVars, LedgerInv
<1> QED BY <1>2, <1>3, <1>4, <1>5 DEF LedgerNext

-----------------------------------------------------------------------------
(* The digest.                                                             *)

\* What keeps a step from being runnable is a row of the digest, or a typo.
LEMMA UnmetIsCarried ==
  ASSUME LedgerInv, NEW f \in Opens(ledger), NEW s \in Steps, NEW then,
         ~Satisfied(ledger[f].plan, s, now)
  PROVE  LET d == Digest(ledger, then)
         IN  \/ ledger[f].plan.step[s].pre \cap {Typo} # {}
             \/ Gate \in ledger[f].plan.step[s].pre /\ f \in d.gates
             \/ Clock \in ledger[f].plan.step[s].pre /\ f \in d.clocks
                  /\ (ledger[f].plan.typed => f \in d.errors)
             \/ \E t \in Steps : t \in ledger[f].plan.step[s].pre /\
                  (<<f, t>> \in d.steps \/ ledger[f].plan.step[t].status = "superseded")
<1> USE LedgerAssumption
<1>1. PICK p \in Plan : p = ledger[f].plan
  BY DEF LedgerInv, File, Opens, Loaded
<1>2. PICK ref \in p.step[s].pre : ~Met(p, ref, now)
  BY <1>1 DEF Satisfied
<1>3. ref \in Steps \cup {Gate, Clock, Typo}
  BY <1>2, PlanTypes
<1>4. CASE ref \in Steps
  <2>1. p.step[ref].status # "done"
    BY <1>2, <1>4 DEF Met
  <2>2. p.step[ref].status = "superseded" \/ Carried(p.step[ref])
    BY <2>1 DEF Carried
  <2>3. Carried(p.step[ref]) => <<f, ref>> \in OpenSteps(ledger)
    BY <1>1, <1>4 DEF OpenSteps
  <2> QED BY <1>1, <1>2, <1>4, <2>2, <2>3 DEF Digest
<1>5. CASE ref = Gate
  <2>1. ~p.ruled
    BY <1>2, <1>5 DEF Met
  <2> QED BY <1>1, <1>2, <1>5, <2>1 DEF Digest, Unruled
<1>6. CASE ref = Clock
  <2>1. ~p.fired
    BY <1>2, <1>6 DEF Met
  <2>2. p.typed => f \in LoadErrors(ledger)
    BY <1>1 DEF LoadErrors, Defective, Opens, Loaded
  <2> QED BY <1>1, <1>2, <1>6, <2>1, <2>2 DEF Digest, Unfired
<1>7. CASE ref = Typo
  BY <1>1, <1>2, <1>7
<1> QED BY <1>3, <1>4, <1>5, <1>6, <1>7

\* A step that licenses is recorded as done, or is somebody's work, parked, or judged,
\* or nobody's.
LEMMA LicenceIsWork ==
  ASSUME LedgerInv, NEW e \in LicensedBy(ledger, now)
  PROVE  LET step == ledger[e[1]].plan.step[e[2]] IN
         \/ e \in DoneRecord(ledger) \/ e \in Parked(ledger, now) \/ step.judged
         \/ step.owner \in Seats /\ e \in Runnable(ledger, step.owner, now)
         \/ step.owner = Nobody
<1>1. PICK f \in Opens(ledger), s \in Steps :
        /\ e = <<f, s>> /\ Names(ledger, f, s) /\ ledger[f].plan.step[s].status \in {"pending", "done"}
        /\ Satisfied(ledger[f].plan, s, now)
  BY DEF LicensedBy
<1>2. PICK p \in Plan : p = ledger[f].plan
  BY DEF LedgerInv, File, Opens, Loaded
<1>3. e \in Opens(ledger) \X Steps /\ e[1] = f /\ e[2] = s
  BY <1>1
<1>4. CASE p.step[s].status = "done"
  <2>1. e \in Loaded(ledger) \X Steps
    BY <1>3 DEF Opens
  <2>2. e \in DoneRecord(ledger)
    BY <1>1, <1>2, <1>3, <1>4, <2>1 DEF DoneRecord
  <2> QED BY <2>2
<1>5. CASE p.step[s].status = "pending" /\ ~p.step[s].judged
  <2>1. Open(p.step[s]) /\ ~Believed(p, s)
    BY <1>5 DEF Open, Believed
  <2>2. e \in Runnable(ledger, p.step[s].owner, now) \cup Parked(ledger, now)
    BY <1>1, <1>2, <1>3, <2>1 DEF Runnable
  <2>3. p.step[s].owner \in Seats \cup {Nobody}
    BY <1>2 DEF Plan, Step
  <2> QED BY <1>2, <1>3, <2>2, <2>3
<1> QED BY <1>1, <1>2, <1>3, <1>4, <1>5

\* A coordinate that is known and not licensed is named by a step that can be told.
LEMMA ContradictionIsTold ==
  ASSUME LedgerInv, Population(ledger), ~Licensed(ledger, now)
  PROVE  \E f \in Opens(ledger), s \in Steps :
           /\ Names(ledger, f, s)
           /\ \/ Owed(ledger, now) /\ ~Satisfied(ledger[f].plan, s, now)
              \/ ledger[f].plan.step[s].status \in {"blocked", "superseded"}
<1>1. PICK f \in Opens(ledger), s \in Steps : Names(ledger, f, s)
  BY DEF Population, Licensed
<1>2. PICK p \in Plan : p = ledger[f].plan
  BY DEF LedgerInv, File, Opens, Loaded
<1>3. p.step[s].status \in {"pending", "blocked", "done", "superseded"}
  BY <1>2 DEF Plan, Step
<1>4. ASSUME p.step[s].status \in {"pending", "done"} PROVE ~Satisfied(p, s, now)
  <2>1. PICK e : e = <<f, s>>
    OBVIOUS
  <2>2. e \in Opens(ledger) \X Steps /\ e[1] = f /\ e[2] = s
    BY <1>1, <2>1
  <2>3. e \notin LicensedBy(ledger, now)
    BY DEF Licensed
  <2> QED BY <1>1, <1>2, <1>4, <2>2, <2>3 DEF LicensedBy
<1>5. ~Satisfied(p, s, now) => Owed(ledger, now)
  BY <1>1, <1>2 DEF Owed
<1> QED BY <1>1, <1>2, <1>3, <1>4, <1>5

\* The digest carries what its readers act on.
LEMMA CarrierHolds == LedgerInv => CarrierIsComplete
<1> SUFFICES ASSUME LedgerInv, NEW then \in 0 .. now
             PROVE  LET d == Digest(ledger, then) IN
    /\ \A seat \in Seats : Runnable(ledger, seat, now) \subseteq d.steps
    /\ \A e \in Parked(ledger, now) :
         \E f \in d.constraints : e \in ledger[f].plan.parks
    /\ \A f \in Opens(ledger), s \in Steps :
         ledger[f].plan.step[s].status \in {"pending", "blocked"} /\ ~Satisfied(ledger[f].plan, s, now) =>
           \/ ledger[f].plan.step[s].pre \cap {Typo} # {}
           \/ Gate \in ledger[f].plan.step[s].pre /\ f \in d.gates
           \/ Clock \in ledger[f].plan.step[s].pre /\ f \in d.clocks
                /\ (ledger[f].plan.typed => f \in d.errors)
           \/ \E t \in Steps : t \in ledger[f].plan.step[s].pre /\
                (<<f, t>> \in d.steps \/ ledger[f].plan.step[t].status = "superseded")
    /\ \A f \in Files : ledger[f].plan.open => f \in Opens(ledger) \/ f \in d.errors
    /\ \A e \in LicensedBy(ledger, now) :
         LET step == ledger[e[1]].plan.step[e[2]] IN
         \/ e \in DoneRecord(ledger) \/ e \in Parked(ledger, now) \/ step.judged
         \/ step.owner \in Seats /\ e \in Runnable(ledger, step.owner, now)
         \/ step.owner = Nobody
    /\ Population(ledger) /\ ~Licensed(ledger, now) =>
         \E f \in Opens(ledger), s \in Steps :
           /\ Names(ledger, f, s)
           /\ \/ Owed(ledger, now) /\ ~Satisfied(ledger[f].plan, s, now)
              \/ ledger[f].plan.step[s].status \in {"blocked", "superseded"}
  BY DEF CarrierIsComplete
<1> DEFINE d == Digest(ledger, then)
<1>1. d.steps = OpenSteps(ledger) /\ d.constraints = ActiveConstraints(ledger, then)
      /\ d.errors = LoadErrors(ledger)
  BY DEF Digest
<1>2. \A seat : Runnable(ledger, seat, now) \subseteq OpenSteps(ledger)
  BY DEF Runnable, OpenSteps, Open, Carried
<1>3. ASSUME NEW e \in Parked(ledger, now)
      PROVE  \E f \in ActiveConstraints(ledger, then) : e \in ledger[f].plan.parks
  <2>1. PICK f \in Opens(ledger) : Active(ledger[f].plan, now) /\ e \in ledger[f].plan.parks
    BY DEF Parked
  <2>2. ledger[f].plan \in Plan
    BY DEF LedgerInv, File, Opens, Loaded
  <2>3. then \in Nat /\ now \in Nat /\ then <= now
    BY LedgerAssumption DEF LedgerInv
  <2> QED BY <2>1, <2>2, <2>3, ActiveBefore DEF ActiveConstraints
<1>4. \A f \in Files : ledger[f].plan.open => f \in Opens(ledger) \/ f \in LoadErrors(ledger)
  BY DEF LedgerInv, Opens, Loaded, LoadErrors
<1> HIDE DEF d
<1> QED BY <1>1, <1>2, <1>3, <1>4, UnmetIsCarried, LicenceIsWork, ContradictionIsTold DEF d

-----------------------------------------------------------------------------
(* The banner.                                                             *)

\* A digest has finitely many rows.
LEMMA FiniteSections ==
  ASSUME NEW files \in Ledgers, NEW at
  PROVE  /\ IsFiniteSet(Opens(files)) /\ IsFiniteSet(OpenSteps(files)) /\ IsFiniteSet(Unruled(files))
         /\ IsFiniteSet(Unfired(files)) /\ IsFiniteSet(ActiveConstraints(files, at))
         /\ IsFiniteSet(LoadErrors(files))
<1>1. Opens(files) \subseteq Files /\ LoadErrors(files) \subseteq Files
  BY DEF Opens, Loaded, LoadErrors, Ledgers
<1>2. IsFiniteSet(Files \X Steps)
  BY LedgerAssumption, FS_Product
<1>3. OpenSteps(files) \subseteq Files \X Steps
  BY <1>1 DEF OpenSteps
<1>4. Unruled(files) \subseteq Files /\ Unfired(files) \subseteq Files /\ ActiveConstraints(files, at) \subseteq Files
  BY <1>1 DEF Unruled, Unfired, ActiveConstraints
<1> QED BY <1>1, <1>2, <1>3, <1>4, LedgerAssumption, FS_Subset

\* A digest of which each section is part of another's is no longer than it.
LEMMA LinesOfLess ==
  ASSUME NEW files \in Ledgers, NEW less \in Ledgers, NEW at,
         Opens(less) \subseteq Opens(files), Opens(less) = {} => Opens(files) = {},
         OpenSteps(less) \subseteq OpenSteps(files), Unruled(less) \subseteq Unruled(files),
         Unfired(less) \subseteq Unfired(files),
         ActiveConstraints(less, at) \subseteq ActiveConstraints(files, at),
         LoadErrors(less) \subseteq LoadErrors(files), Produced(less) => Produced(files)
  PROVE  /\ Lines(less, at) <= Lines(files, at)
         /\ Opens(less) # Opens(files) => Lines(less, at) < Lines(files, at)
<1>1. \A S, T : IsFiniteSet(T) /\ S \subseteq T =>
        /\ Cardinality(S) \in Nat /\ Cardinality(T) \in Nat /\ Cardinality(S) <= Cardinality(T)
        /\ S # T => Cardinality(S) < Cardinality(T)
  BY FS_Subset, FS_CardinalityType
<1>2. Cardinality(Opens(less)) <= Cardinality(Opens(files))
      /\ Cardinality(Opens(less)) \in Nat /\ Cardinality(Opens(files)) \in Nat
      /\ (Opens(less) # Opens(files) => Cardinality(Opens(less)) < Cardinality(Opens(files)))
  BY <1>1, FiniteSections
<1>3. Cardinality(OpenSteps(less)) <= Cardinality(OpenSteps(files))
      /\ Cardinality(OpenSteps(less)) \in Nat /\ Cardinality(OpenSteps(files)) \in Nat
  BY <1>1, FiniteSections
<1>4. Cardinality(Unruled(less)) <= Cardinality(Unruled(files))
      /\ Cardinality(Unruled(less)) \in Nat /\ Cardinality(Unruled(files)) \in Nat
  BY <1>1, FiniteSections
<1>5. Cardinality(Unfired(less)) <= Cardinality(Unfired(files))
      /\ Cardinality(Unfired(less)) \in Nat /\ Cardinality(Unfired(files)) \in Nat
  BY <1>1, FiniteSections
<1>6. Cardinality(ActiveConstraints(less, at)) <= Cardinality(ActiveConstraints(files, at))
      /\ Cardinality(ActiveConstraints(less, at)) \in Nat /\ Cardinality(ActiveConstraints(files, at)) \in Nat
  BY <1>1, FiniteSections
<1>7. Cardinality(LoadErrors(less)) <= Cardinality(LoadErrors(files))
      /\ Cardinality(LoadErrors(less)) \in Nat /\ Cardinality(LoadErrors(files)) \in Nat
  BY <1>1, FiniteSections
<1>8. PICK i, j : /\ i = (IF Produced(less) THEN 1 ELSE 0) /\ j = (IF Produced(files) THEN 1 ELSE 0)
                  /\ i \in {0, 1} /\ j \in {0, 1} /\ i <= j
  OBVIOUS
<1>9. PICK k, l : /\ k = (IF Opens(less) = {} THEN 1 ELSE 0) /\ l = (IF Opens(files) = {} THEN 1 ELSE 0)
                  /\ k \in {0, 1} /\ l \in {0, 1} /\ k <= l
  OBVIOUS
<1> QED BY <1>2, <1>3, <1>4, <1>5, <1>6, <1>7, <1>8, <1>9 DEF Lines

\* Closing a plan takes its rows away, and adds none.
LEMMA ClosingShortens ==
  ASSUME LedgerInv, NEW f \in Opens(ledger), Opens(ledger) \ {f} # {}
  PROVE  Lines([ledger EXCEPT ![f].plan.open = FALSE], now) < Lines(ledger, now)
<1>1. f \in Files /\ DOMAIN ledger = Files /\ ledger \in Ledgers
  BY DEF LedgerInv, Opens, Loaded, Ledgers
<1>2. PICK p \in Plan : p = ledger[f].plan
  BY <1>1 DEF LedgerInv, File
<1>3. PICK q : q = [p EXCEPT !.open = FALSE]
  OBVIOUS
<1>4. q \in Plan /\ ~q.open /\ Defective(q) = Defective(p) /\ q.step = p.step
  BY <1>3 DEF Plan, Defective
<1>5. PICK file : file = [ledger[f] EXCEPT !.plan = q]
  OBVIOUS
<1>6. file \in File /\ file.plan = q /\ file.text = ledger[f].text
  BY <1>1, <1>4, <1>5 DEF LedgerInv, File
<1>7. PICK less : less = [ledger EXCEPT ![f] = file]
  OBVIOUS
<1>8. less = [ledger EXCEPT ![f].plan.open = FALSE]
  BY <1>2, <1>3, <1>5, <1>7
<1>9. less \in Ledgers /\ less[f] = file /\ (\A g \in Files \ {f} : less[g] = ledger[g]) /\ DOMAIN less = Files
  BY <1>1, <1>6, <1>7 DEF Ledgers
<1>10. Loaded(less) = Loaded(ledger)
  BY <1>1, <1>6, <1>9 DEF Loaded, Loads
<1>11. Opens(less) = Opens(ledger) \ {f}
  <2>1. \A g \in Loaded(ledger) : g \in Files
    BY <1>1 DEF Loaded
  <2> QED BY <1>4, <1>6, <1>9, <1>10, <2>1 DEF Opens
<1>12. \A g \in Opens(less) : g \in Opens(ledger) /\ less[g] = ledger[g]
  BY <1>1, <1>9, <1>11 DEF Opens, Loaded
<1>13. /\ OpenSteps(less) \subseteq OpenSteps(ledger) /\ Unruled(less) \subseteq Unruled(ledger)
       /\ Unfired(less) \subseteq Unfired(ledger)
       /\ ActiveConstraints(less, now) \subseteq ActiveConstraints(ledger, now)
  BY <1>12 DEF OpenSteps, Unruled, Unfired, ActiveConstraints
<1>14. LoadErrors(less) \subseteq LoadErrors(ledger)
  BY <1>1, <1>2, <1>4, <1>6, <1>9 DEF LoadErrors, Loads
<1>15. Produced(less) => Produced(ledger)
  <2>1. \A g \in Files : less[g].plan.step = ledger[g].plan.step
    BY <1>2, <1>4, <1>6, <1>9
  <2>2. \A e \in Loaded(ledger) \X Steps : e[1] \in Files
    BY <1>1 DEF Loaded
  <2> QED BY <1>10, <2>1, <2>2 DEF Produced, DoneRecord, Names
<1> QED BY <1>1, <1>8, <1>9, <1>11, <1>13, <1>14, <1>15, LinesOfLess

\* A step that is done takes nothing of the digest's plans as it stands.
LEMMA DoneTakesNothing ==
  ASSUME LedgerInv, NEW f \in Opens(ledger), NEW s \in Steps, ledger[f].plan.step[s].status = "done"
  PROVE  Lines([ledger EXCEPT ![f].plan.step[s].status = "superseded"], now) <= Lines(ledger, now)
<1>1. f \in Files /\ DOMAIN ledger = Files /\ ledger \in Ledgers
  BY DEF LedgerInv, Opens, Loaded, Ledgers
<1>2. PICK p \in Plan : p = ledger[f].plan
  BY <1>1 DEF LedgerInv, File
<1>3. PICK st : st = [p.step[s] EXCEPT !.status = "superseded"]
  OBVIOUS
<1>4. st \in Step /\ st.status = "superseded" /\ st.coord = p.step[s].coord /\ p.step \in [Steps -> Step]
  BY <1>3 DEF Plan, Step
<1>5. PICK steps : steps = [p.step EXCEPT ![s] = st]
  OBVIOUS
<1>6. steps \in [Steps -> Step] /\ steps[s] = st /\ \A t \in Steps \ {s} : steps[t] = p.step[t]
  BY <1>4, <1>5
<1>7. PICK q : q = [p EXCEPT !.step = steps]
  OBVIOUS
<1>8. /\ q \in Plan /\ q.step = steps /\ q.open = p.open /\ q.ruled = p.ruled /\ q.fired = p.fired
      /\ q.byGate = p.byGate /\ q.until = p.until /\ q.typed = p.typed /\ q.dangling = p.dangling
  BY <1>6, <1>7 DEF Plan
<1>9. PICK file : file = [ledger[f] EXCEPT !.plan = q]
  OBVIOUS
<1>10. file \in File /\ file.plan = q /\ file.text = ledger[f].text
  BY <1>1, <1>8, <1>9 DEF LedgerInv, File
<1>11. PICK less : less = [ledger EXCEPT ![f] = file]
  OBVIOUS
<1>12. less = [ledger EXCEPT ![f].plan.step[s].status = "superseded"]
  BY <1>2, <1>3, <1>5, <1>7, <1>9, <1>11
<1>13. less \in Ledgers /\ less[f] = file /\ (\A g \in Files \ {f} : less[g] = ledger[g]) /\ DOMAIN less = Files
  BY <1>1, <1>10, <1>11 DEF Ledgers
<1>14. \A g \in Files :
         /\ less[g].text = ledger[g].text /\ less[g].plan.open = ledger[g].plan.open
         /\ less[g].plan.ruled = ledger[g].plan.ruled /\ less[g].plan.fired = ledger[g].plan.fired
         /\ less[g].plan.byGate = ledger[g].plan.byGate /\ less[g].plan.until = ledger[g].plan.until
         /\ less[g].plan.typed = ledger[g].plan.typed /\ less[g].plan.dangling = ledger[g].plan.dangling
  BY <1>2, <1>8, <1>10, <1>13
<1>15. \A g \in Files, t \in Steps :
         /\ less[g].plan.step[t].coord = ledger[g].plan.step[t].coord
         /\ \/ less[g].plan.step[t].status = ledger[g].plan.step[t].status
            \/ less[g].plan.step[t].status = "superseded" /\ ledger[g].plan.step[t].status = "done"
  BY <1>2, <1>4, <1>6, <1>8, <1>10, <1>13
<1>16. Loaded(less) = Loaded(ledger) /\ Loaded(ledger) \subseteq Files
  BY <1>1, <1>13, <1>14 DEF Loaded, Loads
<1>17. Opens(less) = Opens(ledger) /\ Opens(ledger) \subseteq Files
  BY <1>14, <1>16 DEF Opens
<1>18. OpenSteps(less) \subseteq OpenSteps(ledger)
  <2>1. \A e \in Opens(ledger) \X Steps : e[1] \in Files /\ e[2] \in Steps
    BY <1>17
  <2> QED BY <1>15, <1>17, <2>1 DEF OpenSteps, Carried
<1>19. /\ Unruled(less) \subseteq Unruled(ledger) /\ Unfired(less) \subseteq Unfired(ledger)
       /\ ActiveConstraints(less, now) \subseteq ActiveConstraints(ledger, now)
  BY <1>14, <1>17 DEF Unruled, Unfired, ActiveConstraints, Active
<1>20. LoadErrors(less) \subseteq LoadErrors(ledger)
  BY <1>1, <1>13, <1>14 DEF LoadErrors, Loads, Defective
<1>21. Produced(less) => Produced(ledger)
  <2>1. \A e \in Loaded(ledger) \X Steps : e[1] \in Files /\ e[2] \in Steps
    BY <1>16
  <2>2. ASSUME NEW e \in DoneRecord(less) PROVE e \in DoneRecord(ledger)
    <3>1. e \in Loaded(ledger) \X Steps /\ e[1] \in Files /\ e[2] \in Steps
      BY <1>16, <2>1 DEF DoneRecord
    <3>2. less[e[1]].plan.step[e[2]].coord /\ less[e[1]].plan.step[e[2]].status = "done"
      BY DEF DoneRecord, Names
    <3>3. ledger[e[1]].plan.step[e[2]].coord /\ ledger[e[1]].plan.step[e[2]].status = "done"
      BY <1>15, <3>1, <3>2
    <3> QED BY <3>1, <3>3 DEF DoneRecord, Names
  <2> QED BY <2>2 DEF Produced
<1> QED BY <1>1, <1>12, <1>13, <1>17, <1>18, <1>19, <1>20, <1>21, LinesOfLess

\* The banner names what would shorten the digest.
LEMMA BannerHolds == LedgerInv => BannerIsTrue
<1>1. OverCap(ledger, now) \subseteq Opens(ledger)
  BY DEF OverCap, Largest
<1> QED BY <1>1, ClosingShortens, DoneTakesNothing DEF BannerIsTrue

-----------------------------------------------------------------------------
(* The rollup.                                                             *)

\* A cell of zero has a measured stop behind it, and all of these are zeros.
LEMMA ZeroIsMeasured ==
  ASSUME IsFiniteSet(DOMAIN log)
  PROVE  NoFalseZero
<1> SUFFICES ASSUME NEW seat \in Seats \cup {Unresolved}, NEW day \in 0 .. MaxNow,
                    Cell(Rows(day, seat)) = 0
             PROVE  \E i \in Rows(day, seat) : log[i].count = 0
  BY DEF NoFalseZero
<1>1. PICK rows : rows = Rows(day, seat)
  OBVIOUS
<1>2. Measured(rows) # {} /\ Cardinality(WithWork(rows)) = 0
  BY <1>1 DEF Cell, NotMeasured
<1>3. WithWork(rows) \subseteq DOMAIN log
  BY <1>1 DEF WithWork, Measured, Rows
<1>4. WithWork(rows) = {}
  BY <1>2, <1>3, FS_Subset, FS_EmptySet
<1>5. PICK i \in Measured(rows) : i \notin WithWork(rows)
  BY <1>2, <1>4
<1>6. i \in rows /\ log[i].count = 0
  BY <1>5 DEF WithWork, Measured
<1> QED BY <1>1, <1>6

-----------------------------------------------------------------------------
(* The sessions at the gate.                                               *)

\* What has been read of the files so far; what a file's explanation is kept for.
Snapshots == UNION {[D -> File] : D \in SUBSET Files}
Shas == Ledgers \cup {NoLedger}

WorkPcs == {"load", "listed", "hash", "sha", "note", "clear", "refused"}
WorkFrame == [pc : WorkPcs, kind : {"stop", "check", "explain"}, key : Keys \cup {Gate}, seat : Seats,
              todo : SUBSET Files, seen : Snapshots, at : 0 .. MaxNow, hashed : Snapshots, edits : Nat]
BindFrame == [pc : {"bind"}, seat : Seats]
Frames == WorkFrame \cup BindFrame \cup {Idle}
Receipts == [session : Sessions, seat : Seats \cup {Unresolved}, day : 0 .. MaxNow, count : Int] \cup {Rest}

\* What has been read is the ledger as it stands, as long as nothing was edited.
Fresh(fr, files, n) ==
  /\ fr.edits <= n
  /\ fr.edits = n => /\ \A g \in DOMAIN fr.seen : fr.seen[g] = files[g]
                     /\ \A g \in DOMAIN fr.hashed : fr.hashed[g] = files[g]

\* How far the reading has come.
Come(fr) ==
  /\ fr.kind = "explain" => fr.key \in Keys /\ fr.pc \in {"hash", "sha"}
  /\ fr.pc = "load" => DOMAIN fr.seen = Files \ fr.todo /\ fr.hashed = NoLedger
  /\ fr.pc # "load" /\ fr.kind # "explain" => DOMAIN fr.seen = Files
  /\ fr.pc = "listed" => fr.todo = Files /\ fr.hashed = NoLedger
  /\ fr.pc = "hash" => DOMAIN fr.hashed = Files \ fr.todo
  /\ \A g \in DOMAIN fr.hashed : fr.hashed[g].text # "unreadable"

\* The digest is of all the files, or of none as one of them could not be read.
Hashed(fr, files, n) ==
  \/ fr.hashed \in Ledgers
  \/ fr.hashed = NoLedger /\ (fr.edits = n => \E g \in Files : files[g].text = "unreadable")

\* What the verdict was about has been explained for what was hashed.
Settled(fr, st) ==
  \A k \in Listed(fr) \cup LoadErrors(fr.seen) :
    \E e \in st : e[1] = fr.seat /\ e[2] = fr.hashed /\ e[3] = k

FrameOK(fr, files, n, st) ==
  /\ Fresh(fr, files, n) /\ Come(fr)
  /\ fr.pc \in {"sha", "note", "clear", "refused"} => Hashed(fr, files, n)
  /\ fr.pc = "clear" => Settled(fr, st)

GateTypes ==
  /\ lock \in [Sessions -> Seats \cup {Nobody, "torn"}]
  /\ frame \in [Sessions -> Frames]
  /\ store \subseteq Seats \X Shas \X Keys
  /\ log \in Seq(Receipts)
GateInv == GateTypes /\ \A s \in Sessions : frame[s] \in WorkFrame => FrameOK(frame[s], ledger, edits, store)

\* Which frames are at work.
LEMMA Constants0 ==
  /\ DOMAIN NoLedger = {} /\ NoLedger \in Snapshots
  /\ Idle.pc = "idle" /\ Idle \in Frames /\ Idle \notin WorkFrame
  /\ \A fr \in BindFrame : fr.pc = "bind" /\ fr \notin WorkFrame /\ fr \in Frames
  /\ \A fr \in WorkFrame : fr.pc \in WorkPcs /\ fr \in Frames
  /\ \A fr \in Frames : fr.pc \in WorkPcs => fr \in WorkFrame
<1>1. DOMAIN NoLedger = {} /\ NoLedger \in [{} -> File]
  BY DEF NoLedger
<1>2. NoLedger \in Snapshots
  BY <1>1 DEF Snapshots
<1>3. Idle.pc = "idle" /\ \A fr \in BindFrame : fr.pc = "bind"
  BY DEF Idle, BindFrame
<1>4. \A fr \in WorkFrame : fr.pc \in WorkPcs
  BY DEF WorkFrame
<1>5. "idle" \notin WorkPcs /\ "bind" \notin WorkPcs
  BY DEF WorkPcs
<1> QED BY <1>1, <1>2, <1>3, <1>4, <1>5 DEF Frames

\* Whatever becomes of the ledger and the store, as long as edits are counted and
\* explanations stay, a frame that stands still stays as good as it was.
LEMMA FrameStays ==
  ASSUME NEW fr, NEW files, NEW n \in Nat, NEW st, FrameOK(fr, files, n, st),
         fr.edits \in Nat,
         NEW files2, NEW n2 \in Nat, NEW st2, n <= n2, n2 = n => files2 = files, st \subseteq st2
  PROVE  FrameOK(fr, files2, n2, st2)
<1>1. fr.edits <= n2 /\ (fr.edits = n2 => fr.edits = n /\ files2 = files)
  BY DEF FrameOK, Fresh
<1>2. Fresh(fr, files2, n2)
  BY <1>1 DEF FrameOK, Fresh
<1>3. Hashed(fr, files, n) => Hashed(fr, files2, n2)
  BY <1>1 DEF Hashed
<1>4. Settled(fr, st) => Settled(fr, st2)
  BY DEF Settled
<1> QED BY <1>2, <1>3, <1>4 DEF FrameOK

\* A step of one session that leaves the ledger, and of the others what they are.
LEMMA SessionStep ==
  ASSUME GateInv, LedgerInv, UNCHANGED ledgerVars, NEW s \in Sessions, NEW g \in Frames,
         frame' = [frame EXCEPT ![s] = g], store \subseteq store',
         g \in WorkFrame => FrameOK(g, ledger, edits, store'),
         lock' \in [Sessions -> Seats \cup {Nobody, "torn"}],
         store' \subseteq Seats \X Shas \X Keys, log' \in Seq(Receipts)
  PROVE  GateInv'
<1>1. edits \in Nat /\ ledger' = ledger /\ edits' = edits /\ now' = now
  BY LedgerAssumption DEF LedgerInv, ledgerVars
<1>2. frame' \in [Sessions -> Frames] /\ frame'[s] = g /\ \A t \in Sessions \ {s} : frame'[t] = frame[t]
  BY DEF GateInv, GateTypes
<1>3. GateTypes'
  BY <1>2 DEF GateTypes
<1>4. ASSUME NEW t \in Sessions \ {s}, frame[t] \in WorkFrame PROVE FrameOK(frame[t], ledger, edits, store')
  <2>1. FrameOK(frame[t], ledger, edits, store)
    BY <1>4 DEF GateInv
  <2>2. frame[t].edits \in Nat
    BY <1>4 DEF WorkFrame
  <2> QED BY <1>1, <2>1, <2>2, FrameStays
<1> QED BY <1>1, <1>2, <1>3, <1>4 DEF GateInv

\* No session runs a program at the start.
LEMMA GateInit0 == GateInit => GateInv
<1> SUFFICES ASSUME GateInit PROVE GateInv
  OBVIOUS
<1> USE DEF GateInit
<1>1. \A s \in Sessions : frame[s] = Idle
  OBVIOUS
<1>2. log \in Seq(Receipts)
  OBVIOUS
<1>3. GateTypes
  <2>1. frame \in [Sessions -> Frames]
    BY Constants0
  <2>2. lock \in [Sessions -> Seats \cup {Nobody, "torn"}]
    OBVIOUS
  <2> QED BY <1>2, <2>1, <2>2 DEF GateTypes
<1> QED BY <1>1, <1>3, Constants0 DEF GateInv

\* The ledger is edited under the sessions.
LEMMA EditStep ==
  ASSUME GateInv, LedgerInv, [LedgerNext]_ledgerVars, UNCHANGED gateVars
  PROVE  GateInv'
<1>1. edits \in Nat /\ edits' \in Nat /\ edits <= edits'
  BY LedgerStep, LedgerAssumption DEF LedgerInv
<1>2. edits' = edits => ledger' = ledger
  <2>1. CASE Tick \/ UNCHANGED ledgerVars
    BY <2>1 DEF Tick, ledgerVars
  <2>2. CASE Progress \/ Rework
    <3>1. \E f, q : SetPlan(f, q)
      BY <2>2 DEF Progress, Rework
    <3>2. edits' = edits + 1
      BY <3>1 DEF SetPlan
    <3> QED BY <1>1, <3>2
  <2>3. CASE Damage
    <3>1. edits' = edits + 1
      BY <2>3 DEF Damage
    <3> QED BY <1>1, <3>1
  <2> QED BY <2>1, <2>2, <2>3 DEF LedgerNext
<1>3. lock' = lock /\ frame' = frame /\ store' = store /\ log' = log
  BY DEF gateVars
<1>4. GateTypes'
  BY <1>3 DEF GateInv, GateTypes
<1>5. ASSUME NEW t \in Sessions, frame[t] \in WorkFrame PROVE FrameOK(frame[t], ledger', edits', store)
  <2>1. FrameOK(frame[t], ledger, edits, store)
    BY <1>5 DEF GateInv
  <2>2. frame[t].edits \in Nat
    BY <1>5 DEF WorkFrame
  <2> QED BY <1>1, <1>2, <2>1, <2>2, FrameStays
<1> QED BY <1>3, <1>4, <1>5 DEF GateInv

-----------------------------------------------------------------------------
\* A program that begins has read nothing yet.
LEMMA Begins ==
  ASSUME LedgerInv, NEW kind \in {"stop", "check", "explain"}, NEW key \in Keys \cup {Gate}, NEW seat \in Seats,
         kind = "explain" => key \in Keys, NEW st
  PROVE  Begun(kind, key, seat) \in Frames /\ FrameOK(Begun(kind, key, seat), ledger, edits, st)
<1>1. PICK fr : fr = Begun(kind, key, seat)
  OBVIOUS
<1>2. PICK pc \in {"hash", "load"} : pc = IF kind = "explain" THEN "hash" ELSE "load"
  OBVIOUS
<1>3. edits \in Nat /\ now \in 0 .. MaxNow
  BY LedgerAssumption DEF LedgerInv
<1>4. /\ fr.pc = pc /\ fr.kind = kind /\ fr.key = key /\ fr.seat = seat /\ fr.todo = Files
      /\ fr.seen = NoLedger /\ fr.hashed = NoLedger /\ fr.at = now /\ fr.edits = edits
  BY <1>1, <1>2 DEF Begun
<1>5. fr \in WorkFrame
  <2>1. pc \in WorkPcs
    BY DEF WorkPcs
  <2>2. fr = [pc |-> pc, kind |-> kind, key |-> key, seat |-> seat, todo |-> Files, seen |-> NoLedger,
              at |-> now, hashed |-> NoLedger, edits |-> edits]
    BY <1>1, <1>2 DEF Begun
  <2> QED BY <1>3, <2>1, <2>2, Constants0 DEF WorkFrame
<1>6. Fresh(fr, ledger, edits)
  BY <1>3, <1>4, Constants0 DEF Fresh
<1>7. Come(fr)
  BY <1>2, <1>4, Constants0 DEF Come
<1> QED BY <1>1, <1>2, <1>4, <1>5, <1>6, <1>7, Constants0 DEF FrameOK

\* A session that has a seat has one of the seats.
LEMMA SeatOfIs == ASSUME NEW s \in Sessions, SeatOf(s) # Nobody PROVE SeatOf(s) \in Seats
BY DEF SeatOf

\* Binding a seat, in its two writes.
LEMMA BindStep ==
  ASSUME GateInv, LedgerInv, UNCHANGED ledgerVars, NEW s \in Sessions,
         (\E seat \in Seats : Bind(s, seat)) \/ WriteSeat(s)
  PROVE  GateInv'
<1>1. ASSUME NEW seat \in Seats, Bind(s, seat) PROVE GateInv'
  <2>1. PICK g : g = [pc |-> "bind", seat |-> seat]
    OBVIOUS
  <2>2. g \in BindFrame
    BY <2>1 DEF BindFrame
  <2> QED BY <1>1, <2>1, <2>2, SessionStep, Constants0 DEF Bind, GateInv, GateTypes
<1>2. CASE WriteSeat(s)
  <2>1. frame[s] \in Frames /\ frame[s].pc = "bind"
    BY <1>2 DEF WriteSeat, GateInv, GateTypes
  <2>2. frame[s].seat \in Seats
    <3>1. frame[s] \in BindFrame
      BY <2>1, Constants0 DEF Frames, WorkPcs
    <3> QED BY <3>1 DEF BindFrame
  <2> QED BY <1>2, <2>2, SessionStep, Constants0 DEF WriteSeat, GateInv, GateTypes
<1> QED BY <1>1, <1>2

\* The steps that begin a program, or end it at once.
LEMMA BeginStep ==
  ASSUME GateInv, LedgerInv, UNCHANGED ledgerVars, NEW s \in Sessions,
         Stop(s) \/ Check(s) \/ \E key \in Keys : Explain(s, key)
  PROVE  GateInv'
<1>1. ASSUME NEW kind \in {"stop", "check", "explain"}, NEW key \in Keys \cup {Gate}, NEW seat \in Seats,
             kind = "explain" => key \in Keys,
             frame' = [frame EXCEPT ![s] = Begun(kind, key, seat)], UNCHANGED <<lock, store, log>>
      PROVE  GateInv'
  <2>1. PICK g : g = Begun(kind, key, seat)
    OBVIOUS
  <2>2. g \in Frames /\ FrameOK(g, ledger, edits, store)
    BY <1>1, <2>1, Begins
  <2> QED BY <1>1, <2>1, <2>2, SessionStep DEF GateInv, GateTypes
<1>2. CASE Check(s)
  BY <1>1, <1>2, SeatOfIs DEF Check
<1>3. ASSUME NEW key \in Keys, Explain(s, key) PROVE GateInv'
  BY <1>1, <1>3, SeatOfIs DEF Explain
<1>4. CASE Stop(s) /\ SeatOf(s) # Nobody
  BY <1>1, <1>4, SeatOfIs DEF Stop
<1>5. CASE Stop(s) /\ SeatOf(s) = Nobody
  <2>1. PICK r : r = Receipt(s, Unresolved, now, NotMeasured)
    OBVIOUS
  <2>2. r \in Receipts
    BY <2>1 DEF Receipt, Receipts, LedgerInv, NotMeasured
  <2>3. log' = Append(log, r) /\ frame' = frame /\ lock' = lock /\ store' = store
    BY <1>5, <2>1 DEF Stop
  <2>4. log' \in Seq(Receipts)
    BY <2>2, <2>3 DEF GateInv, GateTypes
  <2>5. GateTypes'
    BY <2>3, <2>4 DEF GateInv, GateTypes
  <2> QED BY <2>3, <2>5 DEF GateInv, ledgerVars
<1> QED BY <1>2, <1>3, <1>4, <1>5

-----------------------------------------------------------------------------
\* One more file of a reading: the partial function grows by it.
LEMMA ReadsOne ==
  ASSUME LedgerInv, NEW seen \in Snapshots, NEW f \in Files, NEW more,
         more = [g \in DOMAIN seen \cup {f} |-> IF g = f THEN ledger[f] ELSE seen[g]]
  PROVE  /\ more \in Snapshots /\ DOMAIN more = DOMAIN seen \cup {f}
         /\ more[f] = ledger[f] /\ \A g \in DOMAIN seen : g # f => more[g] = seen[g]
<1>1. PICK D \in SUBSET Files : seen \in [D -> File]
  BY DEF Snapshots
<1>2. more \in [D \cup {f} -> File]
  BY <1>1 DEF LedgerInv
<1>3. D \cup {f} \in SUBSET Files
  BY <1>1
<1>4. more \in Snapshots
  BY <1>2, <1>3 DEF Snapshots
<1> QED BY <1>1, <1>4

\* A reading of all the files is a ledger.
LEMMA SnapshotOfAll ==
  ASSUME NEW seen \in Snapshots
  PROVE  DOMAIN seen \subseteq Files /\ (DOMAIN seen = Files => seen \in Ledgers)
<1>1. PICK D \in SUBSET Files : seen \in [D -> File]
  BY DEF Snapshots
<1> QED BY <1>1 DEF Ledgers

\* The file that is read next is one of those left.
LEMMA FirstIsOne == ASSUME NEW S, S # {} PROVE First(S) \in S
BY DEF First

\* load_plans() reads one more file, or is done.
LEMMA LoadStep ==
  ASSUME GateInv, LedgerInv, UNCHANGED ledgerVars, NEW s \in Sessions, Load(s)
  PROVE  GateInv'
<1> USE DEF Load
<1>1. PICK fr \in WorkFrame : fr = frame[s] /\ fr.pc = "load" /\ FrameOK(fr, ledger, edits, store)
  <2>1. frame[s] \in Frames
    BY DEF GateInv, GateTypes
  <2> QED BY <2>1, Constants0 DEF GateInv, WorkPcs
<1>2. /\ fr.seen \in Snapshots /\ fr.todo \in SUBSET Files /\ fr.edits \in Nat /\ now \in 0 .. MaxNow
      /\ Fresh(fr, ledger, edits) /\ Come(fr) /\ fr.kind # "explain"
      /\ DOMAIN fr.seen = Files \ fr.todo /\ fr.hashed = NoLedger
  <2>1. fr.kind # "explain"
    BY <1>1 DEF FrameOK, Come
  <2> QED BY <1>1, <2>1 DEF WorkFrame, LedgerInv, FrameOK, Come
<1>3. CASE fr.todo # {}
  <2>1. PICK f \in fr.todo : f = First(fr.todo) /\ f \in Files
    BY <1>2, <1>3, FirstIsOne
  <2>2. PICK more : more = [g \in DOMAIN fr.seen \cup {f} |-> IF g = f THEN ledger[f] ELSE fr.seen[g]]
    OBVIOUS
  <2>3. /\ more \in Snapshots /\ DOMAIN more = DOMAIN fr.seen \cup {f}
        /\ more[f] = ledger[f] /\ \A g \in DOMAIN fr.seen : g # f => more[g] = fr.seen[g]
    <3>1. fr.seen \in Snapshots /\ f \in Files
      BY <1>2, <2>1
    <3> QED BY ONLY <2>2, <3>1, LedgerInv, ReadsOne
  <2>4. PICK g : g = [fr EXCEPT !.todo = fr.todo \ {f}, !.seen = more]
    OBVIOUS
  <2>5. /\ g \in WorkFrame /\ g.pc = "load" /\ g.kind = fr.kind /\ g.key = fr.key /\ g.todo = fr.todo \ {f}
        /\ g.seen = more /\ g.hashed = fr.hashed /\ g.edits = fr.edits
    <3>1. fr.todo \ {f} \in SUBSET Files
      BY <1>2
    <3>2. g.todo = fr.todo \ {f} /\ g.seen = more
      BY <2>4 DEF WorkFrame
    <3> QED BY <1>1, <2>3, <2>4, <3>1, <3>2 DEF WorkFrame
  <2>6. frame' = [frame EXCEPT ![s] = g]
    <3>1. frame' = [frame EXCEPT ![s].todo = frame[s].todo \ {f},
                      ![s].seen = [h \in DOMAIN frame[s].seen \cup {f} |-> IF h = f THEN ledger[f] ELSE frame[s].seen[h]]]
      BY <1>1, <1>3, <2>1
    <3> QED BY <1>1, <2>2, <2>4, <3>1
  <2>7. Fresh(g, ledger, edits)
    BY <1>2, <2>3, <2>5 DEF Fresh
  <2>8. Come(g)
    BY <1>2, <2>1, <2>3, <2>5 DEF Come
  <2>9. FrameOK(g, ledger, edits, store)
    BY <2>5, <2>7, <2>8 DEF FrameOK
  <2> QED BY <2>5, <2>6, <2>9, SessionStep, Constants0 DEF GateInv, GateTypes
<1>4. CASE fr.todo = {}
  <2>1. PICK g : g = [fr EXCEPT !.pc = "listed", !.at = now, !.todo = Files]
    OBVIOUS
  <2>2. /\ g.pc = "listed" /\ g.kind = fr.kind /\ g.key = fr.key /\ g.todo = Files
        /\ g.seen = fr.seen /\ g.hashed = fr.hashed /\ g.edits = fr.edits
    BY <2>1 DEF WorkFrame
  <2>3. g \in WorkFrame
    <3>1. "listed" \in WorkPcs
      BY DEF WorkPcs
    <3> QED BY <1>2, <2>1, <3>1 DEF WorkFrame
  <2>4. frame' = [frame EXCEPT ![s] = g]
    BY <1>1, <1>4, <2>1
  <2>5. Fresh(g, ledger, edits) /\ Come(g)
    BY <1>2, <1>4, <2>2 DEF Fresh, Come
  <2>6. FrameOK(g, ledger, edits, store)
    BY <2>2, <2>5 DEF FrameOK
  <2> QED BY <2>3, <2>4, <2>6, SessionStep, Constants0 DEF GateInv, GateTypes
<1> QED BY <1>3, <1>4

\* The frame of a session that is at work.
LEMMA AtWork ==
  ASSUME GateInv, NEW s \in Sessions, frame[s].pc \in WorkPcs
  PROVE  /\ frame[s] \in WorkFrame /\ FrameOK(frame[s], ledger, edits, store)
         /\ frame[s].seen \in Snapshots /\ frame[s].hashed \in Snapshots
         /\ frame[s].todo \in SUBSET Files /\ frame[s].edits \in Nat /\ frame[s].seat \in Seats
         /\ Fresh(frame[s], ledger, edits) /\ Come(frame[s])
<1>1. frame[s] \in WorkFrame
  BY Constants0 DEF GateInv, GateTypes
<1> QED BY <1>1 DEF GateInv, FrameOK, WorkFrame

\* A program that ends.
LEMMA IdleAgain ==
  ASSUME GateInv, LedgerInv, UNCHANGED ledgerVars, NEW s \in Sessions,
         frame' = [frame EXCEPT ![s] = Idle], lock' = lock, store \subseteq store',
         store' \subseteq Seats \X Shas \X Keys, log' \in Seq(Receipts)
  PROVE  GateInv'
BY SessionStep, Constants0 DEF GateInv, GateTypes

\* A list of runnable steps has a length.
LEMMA FiniteLists ==
  ASSUME NEW fr \in WorkFrame
  PROVE  Cardinality(Listed(fr)) \in Nat
<1>1. fr.seen \in Snapshots
  BY DEF WorkFrame
<1>2. Opens(fr.seen) \subseteq Files
  BY <1>1, SnapshotOfAll DEF Opens, Loaded
<1>3. IsFiniteSet(Files \X Steps)
  BY LedgerAssumption, FS_Product
<1>4. Listed(fr) \subseteq Files \X Steps
  BY <1>2 DEF Listed, Runnable
<1> QED BY <1>3, <1>4, FS_Subset, FS_CardinalityType

\* Two sequences over a set make one over it.
LEMMA JoinOfTwo ==
  ASSUME NEW S, NEW a \in Seq(S), NEW b \in Seq(S)
  PROVE  a \o b \in Seq(S)
OBVIOUS

\* The receipt of a stop.
LEMMA RecordStep ==
  ASSUME GateInv, LedgerInv, UNCHANGED ledgerVars, NEW s \in Sessions, Record(s)
  PROVE  GateInv'
<1> USE DEF Record
<1>1. frame[s] \in WorkFrame /\ frame[s].at \in 0 .. MaxNow /\ frame[s].seat \in Seats
  BY AtWork DEF WorkPcs, WorkFrame
<1>2. PICK day \in 0 .. frame[s].at :
        log' = log \o <<Receipt(s, frame[s].seat, day, Cardinality(Listed(frame[s])))>> \o Told(frame[s].seen)
  OBVIOUS
<1>3. PICK r : r = Receipt(s, frame[s].seat, day, Cardinality(Listed(frame[s])))
  OBVIOUS
<1>4. day \in 0 .. MaxNow /\ Cardinality(Listed(frame[s])) \in Int
  BY <1>1, FiniteLists, LedgerAssumption
<1>5. r \in Receipts
  BY <1>1, <1>3, <1>4 DEF Receipt, Receipts
<1>6. Told(frame[s].seen) \in Seq(Receipts)
  <2>1. Rest \in Receipts
    BY DEF Receipts
  <2>2. <<Rest>> \in Seq(Receipts) /\ <<>> \in Seq(Receipts)
    BY <2>1
  <2> QED BY <2>2 DEF Told
<1>7. log' \in Seq(Receipts)
  <2>1. <<r>> \in Seq(Receipts) /\ log \in Seq(Receipts)
    BY <1>5 DEF GateInv, GateTypes
  <2>2. PICK sofar : sofar = log \o <<r>>
    OBVIOUS
  <2>3. PICK more : more = Told(frame[s].seen)
    OBVIOUS
  <2>4. sofar \in Seq(Receipts)
    BY <2>1, <2>2, JoinOfTwo
  <2>5. more \in Seq(Receipts)
    BY <1>6, <2>3
  <2>6. log' = sofar \o more
    BY <1>2, <1>3, <2>2, <2>3
  <2>7. sofar \o more \in Seq(Receipts)
    BY <2>4, <2>5, JoinOfTwo
  <2> QED BY <2>6, <2>7
<1> QED BY <1>7, IdleAgain DEF GateInv, GateTypes

\* The append of an explanation.
LEMMA KeepStep ==
  ASSUME GateInv, LedgerInv, UNCHANGED ledgerVars, NEW s \in Sessions, Keep(s)
  PROVE  GateInv'
<1> USE DEF Keep
<1>1. frame[s].pc = "sha" /\ frame[s].kind = "explain" /\ frame[s].pc \in WorkPcs
  BY DEF WorkPcs
<1>2. /\ FrameOK(frame[s], ledger, edits, store) /\ Come(frame[s]) /\ frame[s].seat \in Seats
  BY <1>1, AtWork
<1>3. frame[s].key \in Keys
  BY <1>1, <1>2 DEF Come
<1>4. frame[s].hashed \in Shas
  BY <1>1, <1>2 DEF FrameOK, Hashed, Shas
<1>5. store' \subseteq Seats \X Shas \X Keys
  BY <1>2, <1>3, <1>4 DEF GateInv, GateTypes
<1> QED BY <1>5, IdleAgain DEF GateInv, GateTypes

\* The return from a verdict.
LEMMA ReturnStep ==
  ASSUME GateInv, LedgerInv, UNCHANGED ledgerVars, NEW s \in Sessions, Return(s)
  PROVE  GateInv'
BY IdleAgain DEF Return, GateInv, GateTypes

\* A check that clears has found everything explained for what it hashed.
LEMMA VerdictStep ==
  ASSUME GateInv, LedgerInv, UNCHANGED ledgerVars, NEW s \in Sessions, Verdict(s)
  PROVE  GateInv'
<1> USE DEF Verdict
<1>1. PICK fr : fr = frame[s]
  OBVIOUS
<1>2. fr.pc = "sha" /\ fr.kind = "check" /\ fr.pc \in WorkPcs
  BY <1>1 DEF WorkPcs
<1>3. fr \in WorkFrame /\ Fresh(fr, ledger, edits) /\ Come(fr) /\ Hashed(fr, ledger, edits)
  BY <1>1, <1>2, AtWork DEF FrameOK
<1>4. PICK pc \in {"note", "clear", "refused"} :
        /\ frame' = [frame EXCEPT ![s].pc = pc]
        /\ pc = "clear" => OwedTo(fr) = {}
  <2>1. PICK readable \in BOOLEAN :
          frame' = [frame EXCEPT ![s].pc = IF ~readable THEN "note"
                                            ELSE IF OwedTo(frame[s]) = {} THEN "clear" ELSE "refused"]
    OBVIOUS
  <2>2. PICK pc : pc = IF ~readable THEN "note" ELSE IF OwedTo(frame[s]) = {} THEN "clear" ELSE "refused"
    OBVIOUS
  <2>3. pc \in {"note", "clear", "refused"} /\ (pc = "clear" => OwedTo(fr) = {})
    BY <1>1, <2>2
  <2>4. frame' = [frame EXCEPT ![s].pc = pc]
    BY <2>1, <2>2
  <2> QED BY <2>3, <2>4
<1>5. PICK g : g = [fr EXCEPT !.pc = pc]
  OBVIOUS
<1>6. /\ g.pc = pc /\ g.kind = fr.kind /\ g.key = fr.key /\ g.seat = fr.seat /\ g.todo = fr.todo
      /\ g.seen = fr.seen /\ g.hashed = fr.hashed /\ g.edits = fr.edits /\ g.at = fr.at
  BY <1>3, <1>5 DEF WorkFrame
<1>7. g \in WorkFrame
  <2>1. pc \in WorkPcs
    BY <1>4 DEF WorkPcs
  <2> QED BY <1>3, <1>5, <2>1 DEF WorkFrame
<1>8. frame' = [frame EXCEPT ![s] = g]
  BY <1>1, <1>4, <1>5
<1>9. Fresh(g, ledger, edits) /\ Come(g) /\ Hashed(g, ledger, edits)
  BY <1>2, <1>3, <1>4, <1>6 DEF Fresh, Come, Hashed
<1>10. pc = "clear" => Settled(g, store)
  <2>1. Listed(g) = Listed(fr)
    BY <1>6 DEF Listed
  <2>2. ASSUME OwedTo(fr) = {}, NEW k \in Listed(fr) \cup LoadErrors(fr.seen)
        PROVE  \E e \in store : e[1] = fr.seat /\ e[2] = fr.hashed /\ e[3] = k
    <3>1. k \in Known(fr)
      BY <2>2 DEF OwedTo
    <3> QED BY <3>1 DEF Known, Counts
  <2> QED BY <1>4, <1>6, <2>1, <2>2 DEF Settled
<1>11. FrameOK(g, ledger, edits, store)
  BY <1>6, <1>9, <1>10 DEF FrameOK
<1> QED BY <1>7, <1>8, <1>11, SessionStep, Constants0 DEF GateInv, GateTypes

\* ledger_sha() reads one more file, is done, or ends at one it cannot read.
LEMMA HashStep ==
  ASSUME GateInv, LedgerInv, UNCHANGED ledgerVars, NEW s \in Sessions, Hash(s)
  PROVE  GateInv'
<1> USE DEF Hash
<1>1. PICK fr : fr = frame[s]
  OBVIOUS
<1>2. fr.pc = "hash" \/ (fr.pc = "listed" /\ fr.kind = "check")
  BY <1>1
<1>3. /\ fr \in WorkFrame /\ Fresh(fr, ledger, edits) /\ Come(fr) /\ fr.hashed \in Snapshots
      /\ fr.todo \in SUBSET Files
  BY <1>1, <1>2, AtWork DEF WorkPcs
<1>4. DOMAIN fr.hashed = Files \ fr.todo
  BY <1>2, <1>3, Constants0 DEF Come
<1>5. PICK f : f = First(fr.todo)
  OBVIOUS
<1>6. CASE fr.todo # {} /\ ledger[f].text # "unreadable"
  <2>1. f \in fr.todo /\ f \in Files
    BY <1>3, <1>5, <1>6, FirstIsOne
  <2>2. PICK more : more = [g \in DOMAIN fr.hashed \cup {f} |-> IF g = f THEN ledger[f] ELSE fr.hashed[g]]
    OBVIOUS
  <2>3. /\ more \in Snapshots /\ DOMAIN more = DOMAIN fr.hashed \cup {f}
        /\ more[f] = ledger[f] /\ \A g \in DOMAIN fr.hashed : g # f => more[g] = fr.hashed[g]
    BY ONLY <1>3, <2>1, <2>2, LedgerInv, ReadsOne
  <2>4. PICK g : g = [fr EXCEPT !.todo = fr.todo \ {f}, !.hashed = more, !.pc = "hash"]
    OBVIOUS
  <2>5. /\ g.pc = "hash" /\ g.kind = fr.kind /\ g.key = fr.key /\ g.todo = fr.todo \ {f}
        /\ g.seen = fr.seen /\ g.hashed = more /\ g.edits = fr.edits
    BY <1>3, <2>4 DEF WorkFrame
  <2>6. g \in WorkFrame
    <3>1. "hash" \in WorkPcs
      BY DEF WorkPcs
    <3>2. fr.todo \ {f} \in SUBSET Files
      BY <1>3
    <3> QED BY <1>3, <2>3, <2>4, <3>1, <3>2 DEF WorkFrame
  <2>7. frame' = [frame EXCEPT ![s] = g]
    <3>1. frame' = [frame EXCEPT ![s].todo = frame[s].todo \ {f}, ![s].hashed = more, ![s].pc = "hash"]
      BY <1>1, <1>5, <1>6, <2>2
    <3> QED BY <1>1, <2>4, <3>1
  <2>8. Fresh(g, ledger, edits)
    BY <1>3, <2>3, <2>5 DEF Fresh
  <2>9. Come(g)
    <3>1. \A h \in DOMAIN more : more[h].text # "unreadable"
      BY <1>3, <1>6, <2>3 DEF Come
    <3>2. DOMAIN more = Files \ (fr.todo \ {f})
      BY <1>3, <1>4, <2>1, <2>3
    <3> QED BY <1>2, <1>3, <2>5, <3>1, <3>2 DEF Come
  <2>10. FrameOK(g, ledger, edits, store)
    BY <2>5, <2>8, <2>9 DEF FrameOK
  <2> QED BY <2>6, <2>7, <2>10, SessionStep, Constants0 DEF GateInv, GateTypes
<1>7. CASE ~(fr.todo # {} /\ ledger[f].text # "unreadable")
  <2>1. PICK sha : sha = Sha(fr)
    OBVIOUS
  <2>2. /\ sha \in Snapshots
        /\ (fr.todo = {} /\ sha = fr.hashed /\ sha \in Ledgers)
           \/ (sha = NoLedger /\ \E g \in Files : ledger[g].text = "unreadable")
    <3>1. CASE fr.todo = {}
      BY <1>3, <1>4, <2>1, <3>1, SnapshotOfAll DEF Sha
    <3>2. CASE fr.todo # {}
      BY <1>3, <1>5, <1>7, <2>1, <3>2, FirstIsOne, Constants0 DEF Sha
    <3> QED BY <3>1, <3>2
  <2>3. PICK g : g = [fr EXCEPT !.pc = "sha", !.hashed = sha]
    OBVIOUS
  <2>4. /\ g.pc = "sha" /\ g.kind = fr.kind /\ g.key = fr.key /\ g.todo = fr.todo
        /\ g.seen = fr.seen /\ g.hashed = sha /\ g.edits = fr.edits
    BY <1>3, <2>3 DEF WorkFrame
  <2>5. g \in WorkFrame
    <3>1. "sha" \in WorkPcs
      BY DEF WorkPcs
    <3> QED BY <1>3, <2>2, <2>3, <3>1 DEF WorkFrame
  <2>6. frame' = [frame EXCEPT ![s] = g]
    <3>1. frame' = [frame EXCEPT ![s].pc = "sha", ![s].hashed = sha]
      BY <1>1, <1>5, <1>7, <2>1
    <3> QED BY <1>1, <2>3, <3>1
  <2>7. (sha = fr.hashed \/ DOMAIN sha = {})
    BY <2>2, Constants0
  <2>8. Fresh(g, ledger, edits)
    BY <1>3, <2>4, <2>7 DEF Fresh
  <2>9. Come(g)
    BY <1>2, <1>3, <2>4, <2>7 DEF Come
  <2>10. Hashed(g, ledger, edits)
    BY <2>2, <2>4 DEF Hashed
  <2>11. FrameOK(g, ledger, edits, store)
    BY <2>4, <2>8, <2>9, <2>10 DEF FrameOK
  <2> QED BY <2>5, <2>6, <2>11, SessionStep, Constants0 DEF GateInv, GateTypes
<1> QED BY <1>6, <1>7

\* Every step of a session.
LEMMA GateStep ==
  ASSUME GateInv, LedgerInv, UNCHANGED ledgerVars, NEW s \in Sessions, StopStep(s) \/ CheckStep(s, Keys)
  PROVE  GateInv'
BY BindStep, BeginStep, LoadStep, RecordStep, HashStep, KeepStep, VerdictStep, ReturnStep
DEF StopStep, CheckStep

\* A checkpoint that is let go over an unedited ledger has read that ledger, and hashed it.
LEMMA ClearHolds == LedgerInv /\ GateInv => ClearIsCurrent
<1> SUFFICES ASSUME LedgerInv, GateInv, NEW s \in Sessions, frame[s].pc = "clear", frame[s].edits = edits,
                    NEW key \in Runnable(ledger, frame[s].seat, frame[s].at) \cup LoadErrors(ledger)
             PROVE  Explained(frame[s].seat, key)
  BY DEF ClearIsCurrent
<1>1. PICK fr : fr = frame[s]
  OBVIOUS
<1>2. /\ fr.pc = "clear" /\ fr.edits = edits /\ fr.seen \in Snapshots
      /\ Fresh(fr, ledger, edits) /\ Come(fr) /\ Hashed(fr, ledger, edits) /\ Settled(fr, store)
  BY <1>1, AtWork DEF WorkPcs, FrameOK
<1>3. DOMAIN fr.seen = Files
  BY <1>2 DEF Come
<1>4. ledger \in Ledgers /\ fr.seen \in Ledgers
  BY <1>2, <1>3, SnapshotOfAll DEF LedgerInv, Ledgers
<1>5. fr.seen = ledger
  BY <1>2, <1>3, <1>4 DEF Fresh, Ledgers
<1>6. fr.hashed = ShaOf(ledger)
  <2>1. CASE fr.hashed \in Ledgers
    <3>1. fr.hashed = ledger
      BY <1>2, <1>4, <2>1 DEF Fresh, Ledgers
    <3>2. \A g \in DOMAIN ledger : ledger[g].text # "unreadable"
      BY <1>2, <3>1 DEF Come
    <3> QED BY <3>1, <3>2 DEF ShaOf
  <2>2. CASE fr.hashed = NoLedger /\ \E g \in Files : ledger[g].text = "unreadable"
    BY <1>4, <2>2 DEF ShaOf, Ledgers
  <2> QED BY <1>2, <2>1, <2>2 DEF Hashed
<1>7. key \in Listed(fr) \cup LoadErrors(fr.seen)
  BY <1>1, <1>5 DEF Listed
<1>8. PICK e \in store : e[1] = fr.seat /\ e[2] = fr.hashed /\ e[3] = key
  BY <1>2, <1>7 DEF Settled
<1>9. e = <<fr.seat, ShaOf(ledger), key>>
  BY <1>6, <1>8 DEF GateInv, GateTypes
<1> QED BY <1>1, <1>8, <1>9 DEF Explained

-----------------------------------------------------------------------------
(* The theorems.                                                           *)

LedgerAndGate == LedgerInv /\ GateInv

\* The sessions and the seats, in whatever order their steps come.
LEMMA BothStep ==
  ASSUME LedgerAndGate, [LedgerNext]_ledgerVars,
         \/ UNCHANGED gateVars
         \/ UNCHANGED ledgerVars /\ \E s \in Sessions : StopStep(s) \/ CheckStep(s, Keys)
  PROVE  LedgerAndGate'
BY LedgerStep, EditStep, GateStep DEF LedgerAndGate

\* The gate and its ledger, started from any ledger and edited in any way: what a
\* checkpoint is let go over is explained for the ledger as it stands.
THEOREM ClearIsAlwaysCurrent == Spec => []ClearIsCurrent
<1>1. Init => LedgerAndGate
  BY LedgerInit0, GateInit0 DEF Init, LedgerAndGate
<1>2. LedgerAndGate /\ [Next]_<<ledgerVars, gateVars>> => LedgerAndGate'
  BY BothStep DEF Next
<1>3. LedgerAndGate => ClearIsCurrent
  BY ClearHolds DEF LedgerAndGate
<1> QED BY <1>1, <1>2, <1>3, PTL DEF Spec

PlanInv == LedgerAndGate /\ MarksInv

\* The invariant of all the plan tools.
LEMMA PlanKeepsInv == PlanSpec => []PlanInv
<1>1. PlanInit => PlanInv
  BY LedgerInit0, GateInit0, MarksInit DEF PlanInit, Init, PlanInv, LedgerAndGate
<1>2. PlanInv /\ [PlanNext]_all => PlanInv'
  BY StepsApart, BothStep, MarksStep DEF PlanInv
<1> QED BY <1>1, <1>2, PTL DEF PlanSpec

\* The same of the instance that TLC runs.
THEOREM CheckedGateIsCurrent == PlanSpec => []ClearIsCurrent
<1>1. PlanInv => ClearIsCurrent
  BY ClearHolds DEF PlanInv, LedgerAndGate
<1> QED BY <1>1, PlanKeepsInv, PTL

\* Time passing, gates ruled, clocks fired and steps done take nothing off a seat's
\* list but what was done.
THEOREM ProgressNeverHides == PlanSpec => ProgressHidesNothing
<1> DEFINE Hides ==
      Tick \/ Progress =>
        \A seat \in Seats :
          \A e \in Runnable(ledger, seat, now) \ Runnable(ledger', seat, now') :
            ledger'[e[1]].plan.step[e[2]].status = "done"
<1>1. PlanInv /\ [PlanNext]_all => [Hides]_ledgerVars
  BY ProgressHides DEF PlanInv, LedgerAndGate
<1>2. ProgressHidesNothing <=> [][Hides]_ledgerVars
  BY DEF ProgressHidesNothing
<1> HIDE DEF Hides
<1> QED BY <1>1, <1>2, PlanKeepsInv, PTL DEF PlanSpec

\* The types that the runs check.
LEMMA TypesHold == PlanInv => TypesOK
<1> SUFFICES ASSUME LedgerInv, GateInv, MarksInv PROVE TypesOK
  BY DEF PlanInv, LedgerAndGate
<1>1. LedgerOK
  BY DEF LedgerInv, LedgerOK
<1>2. ASSUME NEW e \in store
      PROVE  /\ e[1] \in Seats /\ e[3] \in Keys
             /\ e[2] = NoLedger \/ (DOMAIN e[2] = Files /\ \A f \in Files : e[2][f] \in File)
  <2>1. e[1] \in Seats /\ e[2] \in Shas /\ e[3] \in Keys
    BY DEF GateInv, GateTypes
  <2> QED BY <2>1 DEF Shas, Ledgers
<1>3. ASSUME NEW s \in Sessions
      PROVE  frame[s].pc \in {"idle", "bind", "load", "listed", "hash", "sha", "note", "clear", "refused"}
  <2>1. frame[s] \in Frames
    BY DEF GateInv, GateTypes
  <2> QED BY <2>1, Constants0 DEF Frames, WorkPcs
<1>4. GateOK
  BY <1>2, <1>3 DEF GateOK, GateInv, GateTypes
<1> QED BY <1>1, <1>4 DEF TypesOK, MarksInv

\* The digest carries what is owed, its banner names what would shorten it, and a zero
\* of the rollup is a measurement, whatever was edited, and whenever it is read.
THEOREM ReportsAreAlwaysWhole == PlanSpec => []ReportsAreWhole
<1>1. PlanInv => ReportsAreWhole
  <2> SUFFICES ASSUME PlanInv PROVE ReportsAreWhole
    OBVIOUS
  <2>1. LedgerInv
    BY DEF PlanInv, LedgerAndGate
  <2>2. IsFiniteSet(DOMAIN log)
    <3>1. log \in Seq(Receipts)
      BY DEF PlanInv, LedgerAndGate, GateInv, GateTypes
    <3>2. Len(log) \in Nat /\ DOMAIN log = 1 .. Len(log)
      BY <3>1
    <3> QED BY <3>2, FS_Interval
  <2> QED BY <2>1, <2>2, TypesHold, CarrierHolds, BannerHolds, ZeroIsMeasured DEF ReportsAreWhole
<1> QED BY <1>1, PlanKeepsInv, PTL
=============================================================================
