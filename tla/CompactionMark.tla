--------------------------- MODULE CompactionMark ---------------------------
(***************************************************************************)
(* tools/compaction_inject.py: the hooks that mark a compaction and inject *)
(* the digest after it, and the sweep of what sessions left behind.  The   *)
(* gate that acknowledges (plan_gate.py) is external: only what it does to *)
(* the files is here.  The hooks of the sessions run side by side, and a   *)
(* watchdog ends any of them with exit 0 wherever it is.                   *)
(***************************************************************************)
EXTENDS FiniteSets, Integers

CONSTANTS
  Sessions,
  MaxDays,       \* the clock passes the days 0 .. MaxDays
  Week,          \* the age a sweep spares
  MaxHooks,      \* bound on the hooks that are started
  HookFaults     \* subset of {"watchdog", "write", "unlink", "read"}

None == -1

VARIABLES
  today,
  mark,      \* plans/.compaction_pending.<key>: the day of its mtime
  side,      \* plans/.last_injection.<key>: its day, and whether it is an acked receipt
  sentinel,  \* the sessions with a .plan_gate_mark_failed at the workspace root
  hook, hooks,
  since      \* history: whose files were written since this session's sweep began
markVars == <<today, mark, side, sentinel, hook, hooks, since>>

NoSide == [at |-> None, acked |-> FALSE]
Resting == [pc |-> "idle", key |-> {}]
Frame(mode) == [mode |-> mode, pc |-> IF mode = "mark" THEN "receipts" ELSE "load", now |-> today,
                keep |-> {}, unread |-> {}, todo |-> {}, key |-> {}, code |-> 0]
Go(s, pc) == hook' = [hook EXCEPT ![s].pc = pc]
Touched(k) == since' = [s \in Sessions |-> since[s] \cup {k}]

Start(s, mode) ==
  /\ hook[s].pc = "idle" /\ hooks < MaxHooks /\ hooks' = hooks + 1
  /\ hook' = [hook EXCEPT ![s] = Frame(mode)]
  /\ since' = [since EXCEPT ![s] = {}]
  /\ UNCHANGED <<today, mark, side, sentinel>>

-----------------------------------------------------------------------------
(* _cleanup_stale().                                                       *)

\* Mutant: the receipts are not asked.
NoReceipts == {}
AckedReceipts == {k \in Sessions : side[k].acked}

\* A receipt that cannot be read, or listed, is not a receipt.
Receipts(s) ==
  /\ hook[s].pc = "receipts"
  /\ \E unread \in SUBSET {k \in Sessions : side[k].acked} :
       /\ unread # {} => "read" \in HookFaults
       /\ hook' = [hook EXCEPT ![s].keep = AckedReceipts \ unread, ![s].unread = unread,
                              ![s].pc = "keys"]
  /\ UNCHANGED <<today, mark, side, sentinel, hooks, since>>
ListKeys(s) ==
  /\ hook[s].pc = "keys"
  /\ hook' = [hook EXCEPT ![s].todo = {k \in Sessions : mark[k] # None \/ side[k] # NoSide},
                          ![s].pc = "judge"]
  /\ UNCHANGED <<today, mark, side, sentinel, hooks, since>>

Halves(k) == {mark[k], side[k].at} \ {None}
\* Mutant: the older half decides.
OneIsOld(k, day) == \E d \in Halves(k) : day - d > Week
AllAreOld(k, day) == Halves(k) # {} /\ \A d \in Halves(k) : day - d > Week

Judge(s) ==
  /\ hook[s].pc = "judge"
  /\ \/ \E k \in hook[s].todo :
          hook' = [hook EXCEPT ![s].todo = @ \ {k}, ![s].key = {k},
                     ![s].pc = IF k \notin hook[s].keep /\ AllAreOld(k, hook[s].now)
                               THEN "unlink mark" ELSE "judge"]
     \/ hook[s].todo = {} /\ Go(s, "write")
  /\ UNCHANGED <<today, mark, side, sentinel, hooks, since>>
\* An unlink that fails is passed over, be it that the file has gone already.
UnlinkMark(s) ==
  /\ hook[s].pc = "unlink mark" /\ Go(s, "unlink side")
  /\ \E k \in hook[s].key :
       \/ mark' = [mark EXCEPT ![k] = None]
       \/ "unlink" \in HookFaults /\ UNCHANGED mark
  /\ UNCHANGED <<today, side, sentinel, hooks, since>>
UnlinkSide(s) ==
  /\ hook[s].pc = "unlink side" /\ Go(s, "judge")
  /\ \E k \in hook[s].key :
       \/ side' = [side EXCEPT ![k] = NoSide]
       \/ "unlink" \in HookFaults /\ UNCHANGED side
  /\ UNCHANGED <<today, mark, sentinel, hooks, since>>

-----------------------------------------------------------------------------
(* do_mark() and do_inject().                                              *)

WriteMark(s) ==
  /\ hook[s].pc = "write"
  /\ \/ mark' = [mark EXCEPT ![s] = today] /\ Go(s, "done") /\ Touched(s)
     \/ "write" \in HookFaults /\ Go(s, "sentinel") /\ UNCHANGED <<mark, since>>
  /\ UNCHANGED <<today, side, sentinel, hooks>>
WriteSentinel(s) ==
  /\ hook[s].pc = "sentinel"
  /\ \/ sentinel' = sentinel \cup {s} /\ Go(s, "done")
     \/ hook' = [hook EXCEPT ![s].pc = "done", ![s].code = 1] /\ UNCHANGED sentinel
  /\ UNCHANGED <<today, mark, side, hooks, since>>

\* The digest is emitted; one that misses a file is not certified.
Inject(s) ==
  /\ hook[s].pc = "load"
  /\ \E errors \in BOOLEAN : Go(s, IF errors THEN "done" ELSE "emitted")
  /\ UNCHANGED <<today, mark, side, sentinel, hooks, since>>
WriteSidecar(s) ==
  /\ hook[s].pc = "emitted" /\ Go(s, "done")
  /\ \/ side' = [side EXCEPT ![s] = [at |-> today, acked |-> FALSE]] /\ Touched(s)
     \/ "write" \in HookFaults /\ UNCHANGED <<side, since>>
  /\ UNCHANGED <<today, mark, sentinel, hooks>>

Watchdog(s) ==
  /\ "watchdog" \in HookFaults /\ hook[s].pc \notin {"idle", "done"} /\ Go(s, "done")
  /\ UNCHANGED <<today, mark, side, sentinel, hooks, since>>
Return(s) ==
  /\ hook[s].pc = "done" /\ hook' = [hook EXCEPT ![s] = Resting]
  /\ UNCHANGED <<today, mark, side, sentinel, hooks, since>>

\* External.  An ack records the receipt, touches the mark and clears the sentinel.
Ack(s) ==
  /\ mark[s] # None \/ s \in sentinel
  /\ ~(side[s].acked /\ side[s].at = today)
  /\ side' = [side EXCEPT ![s] = [at |-> today, acked |-> TRUE]]
  /\ mark' = [mark EXCEPT ![s] = IF @ = None THEN None ELSE today]
  /\ sentinel' = sentinel \ {s} /\ Touched(s)
  /\ UNCHANGED <<today, hook, hooks>>
NextDay == today < MaxDays /\ today' = today + 1
           /\ UNCHANGED <<mark, side, sentinel, hook, hooks, since>>

Init ==
  /\ today = 0 /\ sentinel = {} /\ hooks = 0
  /\ mark = [s \in Sessions |-> None] /\ side = [s \in Sessions |-> NoSide]
  /\ hook = [s \in Sessions |-> Resting] /\ since = [s \in Sessions |-> {}]
HookStep(s) ==
  \/ \E mode \in {"mark", "inject"} : Start(s, mode)
  \/ Receipts(s) \/ ListKeys(s) \/ Judge(s) \/ UnlinkMark(s) \/ UnlinkSide(s)
  \/ WriteMark(s) \/ WriteSentinel(s) \/ Inject(s) \/ WriteSidecar(s)
  \/ Watchdog(s) \/ Return(s)
Next == NextDay \/ \E s \in Sessions : Ack(s) \/ HookStep(s)
Spec == Init /\ [][Next]_markVars

-----------------------------------------------------------------------------
(* Properties.                                                             *)

TypeOK ==
  /\ today \in 0 .. MaxDays /\ sentinel \subseteq Sessions /\ hooks \in 0 .. MaxHooks
  /\ mark \in [Sessions -> {None} \cup 0 .. today]
  /\ side \in [Sessions -> [at : {None} \cup 0 .. today, acked : BOOLEAN]]
  /\ since \in [Sessions -> SUBSET Sessions]

\* What a sweep removes belongs to a session that had left both its files alone for a
\* week and had no acknowledged receipt, or one that this very sweep could not read
\* (lines 137-138 say that such a mark is NEVER swept); or to a session that touched its
\* files only after the sweep had begun.  No other failure, and no other sweep, ends a
\* binding.
SweepTakesOnlyDead ==
  [][\A k \in Sessions :
       \/ mark[k] # None /\ mark'[k] = None
       \/ side[k] # NoSide /\ side'[k] = NoSide
       => \E s \in Sessions :
            /\ hook[s].key = {k} /\ hook[s].pc \in {"unlink mark", "unlink side"}
            /\ \/ k \in since[s]
               \/ /\ ~side[k].acked \/ k \in hook[s].unread
                  /\ \A d \in Halves(k) : today - d > Week]_markVars

\* "A failed mark must not report rc 0 having armed nothing."  (Violated.)
MarkOrSentinel ==
  \A s \in Sessions :
    hook[s].pc = "done" /\ hook[s].mode = "mark" /\ hook[s].code = 0 => mark[s] # None \/ s \in sentinel
=============================================================================
