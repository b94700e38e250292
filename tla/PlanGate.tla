------------------------------ MODULE PlanGate ------------------------------
(***************************************************************************)
(* tools/plan_gate/: seat_binder.py, stop_observer.py, sleep_gate.py and   *)
(* stop_ledger_rollup.py.  A session binds its seat, leaves a receipt at   *)
(* each stop, and asks before it sleeps whether everything it could be     *)
(* doing is explained.  Each of them reads the plan files one at a time,   *)
(* while seats edit them.                                                  *)
(***************************************************************************)
EXTENDS PlanLedger, Integers, Sequences

CONSTANTS
  Sessions,
  MaxExplains,   \* bound on the explanations recorded
  MaxStops       \* bound on the receipts

ASSUME GateAssumption == MaxExplains \in Nat /\ MaxStops \in Nat

VARIABLES
  lock,     \* plans/.seat.<session>: a seat, Nobody if there is none, or "torn"
  frame,    \* the program a session runs
  store,    \* the explanations: <<seat, sha, key>>
  log       \* the stop log, of all sessions
gateVars == <<lock, frame, store, log>>

Unresolved == "unresolved"
NotMeasured == -1
\* A key is a step or a file that does not load.
Keys == (Files \X Steps) \cup Files
Idle == [pc |-> "idle"]
Begun(kind, key, seat) ==
  [pc |-> IF kind = "explain" THEN "hash" ELSE "load", kind |-> kind, key |-> key, seat |-> seat,
   todo |-> Files, seen |-> NoLedger, at |-> now, hashed |-> NoLedger, edits |-> edits]
First(S) == CHOOSE f \in S : TRUE

-----------------------------------------------------------------------------
(* Seats.                                                                  *)

Bind(s, seat) ==
  /\ frame[s].pc = "idle"
  /\ frame' = [frame EXCEPT ![s] = [pc |-> "bind", seat |-> seat]]
  /\ lock' = [lock EXCEPT ![s] = "torn"]
  /\ UNCHANGED <<store, log>>
WriteSeat(s) ==
  /\ frame[s].pc = "bind"
  /\ frame' = [frame EXCEPT ![s] = Idle]
  /\ lock' = [lock EXCEPT ![s] = frame[s].seat]
  /\ UNCHANGED <<store, log>>

SeatOf(s) == IF lock[s] \in Seats THEN lock[s] ELSE Nobody

-----------------------------------------------------------------------------
(* A receipt is one line, or as many as the message of a file that does    *)
(* not parse has; the first of them bears the counts.                      *)

Receipt(s, seat, day, count) == [session |-> s, seat |-> seat, day |-> day, count |-> count]
Rest == [rest |-> TRUE]
Told(files) == IF \E f \in DOMAIN files : files[f].text = "broken" THEN <<Rest>> ELSE <<>>

Stop(s) ==
  /\ frame[s].pc = "idle" /\ Len(log) < MaxStops
  /\ IF SeatOf(s) = Nobody
     THEN /\ log' = Append(log, Receipt(s, Unresolved, now, NotMeasured))
          /\ UNCHANGED frame
     ELSE /\ frame' = [frame EXCEPT ![s] = Begun("stop", Gate, SeatOf(s))]
          /\ UNCHANGED log
  /\ UNCHANGED <<lock, store>>

\* A session without a seat is let go, and records nothing.
Check(s) ==
  /\ frame[s].pc = "idle" /\ SeatOf(s) # Nobody
  /\ frame' = [frame EXCEPT ![s] = Begun("check", Gate, SeatOf(s))]
  /\ UNCHANGED <<lock, store, log>>
Explain(s, key) ==
  /\ frame[s].pc = "idle" /\ SeatOf(s) # Nobody /\ Cardinality(store) < MaxExplains
  /\ frame' = [frame EXCEPT ![s] = Begun("explain", key, SeatOf(s))]
  /\ UNCHANGED <<lock, store, log>>

-----------------------------------------------------------------------------
(* load_plans(), then the projection at a time drawn after it.             *)

Load(s) ==
  /\ frame[s].pc = "load"
  /\ IF frame[s].todo # {}
     THEN LET f == First(frame[s].todo) IN
          frame' = [frame EXCEPT ![s].todo = @ \ {f},
                                 ![s].seen = [g \in DOMAIN @ \cup {f} |->
                                                IF g = f THEN ledger[f] ELSE @[g]]]
     ELSE frame' = [frame EXCEPT ![s].pc = "listed", ![s].at = now, ![s].todo = Files]
  /\ UNCHANGED <<lock, store, log>>

Listed(fr) == Runnable(fr.seen, fr.seat, fr.at)

\* The receipt's stamp is drawn before the files are read: its day is left open.
Record(s) ==
  /\ frame[s].pc = "listed" /\ frame[s].kind = "stop"
  /\ \E day \in 0 .. frame[s].at :
       log' = log \o <<Receipt(s, frame[s].seat, day, Cardinality(Listed(frame[s])))>>
                  \o Told(frame[s].seen)
  /\ frame' = [frame EXCEPT ![s] = Idle]
  /\ UNCHANGED <<lock, store>>

\* Mutant: what was hashed before the file that cannot be read.
SoFar(fr) == fr.hashed
Sha(fr) == IF fr.todo = {} THEN fr.hashed ELSE NoLedger

\* ledger_sha(): a file that cannot be read ends it.
Hash(s) ==
  /\ \/ frame[s].pc = "hash"
     \/ frame[s].pc = "listed" /\ frame[s].kind = "check"
  /\ LET f == First(frame[s].todo)
         sha == [g \in DOMAIN frame[s].hashed \cup {f} |->
                   IF g = f THEN ledger[f] ELSE frame[s].hashed[g]] IN
     IF frame[s].todo # {} /\ ledger[f].text # "unreadable"
     THEN frame' = [frame EXCEPT ![s].todo = @ \ {f}, ![s].hashed = sha, ![s].pc = "hash"]
     ELSE frame' = [frame EXCEPT ![s].pc = "sha",
                                 ![s].hashed = Sha(frame[s])]
  /\ UNCHANGED <<lock, store, log>>

\* The append of --explain.
Keep(s) ==
  /\ frame[s].pc = "sha" /\ frame[s].kind = "explain"
  /\ store' = store \cup {<<frame[s].seat, frame[s].hashed, frame[s].key>>}
  /\ frame' = [frame EXCEPT ![s] = Idle]
  /\ UNCHANGED <<lock, log>>

\* Mutant: no ledger, no staleness.
AnyIfNone(sha, cur) == cur = NoLedger \/ sha = cur
Counts(sha, cur) == sha = cur
Known(fr) == {k \in Keys : \E e \in store : e[1] = fr.seat /\ e[3] = k /\ Counts(e[2], fr.hashed)}
OwedTo(fr) == (Listed(fr) \cup LoadErrors(fr.seen)) \ Known(fr)

\* read_explanations(), and the verdict; a store that cannot be read refuses nothing.
Verdict(s) ==
  /\ frame[s].pc = "sha" /\ frame[s].kind = "check"
  /\ \E readable \in BOOLEAN :
       frame' = [frame EXCEPT ![s].pc = IF ~readable THEN "note"
                                        ELSE IF OwedTo(frame[s]) = {} THEN "clear" ELSE "refused"]
  /\ UNCHANGED <<lock, store, log>>
Return(s) ==
  /\ frame[s].pc \in {"note", "clear", "refused"}
  /\ frame' = [frame EXCEPT ![s] = Idle]
  /\ UNCHANGED <<lock, store, log>>

GateInit ==
  /\ lock \in [Sessions -> Seats \cup {Nobody}] /\ frame = [s \in Sessions |-> Idle]
  /\ store = {} /\ log = <<>>
StopStep(s) ==
  \/ \E seat \in Seats : Bind(s, seat)
  \/ WriteSeat(s) \/ Stop(s) \/ Load(s) \/ Record(s)
CheckStep(s, keys) ==
  \/ \E key \in keys : Explain(s, key)
  \/ Check(s) \/ Load(s) \/ Hash(s) \/ Keep(s) \/ Verdict(s) \/ Return(s)
Init == LedgerInit /\ GateInit
Next == \/ LedgerNext /\ UNCHANGED gateVars
        \/ \E s \in Sessions : (StopStep(s) \/ CheckStep(s, Keys)) /\ UNCHANGED ledgerVars
Spec == Init /\ [][Next]_<<ledgerVars, gateVars>>

-----------------------------------------------------------------------------
(* stop_ledger_rollup.py: the row of a seat-day, and its cell.             *)

\* The stops of the day, by their place in the log.
Rows(day, seat) ==
  {i \in DOMAIN log : "rest" \notin DOMAIN log[i] /\ log[i].seat = seat /\ log[i].day = day}
Measured(rows) == {i \in rows : log[i].count # NotMeasured}
WithWork(rows) == {i \in Measured(rows) : log[i].count # 0}
\* Mutant: what was not measured counts as a zero.
CellOfAll(rows) == Cardinality(WithWork(rows))
Cell(rows) == IF Measured(rows) = {} THEN NotMeasured ELSE Cardinality(WithWork(rows))

-----------------------------------------------------------------------------
(* Properties.                                                             *)

GateOK ==
  /\ lock \in [Sessions -> Seats \cup {Nobody, "torn"}]
  /\ \A e \in store : e[1] \in Seats /\ e[3] \in Keys
       /\ (e[2] = NoLedger \/ (DOMAIN e[2] = Files /\ \A f \in Files : e[2][f] \in File))
  /\ \A s \in Sessions : frame[s].pc \in
       {"idle", "bind", "load", "listed", "hash", "sha", "note", "clear", "refused"}

\* What a checkpoint is let go over is explained for the ledger as it stands: if no
\* file was edited while the check ran, each step its seat can run and each file that
\* does not load has an explanation recorded against this very ledger, or, if that
\* cannot be read, against none.
Explained(seat, key) == <<seat, ShaOf(ledger), key>> \in store
ClearIsCurrent ==
  \A s \in Sessions :
    frame[s].pc = "clear" /\ frame[s].edits = edits =>
      \A key \in Runnable(ledger, frame[s].seat, frame[s].at) \cup LoadErrors(ledger) :
        Explained(frame[s].seat, key)

\* A zero in a seat's cell is a measurement: it stopped that day with a ledger read
\* that held nothing for it.  A day of unresolved stops only has no zero.
NoFalseZero ==
  \A seat \in Seats \cup {Unresolved}, day \in 0 .. MaxNow :
    LET rows == Rows(day, seat) IN
    rows # {} /\ Cell(rows) = 0 => \E i \in rows : log[i].count = 0
=============================================================================
