----------------------------- MODULE WedgeSweep -----------------------------
(***************************************************************************)
(* tools/custody/wedge_sweep.py: which seats are stalled, on which hooks,  *)
(* and which of those processes may be killed; and which working seats     *)
(* have a custody lease that went dark.                                    *)
(*                                                                         *)
(* The sweep reads the clock once and then, one after another, transcripts *)
(* and leases, a snapshot of the processes, for each suspect whether its   *)
(* parent lives, and kills by pid, while the sessions write, touch their   *)
(* leases, and processes start, run, end and leave their pids to others.   *)
(***************************************************************************)
EXTENDS CustodyParameters, Sequences, FiniteSets

VARIABLES
  clock,
  script,        \* script[s]: the records of s's transcript, in file order
  plugin,        \* the sessions whose records say entrypoint sdk-py
  beacon,        \* beacon[s]: the lease of s
  table,         \* table[p]: the process that has pid p, or None
  spawns,        \* processes started so far (bounded); numbers them
  sweep          \* the frame of main()

sweepVars == <<clock, script, plugin, beacon, table, spawns, sweep>>

Record == [kind : {"use", "result", "arrival"}, id : Nat, ts : Nat]
Process == [name : Nat, born : Nat, hook : BOOLEAN, orphan : BOOLEAN, ran : BOOLEAN]
NoSweep == [pc |-> "idle", now |-> 0, todo |-> {}, stalls |-> {}, rows |-> << >>,
            dark |-> {}, snap |-> {}, cands |-> {}, doomed |-> {},
            killed |-> {}, failed |-> {}]

Init == /\ clock = 0
        /\ script = [s \in Seats |-> << >>]
        /\ plugin \in SUBSET Seats
        /\ beacon = [s \in Seats |-> Absent]
        /\ table = [p \in Pids |-> None]
        /\ spawns = 0
        /\ sweep = NoSweep

-----------------------------------------------------------------------------
(* The fleet: sessions, leases, processes.                                 *)

Calls(recs) == {recs[k].id : k \in {j \in DOMAIN recs : recs[j].kind = "use"}}
Answered(recs) == {recs[k].id : k \in {j \in DOMAIN recs : recs[j].kind = "result"}}

Says(s, kind, id) ==
  /\ Len(script[s]) < MaxRecords
  /\ script' = [script EXCEPT ![s] = Append(@, [kind |-> kind, id |-> id, ts |-> clock])]
  /\ UNCHANGED <<clock, plugin, beacon, table, spawns, sweep>>

Issue(s) == Says(s, "use", Cardinality(Calls(script[s])) + 1)
Result(s) == \E id \in Calls(script[s]) \ Answered(script[s]) : Says(s, "result", id)
\* A queue-operation record: it answers nothing.
Arrival(s) == Says(s, "arrival", 0)

\* The emitter's touch (CustodyLease has its parts).
Touch(s) == /\ beacon' = [beacon EXCEPT ![s] = Written(clock, None)]
            /\ UNCHANGED <<clock, script, plugin, table, spawns, sweep>>

Spawn(p, hook) ==
  /\ table[p] = None /\ spawns < MaxSpawns
  /\ spawns' = spawns + 1
  /\ table' = [table EXCEPT ![p] = [name |-> spawns', born |-> clock, hook |-> hook,
                                    orphan |-> FALSE, ran |-> FALSE]]
  /\ UNCHANGED <<clock, script, plugin, beacon, sweep>>
Run(p) == /\ table[p] # None /\ ~table[p].ran
          /\ table' = [table EXCEPT ![p].ran = TRUE]
          /\ UNCHANGED <<clock, script, plugin, beacon, spawns, sweep>>
ParentDies(p) == /\ table[p] # None /\ ~table[p].orphan
                 /\ table' = [table EXCEPT ![p].orphan = TRUE]
                 /\ UNCHANGED <<clock, script, plugin, beacon, spawns, sweep>>
End(p) == /\ table[p] # None
          /\ table' = [table EXCEPT ![p] = None]
          /\ UNCHANGED <<clock, script, plugin, beacon, spawns, sweep>>

Tick == /\ clock < MaxTime /\ clock' = clock + 1
        /\ UNCHANGED <<script, plugin, beacon, table, spawns, sweep>>

-----------------------------------------------------------------------------
(* What a transcript says.                                                 *)

\* _tail_records(): the last whole records the window holds.
TailRecords(recs) == SubSeq(recs, IF Len(recs) > Window THEN Len(recs) - Window + 1 ELSE 1, Len(recs))

\* unanswered_tool_uses(), by id.
\* Mutant: the last record is a call.
LastIsCall(recs) == IF recs # << >> /\ recs[Len(recs)].kind = "use"
                    THEN {Len(recs)} ELSE {}
\* Mutant: the answer to one call is taken for the answer to none.
NoneAnswered(recs) == {k \in DOMAIN recs : recs[k].kind = "use"}
Unanswered(recs) == {k \in DOMAIN recs : /\ recs[k].kind = "use"
                                         /\ recs[k].id \notin Answered(recs)}

\* agency_age(): since when the oldest unanswered call waits, or None.
Since(recs) == LET issued == {recs[k].ts : k \in Unanswered(recs)}
               IN IF issued = {} THEN None ELSE CHOOSE t \in issued : \A u \in issued : t <= u

-----------------------------------------------------------------------------
(* main().                                                                 *)

Go(pc, todo) == [sweep EXCEPT !.pc = pc, !.todo = todo]
fleet == <<clock, script, plugin, beacon, table, spawns>>

Begin == /\ sweep.pc = "idle"
         /\ sweep' = [NoSweep EXCEPT !.pc = "stalls", !.now = clock, !.todo = Seats]
         /\ UNCHANGED fleet

\* stalled_sessions(), and main()'s split: an abandoned transcript and a plugin's
\* review leg are counted and are no stalls.
\* Mutant: a plugin's review leg alarms as a seat.
AnyStall(s, since) ==
  since # None /\ sweep.now - since >= StallAfter /\ sweep.now - since <= AbandonAfter
Stall(s, since) ==
  /\ since # None
  /\ sweep.now - since >= StallAfter /\ sweep.now - since <= AbandonAfter
  /\ s \notin plugin
ReadTranscript(s) ==
  /\ sweep.pc = "stalls" /\ s \in sweep.todo
  /\ LET since == Since(TailRecords(script[s])) IN
     sweep' = [sweep EXCEPT !.todo = @ \ {s},
                 !.stalls = IF Stall(s, since) THEN @ \cup {[seat |-> s, since |-> since]} ELSE @]
  /\ UNCHANGED fleet

\* read_leases(): the leases whose age reads, and is within the TTL.
Fresh(s) == Reading(beacon[s], sweep.now) = "read" /\ AgeOf(beacon[s], sweep.now) <= LeaseTtl
ReadLeases ==
  /\ sweep.pc = "stalls" /\ sweep.todo = {}
  /\ sweep' = [Go("dark", Seats) EXCEPT !.rows = [s \in Seats |-> Fresh(s)]]
  /\ UNCHANGED fleet

\* emitter_dark_sweep(), grade_agency(): the seat works and its lease is not fresh.
GradeAgency(s) ==
  /\ sweep.pc = "dark" /\ s \in sweep.todo
  /\ LET since == Since(TailRecords(script[s]))
         dark == since # None /\ ~sweep.rows[s] /\ sweep.now - since <= StallAfter
     IN sweep' = [sweep EXCEPT !.todo = @ \ {s}, !.dark = IF dark THEN @ \cup {s} ELSE @]
  /\ UNCHANGED fleet

\* hook_processes(): a query that fails finds nothing, and a row that lacks the
\* thread count or the CPU time is UNMEASURED.
Signatures(q) == {"UNMEASURED", IF q.ran THEN "RAN" ELSE "NEVER-RAN"}
Hooks == {p \in Pids : table[p] # None /\ table[p].hook}
Snapshot ==
  /\ sweep.pc = "dark" /\ sweep.todo = {}
  /\ \E sig \in [Hooks -> {"UNMEASURED", "RAN", "NEVER-RAN"}], seen \in {Hooks, {}} :
       /\ \A p \in Hooks : sig[p] \in Signatures(table[p])
       /\ sweep' = [Go("joining", {}) EXCEPT
            !.snap = {[pid |-> p, name |-> table[p].name, born |-> table[p].born,
                       sig |-> sig[p]] : p \in seen}]
  /\ UNCHANGED fleet

\* join(): the window is symmetric.
\* Mutant: no window.
AnyTime(c, st) == TRUE
InWindow(c, st) == c.born - st.since \in -Halfwidth .. Halfwidth
Join(st) ==
  /\ sweep.pc = "joining" /\ st \in sweep.stalls
  /\ sweep' = [sweep EXCEPT !.pc = "parents", !.stalls = @ \ {st},
                            !.cands = {c \in sweep.snap : InWindow(c, st)}]
  /\ UNCHANGED fleet

\* _alive(ppid): an unknown answer, or a parent whose pid was given away, is alive.
Actionable(c, gone) == gone /\ c.sig = "NEVER-RAN"
AskParent(c) ==
  /\ sweep.pc = "parents" /\ c \in sweep.cands
  /\ \E gone \in {FALSE, table[c.pid] = None \/ table[c.pid].name # c.name
                                              \/ table[c.pid].orphan} :
       sweep' = [sweep EXCEPT !.cands = @ \ {c},
                              !.doomed = IF Actionable(c, gone) THEN @ \cup {c} ELSE @]
  /\ UNCHANGED fleet
Judged == /\ sweep.pc = "parents" /\ sweep.cands = {}
          /\ sweep' = Go("killing", {})
          /\ UNCHANGED fleet

\* taskkill /PID, by whichever process has the pid now.
Kill(c) ==
  /\ sweep.pc = "killing" /\ c \in sweep.doomed
  /\ LET victim == table[c.pid]
         kept == [sweep EXCEPT !.doomed = @ \ {c}]
     IN IF victim = None
        THEN /\ sweep' = [kept EXCEPT !.failed = @ \cup {c.pid}]
             /\ UNCHANGED table
        ELSE \/ /\ sweep' = [kept EXCEPT !.killed = @ \cup
                     {[meant |-> c, name |-> victim.name, age |-> clock - victim.born]}]
                /\ table' = [table EXCEPT ![c.pid] = None]
             \/ /\ sweep' = [kept EXCEPT !.failed = @ \cup {c.pid}]  \* access denied
                /\ UNCHANGED table
  /\ UNCHANGED <<clock, script, plugin, beacon, spawns>>

NextStall == /\ sweep.pc = "killing" /\ sweep.doomed = {}
             /\ sweep' = Go("joining", {})
             /\ UNCHANGED fleet

Report == /\ sweep.pc = "joining" /\ sweep.stalls = {}
          /\ sweep' = Go("done", {})
          /\ UNCHANGED fleet

Next == \/ \E s \in Seats : \/ Issue(s) \/ Result(s) \/ Arrival(s) \/ Touch(s)
                            \/ ReadTranscript(s) \/ GradeAgency(s)
        \/ \E p \in Pids : \/ Run(p) \/ ParentDies(p) \/ End(p)
                           \/ \E hook \in BOOLEAN : Spawn(p, hook)
        \/ \E st \in sweep.stalls : Join(st)
        \/ \E c \in sweep.cands : AskParent(c)
        \/ \E c \in sweep.doomed : Kill(c)
        \/ Begin \/ ReadLeases \/ Snapshot \/ Judged \/ NextStall \/ Report \/ Tick

Spec == Init /\ [][Next]_sweepVars

-----------------------------------------------------------------------------
(* Properties.                                                             *)

Suspect == [pid : Pids, name : Nat, born : Nat, sig : {"UNMEASURED", "RAN", "NEVER-RAN"}]
TypeOK ==
  /\ clock \in 0 .. MaxTime /\ spawns \in 0 .. MaxSpawns /\ plugin \subseteq Seats
  /\ \A s \in Seats : /\ \A k \in DOMAIN script[s] : script[s][k] \in Record
                      /\ beacon[s] \in File
  /\ \A p \in Pids : table[p] \in {None} \cup Process
  /\ sweep.now \in 0 .. clock
  /\ sweep.todo \cup sweep.dark \subseteq Seats
  /\ sweep.stalls \subseteq [seat : Seats \ plugin, since : 0 .. clock]
  /\ sweep.snap \cup sweep.cands \cup sweep.doomed \subseteq Suspect
  /\ \A v \in sweep.killed : v.meant \in Suspect
  /\ sweep.failed \subseteq Pids

\* The call at k of s's transcript is never answered by the transcript.
Waits(s, k) == /\ script[s][k].kind = "use"
               /\ ~\E j \in DOMAIN script[s] : /\ script[s][j].kind = "result"
                                               /\ script[s][j].id = script[s][k].id

\* The tail can understate a stall, it cannot invent one: a reported seat has a
\* call that the whole transcript leaves unanswered, at least as old as reported.
NoInventedStall ==
  [][\A st \in sweep'.stalls \ sweep.stalls :
       \E k \in DOMAIN script[st.seat] :
          /\ Waits(st.seat, k)
          /\ script[st.seat][k].ts <= st.since
          /\ sweep.now - st.since >= StallAfter]_sweepVars

\* A seat whose call has waited for StallAfter is reported, whatever arrives at
\* its transcript after the call, while the window still holds the call.
NoStallHidden ==
  [][\A s \in Seats \ plugin :
       (/\ sweep.pc = "stalls" /\ s \in sweep.todo \ sweep'.todo
        /\ \E k \in DOMAIN script[s] :
              /\ Waits(s, k)
              /\ Len(script[s]) - k < Window
              /\ sweep.now - script[s][k].ts >= StallAfter
              /\ \A j \in DOMAIN script[s] :
                   Waits(s, j) => sweep.now - script[s][j].ts <= AbandonAfter)
       => \E st \in sweep'.stalls : st.seat = s]_sweepVars

\* A hook that was only just started has not run either: no process that the
\* sweep graded is killed before it is StallAfter - Halfwidth old.
NoYoungVictim ==
  \A v \in sweep.killed : v.name = v.meant.name => v.age >= StallAfter - Halfwidth

\* "Killing requires all three": a process that is killed is one that the sweep
\* joined to a stall and graded.
KillsWhatItGraded == \A v \in sweep.killed : v.name = v.meant.name
=============================================================================
