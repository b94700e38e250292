---------------------------- MODULE ProcessProbes ----------------------------
(***************************************************************************)
(* tools/orphan_census.py and tools/proc_alive.ps1: two readings of a      *)
(* process table whose pids are handed out again.  A census takes the      *)
(* table twice, a window apart, and reports the processes that are old,    *)
(* idle and without a parent; a probe says whether the process that was    *)
(* started with a pid is still the one that has it.  Processes start, work *)
(* and exit between any two readings.  Only watched programs are modelled, *)
(* and the two tools, which change nothing, are looked at one at a time.   *)
(***************************************************************************)
EXTENDS Naturals, FiniteSets, Sequences

CONSTANTS
  Pids,          \* process ids of the machine, which hands them out again
  MaxBirths,     \* bound on the processes ever started
  MaxTime,       \* bound on the clock
  OldAge,        \* --age-min
  Near           \* how far start times may be apart without being another's

VARIABLES
  tool,      \* which of the two reads the table
  clock,
  procs,     \* every process ever started, in the order they were
  census,    \* the census under way: its step, its own process, its samples
  report,    \* the processes it reported
  truth,     \* what was the case when it reported (history)
  leg, probe \* a process some launcher started, and what the last probe of it said

vars == <<tool, clock, procs, census, report, truth, leg, probe>>

-----------------------------------------------------------------------------
(* The table.                                                              *)

Started == DOMAIN procs
Alive == {x \in Started : procs[x].live}
Holding(pid) == {x \in Alive : procs[x].pid = pid}
Born(x) == procs[x].born

\* A process is started by a live one, or by none of the table.
Process(pid, parent) ==
  [pid |-> pid, ppid |-> IF parent = 0 THEN 0 ELSE procs[parent].pid, parent |-> parent,
   born |-> clock, live |-> TRUE, cpu |-> 0]
Start ==
  /\ Len(procs) < MaxBirths
  /\ \E pid \in Pids, parent \in IF Alive = {} THEN {0} ELSE Alive :
       /\ Holding(pid) = {}
       /\ procs' = Append(procs, Process(pid, parent))
       /\ \/ UNCHANGED leg
          \/ tool = "probe" /\ leg = [proc |-> 0, read |-> FALSE]
             /\ leg' \in [proc : {Len(procs) + 1}, read : BOOLEAN]
  /\ UNCHANGED <<tool, clock, census, report, truth, probe>>
Exit ==
  /\ \E x \in Alive \ {census.me} : procs' = [procs EXCEPT ![x].live = FALSE]
  /\ UNCHANGED <<tool, clock, census, report, truth, leg, probe>>
Work ==
  /\ census.step \in {"cpu0", "sleep", "cpu1"}
  /\ \E x \in Alive \ {census.me} : procs[x].cpu = 0 /\ procs' = [procs EXCEPT ![x].cpu = 1]
  /\ UNCHANGED <<tool, clock, census, report, truth, leg, probe>>
Tick ==
  /\ clock < MaxTime
  /\ clock' = clock + 1
  /\ UNCHANGED <<tool, procs, census, report, truth, leg, probe>>

-----------------------------------------------------------------------------
(* The census.  A row is a process as the table showed it, with a creation *)
(* stamp or without; its cpu is read after the table, by pid, and may be   *)
(* unreadable, or another's by then.  What counts of the cpu is the work   *)
(* since the census began.  The notes on what was skipped are left out.    *)

Unread == 99
Sample(blank) ==
  {[proc |-> x, pid |-> procs[x].pid, ppid |-> procs[x].ppid, stamped |-> x \notin blank] : x \in Alive}
\* The stamps classify() looks at: the candidates' in the first sample, and in the
\* second those of the holders of their parents' pids.
Blanks(looked) == {{}} \cup {{x} : x \in looked}
Cpu(pid) == IF Holding(pid) = {} THEN Unread ELSE procs[CHOOSE x \in Holding(pid) : TRUE].cpu
Readings(rows, denied) ==
  [pid \in {r.pid : r \in rows} |-> IF pid \in denied THEN Unread ELSE Cpu(pid)]

\* (1) The parent's pid is free, or held by one created after the child; a holder
\* whose stamp cannot be read counts as the parent.  Mutant: any holder does.
NoSuchPid(r, rows) == {s \in rows : s.pid = r.ppid} = {}
ParentGone(r, rows) == \A s \in rows : s.pid = r.ppid => s.stamped /\ s.proc > r.proc
\* (2) Both readings of its cpu are there, and differ by no more than --cpu-eps.
Idle(r, c0, c1) == c0[r.pid] # Unread /\ c1[r.pid] # Unread /\ ~(c1[r.pid] > c0[r.pid])
\* (3) Its age, from the stamp of the first sample to now.
Old(r) == clock - Born(r.proc) >= OldAge

\* main() leaves out its own process and the rows whose parent has its pid.
Excluded(rows) ==
  LET own == procs[census.me].pid IN {own} \cup {s.pid : s \in {q \in rows : q.ppid = own}}

\* classify(): a pid of the first sample that is in the second, with a stamp in the
\* first.  Mutant: whoever has the pid now.
OfTheSecond(rows0, rows1, c0, c1) ==
  {r.proc : r \in {q \in rows1 :
     /\ q.pid \notin Excluded(rows1)
     /\ \E s \in rows0 : s.pid = q.pid
     /\ q.stamped /\ Old(q) /\ ParentGone(q, rows1) /\ Idle(q, c0, c1)}}
Classify(rows0, rows1, c0, c1) ==
  {r.proc : r \in {q \in rows0 :
     /\ q.pid \notin Excluded(rows1)
     /\ \E s \in rows1 : s.pid = q.pid
     /\ q.stamped /\ Old(q) /\ ParentGone(q, rows1) /\ Idle(q, c0, c1)}}

Resting ==
  [step |-> "rest", me |-> 0, rows0 |-> {}, cpu0 |-> <<>>, rows1 |-> {}]

\* main(): the first sample holds its own process, or the instrument is broken...
Begin ==
  /\ tool = "census" /\ census.step = "rest"
  /\ \E x \in Alive : \E blank \in Blanks(Alive \ {x}) :
       census' = [census EXCEPT !.step = "cpu0", !.me = x, !.rows0 = Sample(blank)]
  /\ UNCHANGED <<tool, clock, procs, report, truth, leg, probe>>
FirstCpu ==
  /\ census.step = "cpu0"
  /\ \E denied \in {{}} \cup {{pid} : pid \in Pids} :
       census' = [census EXCEPT !.step = "sleep", !.cpu0 = Readings(census.rows0, denied)]
  /\ UNCHANGED <<tool, clock, procs, report, truth, leg, probe>>
Second ==
  /\ census.step = "sleep"
  /\ \E blank \in Blanks({x \in Alive : \E r \in census.rows0 : r.ppid = procs[x].pid}) :
       census' = [census EXCEPT !.step = "cpu1", !.rows1 = Sample(blank)]
  /\ UNCHANGED <<tool, clock, procs, report, truth, leg, probe>>
\* ...and what is reported is what the two samples show.
Report ==
  /\ census.step = "cpu1"
  /\ LET cpu1 == Readings(census.rows1, {})
         seen == {r.proc : r \in census.rows0} \cap Alive
         work(x) == procs[x].cpu - census.cpu0[procs[x].pid]
     IN   /\ report' = Classify(census.rows0, census.rows1, census.cpu0, cpu1)
          /\ truth' =
               [there |-> seen,
                orphans |-> {x \in seen :
                  /\ procs[x].parent \notin {r.proc : r \in census.rows1}
                  /\ clock - Born(x) >= OldAge
                  /\ census.cpu0[procs[x].pid] # Unread
                  /\ work(x) = 0},
                unknown |-> {x \in seen :
                  \/ \E r \in census.rows0 : r.proc = x /\ ~r.stamped
                  \/ \E s \in census.rows1 : s.pid = procs[x].ppid /\ ~s.stamped},
                succeeded |-> {x \in Started \ Alive : Holding(procs[x].pid) # {}},
                ours |-> {x \in seen : procs[x].ppid = procs[census.me].pid} \cup {census.me}]
  /\ census' = [Resting EXCEPT !.step = "done", !.me = census.me]
  /\ UNCHANGED <<tool, clock, procs, leg, probe>>

-----------------------------------------------------------------------------
(* The probe.                                                              *)

\* proc_alive.ps1: only a pid that is free, or a start too far from the one given,
\* says EXITED; only the same start says ALIVE.
Apart(x, y) == IF Born(x) < Born(y) THEN Born(y) - Born(x) ELSE Born(x) - Born(y)
Same(x, y) == x = y
Verdict(x) ==
  LET holder == CHOOSE y \in Holding(procs[x].pid) : TRUE
  IN CASE Holding(procs[x].pid) = {} -> "EXITED"
       [] Holding(procs[x].pid) # {} /\ ~leg.read -> "ALIVE-UNVERIFIED"
       [] Holding(procs[x].pid) # {} /\ leg.read ->
            IF Apart(x, holder) > Near THEN "EXITED"
              ELSE IF Same(x, holder) THEN "ALIVE" ELSE "ALIVE-UNVERIFIED"

\* A query that fails for any other reason, or a start that cannot be read.
Probe ==
  /\ leg.proc # 0
  /\ \E said \in {Verdict(leg.proc), "UNKNOWN"} :
       probe' = [said |-> said, live |-> procs[leg.proc].live]
  /\ UNCHANGED <<tool, clock, procs, census, report, truth, leg>>

\* One process has started another.
Init ==
  /\ tool \in {"census", "probe"}
  /\ clock = 0
  /\ LET one == CHOOSE pid \in Pids : TRUE
         other == CHOOSE pid \in Pids \ {one} : TRUE
     IN procs = << [pid |-> one, ppid |-> 0, parent |-> 0, born |-> 0, live |-> TRUE, cpu |-> 0],
                   [pid |-> other, ppid |-> one, parent |-> 1, born |-> 0, live |-> TRUE,
                    cpu |-> 0] >>
  /\ census = Resting /\ report = {}
  /\ truth = [there |-> {}, orphans |-> {}, unknown |-> {}, succeeded |-> {}, ours |-> {}]
  /\ leg = [proc |-> 0, read |-> FALSE]
  /\ probe = [said |-> "UNKNOWN", live |-> FALSE]

Census == Begin \/ FirstCpu \/ Second \/ Report
Next == census.step # "done" /\ (Start \/ Exit \/ Work \/ Tick \/ Census \/ Probe)

Spec == Init /\ [][Next]_vars

-----------------------------------------------------------------------------
(* Properties.                                                             *)

\* Every variable has its type.
TypeOK ==
  /\ tool \in {"census", "probe"} /\ clock \in 0..MaxTime /\ Len(procs) <= MaxBirths
  /\ \A x \in Started : procs[x].pid \in Pids /\ Cardinality(Holding(procs[x].pid)) <= 1
  /\ census.step \in {"rest", "cpu0", "sleep", "cpu1", "done"}
  /\ report \subseteq Started /\ leg.proc \in {0} \cup Started
  /\ probe.said \in {"ALIVE", "ALIVE-UNVERIFIED", "EXITED", "UNKNOWN"}

\* Of the processes that were there from the first sample to the last, and are not
\* left out as the census' own, exactly those that are old, idle and without their
\* parent are reported, whoever has been given the parent's pid; but none whose own
\* stamp, or that of the process which has its parent's pid, could not be read.  A
\* process that has gone is reported only if its pid has another holder.
CensusIsExact ==
  census.step = "done" =>
    /\ (report \cap truth.there) \ truth.ours = (truth.orphans \ truth.unknown) \ truth.ours
    /\ report \ truth.there \subseteq truth.succeeded

\* EXITED is never said of a process that runs, nor ALIVE of one that does not.
VerdictIsExact ==
  /\ probe.said = "EXITED" => ~probe.live
  /\ probe.said = "ALIVE" => probe.live

ProbesAreTrue == CensusIsExact /\ VerdictIsExact

\* orphan_census.py:27-32 says that a dead parent whose pid was handed out again is
\* classified as dead, where it would make an orphan silently drop from the census.
OrphansAreReported ==
  census.step = "done" => truth.orphans \ (report \cup truth.unknown) \subseteq {census.me}
==============================================================================
