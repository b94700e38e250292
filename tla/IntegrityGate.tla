---------------------------- MODULE IntegrityGate ----------------------------
(***************************************************************************)
(* The workflow that tools/new_project.py stamps into a workspace          *)
(* (INTEGRITY_WORKFLOW): every push is compared with the head it replaces. *)
(* A push brings one commit or two and its branch may be new.  Left out:   *)
(* merge commits, which diff-tree lists no path of, forced pushes, and a   *)
(* provenance map that does not parse, which is always red.                *)
(***************************************************************************)
EXTENDS Naturals, SequencesExt

CONSTANTS
  Lanes,         \* append-only files: one auth-log to a role, and
  Channel,       \* the channel's, one for all its files: the diff of one that is
                 \* renamed shows no line removed
  MaxLines,      \* bound on the lines of each
  MaxCount,      \* bound on the counter of CHANNEL_STATE.json
  MaxPushes      \* bound on the pushes

Logs == Lanes \ {Channel}      \* memory/<role>/auth-log.md, one to a role
Gone == 0                      \* no CHANNEL_STATE.json
\* The first line of a file begins with "--", as a rule does: the diff of its removal
\* looks like a diff's header, and is dropped with the headers.
Rules == {1}

\* .auth-provenance.json, as who may write whose log: a role, to the identity of a
\* role, or to none.  Without the file everyone may.
Open == Logs \X Logs
Maps == {may \in SUBSET Open : may = Open \/ \A p, q \in may : p[1] = q[1] => p = q}

\* A commit, as the workflow sees it: the lines of the files and the counter after
\* it, the map after it, the logs it touches, whether it touches anything outside their
\* role's subtree, and its author.
Commits ==
  [lines : [Lanes -> SUBSET (1 .. MaxLines)], state : Gone .. MaxCount,
   may : SUBSET Open, logs : SUBSET Logs, beyond : BOOLEAN, author : Logs]

VARIABLES
  push,          \* the head of the remote branch, and the commits made on it
  fresh,         \* the next line of every file
  pushes,
  all,           \* history: has every push been green, and compared with its head?
  ever,          \* history: the lines of the heads so far
  mixed, forged, \* history: is there a commit on the branch that mixes a role's log
                 \* with other paths, or that the map of the head before its push did
                 \* not let touch a log?
  rebound,       \* history: has a head had another map than the one before it?
  count,         \* history: the highest counter so far
  deleted        \* history: was CHANNEL_STATE.json ever deleted?

vars == <<push, fresh, pushes, all, ever, mixed, forged, rebound, count, deleted>>

None == [l \in Lanes |-> {}]
Root(may, author) ==
  [lines |-> None, state |-> Gone, may |-> may, logs |-> {}, beyond |-> FALSE, author |-> author]
Init ==
  /\ \E may \in Maps, author \in Logs : push = <<Root(may, author)>>
  /\ fresh = [l \in Lanes |-> 1] /\ pushes = 0 /\ all = TRUE
  /\ ever = None /\ mixed = FALSE /\ forged = FALSE /\ rebound = FALSE /\ count = Gone /\ deleted = FALSE

\* A commit after the head of the branch: a line is added to each file of `add`, and
\* `line` taken out of those of `drop`; the counter, the map and other paths may change.
After(add, drop, line, state, may, other, author) ==
  LET tip == Last(push) IN
    [lines |-> [l \in Lanes |-> (tip.lines[l] \ IF l \in drop THEN {line} ELSE {})
                                  \cup IF l \in add THEN {fresh[l]} ELSE {}],
     state |-> state, may |-> may, logs |-> (add \cup drop) \cap Logs, author |-> author,
     beyond |-> other \/ Channel \in add \cup drop \/ state # tip.state \/ may # tip.may]

CanCommit == Len(push) <= 2 /\ pushes < MaxPushes /\ all
branch == <<pushes, all, ever, mixed, forged, rebound, count, deleted>>

\* Someone commits: lines are added to one file or two, or one line is taken out
\* or rewritten, with other paths or without.
Commit ==
  /\ CanCommit
  /\ \E add, drop \in SUBSET Lanes, line \in 1 .. MaxLines :
       /\ add \cup drop # {} /\ Cardinality(add) <= 2 /\ \A l \in add : fresh[l] <= MaxLines
       /\ drop = {} => line = 1
       /\ drop # {} => Cardinality(drop) = 1 /\ add \subseteq drop
       /\ \A l \in drop : line \in Last(push).lines[l]
       /\ \E other \in BOOLEAN, author \in Logs :
            /\ (add \cup drop) \cap Logs = {} => ~other /\ author = Last(push).author
            /\ push' = Append(push, After(add, drop, line, Last(push).state, Last(push).may, other, author))
       /\ fresh' = [l \in Lanes |-> IF l \in add THEN fresh[l] + 1 ELSE fresh[l]]
  /\ UNCHANGED branch

\* Someone commits a new counter, or a new map, or deletes the file of either.
Configure ==
  /\ CanCommit
  /\ \E state \in Gone .. MaxCount, may \in Maps :
       /\ state = Last(push).state \/ may = Last(push).may
       /\ push' = Append(push, After({}, {}, 1, state, may, FALSE, Last(push).author))
  /\ UNCHANGED <<fresh, branch>>

-----------------------------------------------------------------------------
(* The steps of the workflow.                                              *)

\* auth-log append-only, channel append-only.
AppendOnly(base, tip) == \A l \in Lanes : base.lines[l] \ Rules \subseteq tip.lines[l]

Mixed(c) == Cardinality(c.logs) > 1 \/ c.beyond
\* auth-log provenance: every commit that touches a log, by the map that is checked
\* out, which is the pushed head's own.
Provenance(c, may) == ~Mixed(c) /\ \A r \in c.logs : <<r, c.author>> \in may
\* auth-provenance map sanity.
Unique(may) == may = Open \/ \A p, q \in may : p[2] = q[2] => p = q

\* CHANNEL_STATE monotonic: nothing to compare when either side has no file.
Monotonic(base, tip) == tip.state = Gone \/ base.state = Gone \/ tip.state >= base.state

\* BASE: the head that was pushed over, or HEAD~1 when that is not to be found.
\* Mutant: always HEAD~1.
Parent(known) == Len(push) - 1
Base(known) == IF known THEN 1 ELSE Len(push) - 1

Green(known) ==
  LET base == push[Base(known)] IN
    /\ AppendOnly(base, Last(push))
    /\ \A i \in Base(known) + 1 .. Len(push) : push[i].logs # {} => Provenance(push[i], Last(push).may)
    /\ Unique(Last(push).may)
    /\ Monotonic(base, Last(push))

\* A push, and the run of the workflow on it.
Push(known) ==
  LET new == {push[i] : i \in 2 .. Len(push)}
      tip == Last(push)
  IN
    /\ Len(push) > 1 /\ pushes' = pushes + 1 /\ push' = <<tip>>
    /\ all' = (Green(known) /\ (known \/ Len(push) = 2))
    /\ ever' = [l \in Lanes |-> ever[l] \cup tip.lines[l]]
    /\ mixed' = (mixed \/ \E c \in new : c.logs # {} /\ Mixed(c))
    /\ forged' = (forged \/ \E c \in new : \E r \in c.logs : <<r, c.author>> \notin push[1].may)
    /\ rebound' = (rebound \/ tip.may # push[1].may)
    /\ count' = IF tip.state > count THEN tip.state ELSE count
    /\ deleted' = (deleted \/ (push[1].state # Gone /\ tip.state = Gone))
    /\ UNCHANGED fresh

Next == Commit \/ Configure \/ \E known \in BOOLEAN : Push(known)
Spec == Init /\ [][Next]_vars

-----------------------------------------------------------------------------
(* Properties.                                                             *)

TypeOK ==
  /\ \A i \in DOMAIN push : push[i] \in Commits
  /\ Len(push) \in 1 .. 3 /\ fresh \in [Lanes -> 1 .. MaxLines + 1]
  /\ {all, mixed, forged, rebound, deleted} \subseteq BOOLEAN
  /\ ever \in [Lanes -> SUBSET (1 .. MaxLines)]
  /\ pushes \in 0 .. MaxPushes /\ count \in Gone .. MaxCount

\* "channel files only ever gain lines", "auth-log events must ride commits
\* confined to their own memory/<role>/ subtree": as long as every push was green
\* and was compared with the head it replaced, every line of every earlier head is
\* still there, but those that begin with "--"; no commit, however deep in its push,
\* mixed a role's log with anything else; none wrote a log that the map did not let
\* its author write, as long as no head changed the map (a push that rebinds a role,
\* or deletes the map, is judged by the map it brings); and the counter is the
\* highest it ever was, if its file was never deleted.
GreenKeepsLogs ==
  all =>
    /\ \A l \in Lanes : ever[l] \ Rules \subseteq push[1].lines[l]
    /\ ~mixed /\ (~rebound => ~forged)
    /\ ~deleted => push[1].state = count

\* "state is forward-only": as long as every push was green, the counter never
\* goes backward.  A push that deletes the file is green, and the next has nothing
\* to compare with.
CounterForwardOnly == all /\ push[1].state # Gone => push[1].state = count
=============================================================================
