------------------------------ MODULE GitSync ------------------------------
(***************************************************************************)
(* tools/git_sync.py: publish() and poll() of the git-sync transport.      *)
(*                                                                         *)
(* Every peer works in a clone of its own and the peers meet only at one   *)
(* remote branch.  A branch is a linear history, a sequence of commits, so *)
(* "commit i of h" names the whole prefix of h that ends there, as a git   *)
(* sha does.  publish() is a process: its git commands are steps of their  *)
(* own, between which the remote may move and the process may die.  What   *)
(* the caller does between calls (commit, verify and reserve, merge        *)
(* --ff-only, separate mixed commits) is external to the helper.           *)
(***************************************************************************)
EXTENDS Naturals, Sequences, FiniteSets

CONSTANTS
  Consumers,     \* peers that may reserve (consume) grants
  Granters,      \* peers that may revoke grants
  Grants,        \* the one-shot grants
  NoGrant,       \* the grant field of a commit that is not about a grant
  MaxAttempts,   \* max_attempts of publish()
  MaxCommits,    \* model bound: commits ever made
  Trespassers,   \* peers that may write a path they do not own
  Stacking       \* may a caller commit on top of an unresolved reservation?

Peers == Consumers \cup Granters

ASSUME GrantsAssumption == NoGrant \notin Grants
ASSUME BoundsAssumption == MaxAttempts \in Nat \ {0} /\ MaxCommits \in Nat

VARIABLES
  remote,        \* the remote branch
  head,          \* head[p]: the local branch of p's clone
  tracking,      \* tracking[p]: <remote>/<branch> as p last saw it
  pc,            \* pc[p]: the next git command of p's publish(), or "idle"
  mode,          \* mode[p]: the class p is publishing under, "none" outside publish()
  attempt,       \* attempt[p]: the loop variable of publish(), 0 outside it
  result,        \* result[p]: the action of p's last PublishResult, or "none"
  made,          \* every commit made so far (history)
  begun          \* begun[p]: p's branch and the remote's length when the running
                 \* publish() was called (history)

vars == <<remote, head, tracking, pc, mode, attempt, result, made, begun>>
publishVars == <<pc, mode, attempt, result, begun>>

Modes == {"append", "reservation"}
Actions == {"pushed", "reservation-dropped", "mixed-publish", "conflict",
            "lane-down", "transport-error", "rejected-no-contention"}
NotBegun == [head |-> << >>, len |-> 0]
Commit == [id : Nat, by : Peers, path : Peers,
           kind : {"append", "reserve", "revoke"}, grant : Grants \cup {NoGrant}]
History == Seq(Commit)

-----------------------------------------------------------------------------
(* Git's view of two branches.                                             *)

\* t contains commit i of h: the histories agree up to it.
Contains(t, h, i) == i <= Len(t) /\ \A j \in 1 .. i : h[j] = t[j]

Extends(h, t) == Contains(h, t, Len(t))

\* Length of the common history of h and t.
Fork(h, t) ==
  CHOOSE n \in 0 .. Len(h) :
    Contains(t, h, n) /\ (n = Len(h) \/ n = Len(t) \/ h[n + 1] # t[n + 1])

Ahead(p) == Len(head[p]) - Fork(head[p], tracking[p])        \* target..HEAD
RemoteAhead(p) == Len(tracking[p]) - Fork(head[p], tracking[p]) \* HEAD..target

Own(p) == SubSeq(head[p], Fork(head[p], tracking[p]) + 1, Len(head[p]))
Upstream(p) == SubSeq(tracking[p], Fork(head[p], tracking[p]) + 1, Len(tracking[p]))

\* h with its commit k left out.
Without(h, k) == [i \in 1 .. Len(h) - 1 |-> IF i < k THEN h[i] ELSE h[i + 1]]

Commits(h) == {h[i] : i \in DOMAIN h}
PendingReserve(p) == \E c \in Commits(Own(p)) : c.kind = "reserve"

\* HEAD..target is not empty: the remote moved, a lost race.
AnyReject(p) == TRUE          \* mutant of Contended: no Step 2
Contended(p) == RemoteAhead(p) > 0

NoClass(p) == FALSE           \* mutant of ReservationClass: one rule for all
ReservationClass(p) == mode[p] = "reservation"

Unguarded(p) == TRUE          \* mutant of DropAllowed: blind --hard
DropAllowed(p) == Ahead(p) = 1

\* What the branch becomes by git rebase target, and by git reset --hard target.
TakeTheirs(p) == tracking[p]  \* mutant of Rebased: own commits are skipped
Rebased(p) == tracking[p] \o Own(p)
Carried(p) == Rebased(p)      \* mutant of Dropped: the reservation moves on
Dropped(p) == tracking[p]

\* The remote takes fast-forwards only.
ForcePush(p) == TRUE          \* mutant of FastForward
FastForward(p) == Extends(head[p], remote)

\* Replaying appends cannot pass a file the other side appended to as well.
RebaseConflicts(p) ==
  \E c \in Commits(Own(p)), d \in Commits(Upstream(p)) : c.path = d.path

\* Grant g is still open in history h: neither consumed nor revoked.
Open(g, h) == \A c \in Commits(h) : c.kind \in {"reserve", "revoke"} => c.grant # g

-----------------------------------------------------------------------------
Init ==
  /\ remote = << >>
  /\ head = [p \in Peers |-> << >>]
  /\ tracking = [p \in Peers |-> << >>]
  /\ pc = [p \in Peers |-> "idle"]
  /\ mode = [p \in Peers |-> "none"]
  /\ attempt = [p \in Peers |-> 0]
  /\ result = [p \in Peers |-> "none"]
  /\ made = {}
  /\ begun = [p \in Peers |-> NotBegun]

(* The caller, between calls of the helper.                                *)

Record(p, kind, path, grant) ==
  LET c == [id |-> Cardinality(made), by |-> p, path |-> path,
            kind |-> kind, grant |-> grant]
  IN  /\ pc[p] = "idle"
      /\ Cardinality(made) < MaxCommits
      /\ head' = [head EXCEPT ![p] = Append(@, c)]
      /\ made' = made \cup {c}
      /\ UNCHANGED <<remote, tracking, publishVars>>

CommitAppend(p, path) ==
  /\ path = p \/ p \in Trespassers
  /\ Stacking \/ ~PendingReserve(p)
  /\ Record(p, "append", path, NoGrant)

CommitRevoke(p, g) ==
  /\ p \in Granters
  /\ Stacking \/ ~PendingReserve(p)
  /\ Record(p, "revoke", p, g)

\* A reservation is made on a checkout that holds everything the last fetch
\* brought and in which the grant verifies as open; one at a time.
Reserve(p, g) ==
  /\ p \in Consumers
  /\ Extends(head[p], tracking[p])
  /\ Open(g, head[p])
  /\ ~PendingReserve(p)
  /\ Record(p, "reserve", p, g)

\* git merge --ff-only of the tracking branch.
Integrate(p) ==
  /\ pc[p] = "idle"
  /\ RemoteAhead(p) > 0
  /\ Ahead(p) = 0
  /\ head' = [head EXCEPT ![p] = tracking[p]]
  /\ UNCHANGED <<remote, tracking, made, publishVars>>

\* "Separate the commits": a refused mixed publication loses its reservation,
\* to be verified and reserved again, and keeps the rest.
Separate(p) ==
  /\ pc[p] = "idle"
  /\ result[p] = "mixed-publish"
  /\ \E i \in Fork(head[p], tracking[p]) + 1 .. Len(head[p]) :
       /\ head[p][i].kind = "reserve"
       /\ head' = [head EXCEPT ![p] = Without(@, i)]
  /\ UNCHANGED <<remote, tracking, made, publishVars>>

-----------------------------------------------------------------------------
(* poll(): a successful fetch moves the tracking branch; a failed one      *)
(* changes nothing.                                                        *)
Poll(p) ==
  /\ pc[p] = "idle"
  /\ tracking[p] # remote
  /\ tracking' = [tracking EXCEPT ![p] = remote]
  /\ UNCHANGED <<remote, head, made, publishVars>>

(* publish().                                                              *)

\* The locals of the call go with it.
EndCall(p) ==
  /\ pc' = [pc EXCEPT ![p] = "idle"]
  /\ mode' = [mode EXCEPT ![p] = "none"]
  /\ attempt' = [attempt EXCEPT ![p] = 0]
  /\ begun' = [begun EXCEPT ![p] = NotBegun]
  /\ UNCHANGED made

Return(p, action) ==
  /\ result' = [result EXCEPT ![p] = action]
  /\ EndCall(p)

\* The caller has committed something, and publishes a reservation under no
\* class but its own.
PublishBegin(p, m) ==
  /\ pc[p] = "idle"
  /\ Ahead(p) > 0
  /\ (m = "reservation") <=> PendingReserve(p)
  /\ pc' = [pc EXCEPT ![p] = "push"]
  /\ mode' = [mode EXCEPT ![p] = m]
  /\ attempt' = [attempt EXCEPT ![p] = 1]
  /\ result' = [result EXCEPT ![p] = "none"]
  /\ begun' = [begun EXCEPT ![p] = [head |-> head[p], len |-> Len(remote)]]
  /\ UNCHANGED <<remote, head, tracking, made>>

\* The remote takes a fast-forward and says so.
PushAccepted(p) ==
  /\ pc[p] = "push"
  /\ FastForward(p)
  /\ remote' = head[p]
  /\ tracking' = [tracking EXCEPT ![p] = head[p]]
  /\ UNCHANGED head
  /\ Return(p, "pushed")

\* The remote takes it, but the connection drops before git learns of it.
PushAckLost(p) ==
  /\ pc[p] = "push"
  /\ FastForward(p)
  /\ remote' = head[p]
  /\ pc' = [pc EXCEPT ![p] = "fetch"]
  /\ UNCHANGED <<head, tracking, mode, attempt, result, made, begun>>

\* Nothing lands: not a fast-forward, a refusal of the server, no connection.
PushRejected(p) ==
  /\ pc[p] = "push"
  /\ pc' = [pc EXCEPT ![p] = "fetch"]
  /\ UNCHANGED <<remote, head, tracking, mode, attempt, result, made, begun>>

FetchOK(p) ==
  /\ pc[p] = "fetch"
  /\ tracking' = [tracking EXCEPT ![p] = remote]
  /\ pc' = [pc EXCEPT ![p] = "classify"]
  /\ UNCHANGED <<remote, head, mode, attempt, result, made, begun>>

FetchFailed(p) ==
  /\ pc[p] = "fetch"
  /\ Return(p, "transport-error")
  /\ UNCHANGED <<remote, head, tracking>>

\* rev-list fails: the count is -1.
CountFailed(p) ==
  /\ pc[p] = "classify"
  /\ Return(p, "transport-error")
  /\ UNCHANGED <<remote, head, tracking>>

RetryRefusal(p) ==            \* mutant of NoContention: push again
  /\ pc[p] = "classify"
  /\ ~Contended(p)
  /\ pc' = [pc EXCEPT ![p] = "push"]
  /\ UNCHANGED <<remote, head, tracking, mode, attempt, result, made, begun>>
NoContention(p) ==
  /\ pc[p] = "classify"
  /\ ~Contended(p)
  /\ Return(p, "rejected-no-contention")
  /\ UNCHANGED <<remote, head, tracking>>

\* The commits ahead are not one, or cannot be counted.
RefuseMixed(p) ==
  /\ pc[p] = "classify"
  /\ Contended(p)
  /\ ReservationClass(p)
  /\ Return(p, "mixed-publish")
  /\ UNCHANGED <<remote, head, tracking>>

\* git reset --hard target, which may fail: nobody looks at its return code.
DropReservation(p) ==
  /\ pc[p] = "classify"
  /\ Contended(p)
  /\ ReservationClass(p)
  /\ DropAllowed(p)
  /\ head' = [head EXCEPT ![p] = Dropped(p)] \/ UNCHANGED head
  /\ Return(p, "reservation-dropped")
  /\ UNCHANGED <<remote, tracking>>

\* The rebase fails, at a conflict or for any other reason, and is aborted.
RebaseConflict(p) ==
  /\ pc[p] = "classify"
  /\ Contended(p)
  /\ ~ReservationClass(p)
  /\ Return(p, "conflict")
  /\ UNCHANGED <<remote, head, tracking>>

\* A clean rebase goes round the loop, or out of it after the last attempt.
Rebase(p) ==
  /\ pc[p] = "classify"
  /\ Contended(p)
  /\ ~ReservationClass(p)
  /\ ~RebaseConflicts(p)
  /\ head' = [head EXCEPT ![p] = Rebased(p)]
  /\ UNCHANGED <<remote, tracking>>
  /\ \/ /\ attempt[p] < MaxAttempts
        /\ attempt' = [attempt EXCEPT ![p] = @ + 1]
        /\ pc' = [pc EXCEPT ![p] = "push"]
        /\ UNCHANGED <<mode, result, made, begun>>
     \/ /\ attempt[p] = MaxAttempts
        /\ Return(p, "lane-down")

\* The process dies between two git commands; the clone is as they left it.
Crash(p) ==
  /\ pc[p] # "idle"
  /\ EndCall(p)
  /\ UNCHANGED <<remote, head, tracking, result>>

Publish(p) ==
  \/ PushAccepted(p) \/ PushAckLost(p) \/ PushRejected(p)
  \/ FetchOK(p) \/ FetchFailed(p)
  \/ CountFailed(p) \/ NoContention(p) \/ RefuseMixed(p) \/ DropReservation(p)
  \/ RebaseConflict(p) \/ Rebase(p)

Caller(p) ==
  \/ \E path \in Peers : CommitAppend(p, path)
  \/ \E g \in Grants : CommitRevoke(p, g) \/ Reserve(p, g)
  \/ Integrate(p) \/ Separate(p) \/ Poll(p)
  \/ \E m \in Modes : PublishBegin(p, m)

Next == \E p \in Peers : Caller(p) \/ Publish(p) \/ Crash(p)

Spec == Init /\ [][Next]_vars

\* A running publish() executes its next git command, which returns.
FairSpec == Spec /\ \A p \in Peers : WF_vars(Publish(p))

-----------------------------------------------------------------------------
(* Properties.                                                             *)

\* Types, and what every clone knows of the remote was once true of it:
\* nobody force-pushes, so the remote extends every tracking branch.
TypeOK ==
  /\ remote \in History
  /\ head \in [Peers -> History]
  /\ tracking \in [Peers -> History]
  /\ \A p \in Peers : Extends(remote, tracking[p])
  /\ pc \in [Peers -> {"idle", "push", "fetch", "classify"}]
  /\ mode \in [Peers -> Modes \cup {"none"}]
  /\ attempt \in [Peers -> 0 .. MaxAttempts]
  /\ result \in [Peers -> Actions \cup {"none"}]
  /\ made \subseteq Commit
  /\ begun \in [Peers -> [head : History, len : Nat]]

\* In history h a reservation never follows another reservation or a
\* revocation of its grant.
Clean(h) ==
  \A i \in DOMAIN h : h[i].kind = "reserve" =>
    \A j \in 1 .. i - 1 :
      h[j].kind \in {"reserve", "revoke"} => h[j].grant # h[i].grant

\* The grant of a CONSUMED event on the shared branch was open when the event
\* landed, although every peer verifies it on a clone that may be stale
\* ("rebasing a CONSUMED on top of a peer's could double-spend the grant").
NoDoubleSpend == Clean(remote)

\* No rejection, rebase, reset, crash or separation of commits ever costs a
\* writer a commit that is not a reservation ("nothing lost").
AppendSurvives ==
  \A c \in made : c.kind # "reserve" => c \in Commits(head[c.by])

Returned(p, action) ==
  pc[p] # "idle" /\ pc'[p] = "idle" /\ result[p] = "none" /\ result'[p] = action

\* What a result says of a race is so.  "pushed": every commit the caller held
\* when it called is on the remote, through however many rebases; "lane-down" is
\* never reported of a quiet remote, which moved before each push but the first;
\* "reservation-dropped": the reservation that is gone did not land, though an
\* earlier push of it may have, unacknowledged.
ResultsAreTrue ==
  [][\A p \in Peers :
       /\ Returned(p, "pushed") => Commits(begun[p].head) \subseteq Commits(remote')
       /\ Returned(p, "lane-down") => Len(remote) - begun[p].len >= MaxAttempts - 1
       /\ Returned(p, "reservation-dropped") => Commits(head[p]) \cap Commits(remote) \subseteq Commits(head'[p])]_vars

\* The shared branch, read as a ledger, implements GrantLedger.
Ledger == INSTANCE GrantLedger WITH
  consumed <- {<<c.grant, c.by>> : c \in {d \in Commits(remote) : d.kind = "reserve"}},
  revoked  <- {c.grant : c \in {d \in Commits(remote) : d.kind = "revoke"}}
LedgerSpec == Ledger!Spec

\* Every publish() returns: the retry loop is bounded whatever the remote does.
PublishTerminates == \A p \in Peers : pc[p] # "idle" ~> pc[p] = "idle"

(* What a comment of git_sync.py says, and TLC refutes with Stacking.     *)

\* "silent loss is worse than a loud caller error": what the reset of a lost
\* reservation race discards is a reservation, and one that did not land.
DropsOnlyLostReservation ==
  [][\A p \in Peers : Returned(p, "reservation-dropped") =>
       \A c \in Commits(head[p]) \ Commits(head'[p]) : c.kind = "reserve" /\ c \notin Commits(remote)]_vars
=============================================================================
