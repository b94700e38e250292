---------------------------- MODULE CustodyLease ----------------------------
(***************************************************************************)
(* tools/custody/custody_lease.py: is another seat live in this tree?      *)
(*                                                                         *)
(* Every session touches its own lease while it works; a census reads the  *)
(* clock, lists the directory and then reads the leases one after another, *)
(* the age and the tree of each in two readings, while the sessions go on  *)
(* touching theirs.  A touch draws its stamp, truncates, and writes.       *)
(***************************************************************************)
EXTENDS CustodyParameters

VARIABLES
  clock,
  lease,         \* lease[s]: the lease file of s
  home,          \* home[s]: the tree s types in
  old,           \* the sessions whose emitter records no tree
  drawn,         \* drawn[s]: the stamp of the touch s is in, or None
  up,            \* the sessions that are running
  probe          \* the frame of the census

leaseVars == <<clock, lease, home, old, drawn, up, probe>>
sessions == <<lease, home, old, drawn, up>>

Idle == [pc |-> "idle", now |-> 0, todo |-> {}, at |-> None, found |-> {}, due |-> {}]

Init == /\ clock = 0
        /\ lease = [s \in Sessions |-> Absent]
        /\ home \in [Sessions -> Trees]
        /\ old \in SUBSET Sessions
        /\ drawn = [s \in Sessions |-> None]
        /\ up = Sessions
        /\ probe = Idle

-----------------------------------------------------------------------------
(* touch().                                                                *)

Draw(s) ==
  /\ s \in up /\ drawn[s] = None
  /\ drawn' = [drawn EXCEPT ![s] = clock]
  /\ UNCHANGED <<clock, lease, home, old, up, probe>>

Truncate(s) ==
  /\ s \in up /\ drawn[s] # None /\ lease[s].state # "empty"
  /\ lease' = [lease EXCEPT ![s] = Empty]
  /\ UNCHANGED <<clock, home, old, drawn, up, probe>>

Write(s) ==
  /\ s \in up /\ drawn[s] # None /\ lease[s].state = "empty"
  /\ lease' = [lease EXCEPT ![s] = Written(drawn[s], IF s \in old THEN None ELSE home[s])]
  /\ drawn' = [drawn EXCEPT ![s] = None]
  /\ UNCHANGED <<clock, home, old, up, probe>>

\* A session ends, or is killed wherever it is; its lease stays, or is removed.
Stop(s) ==
  /\ s \in up /\ s # Self
  /\ up' = up \ {s}
  /\ lease' \in {lease, [lease EXCEPT ![s] = Absent]}
  /\ UNCHANGED <<clock, home, old, drawn, probe>>

Tick == /\ clock < MaxClock /\ clock' = clock + 1
        /\ UNCHANGED <<sessions, probe>>

-----------------------------------------------------------------------------
(* live_peers() and self_lease_fresh().                                    *)

\* s is live: the stamp it wrote, or has emptied its file to write, is within the TTL.
Live(s, now) == CASE lease[s].state = "absent"  -> FALSE
                  [] lease[s].state = "empty"   -> drawn[s] # None /\ now - drawn[s] <= Ttl
                  [] lease[s].state = "written" -> now - lease[s].stamp <= Ttl

\* `now` is read before the directory is listed.
Ask(q) ==
  /\ probe.pc = "idle"
  /\ probe' = [Idle EXCEPT !.pc = q, !.now = clock]
  /\ UNCHANGED <<clock, sessions>>

\* os.listdir().  The census skips Self, self_lease_fresh() everyone else; `due`
\* remembers who is live as the directory is listed (history).
List ==
  /\ probe.pc \in {"peers", "self"}
  /\ LET listed == {s \in Sessions : /\ lease[s].state # "absent"
                                      /\ (s = Self) = (probe.pc = "self")}
     IN probe' = [probe EXCEPT
          !.pc = IF probe.pc = "peers" THEN "reading" ELSE "reading-self",
          !.todo = listed,
          !.due = {s \in listed : Live(s, probe.now) /\ home[s] = Here}]
  /\ UNCHANGED <<clock, sessions>>

Expired(s) == AgeOf(lease[s], probe.now) > Ttl

\* One lease: its age, and, where that is fresh, its tree.
ReadAge(s) ==
  /\ probe.pc \in {"reading", "reading-self"} /\ probe.at = None
  /\ s \in probe.todo
  /\ LET r == Reading(lease[s], probe.now) IN
     probe' = IF r = "raised" THEN [Idle EXCEPT !.pc = "raised"]
              ELSE IF r = "absent" \/ Expired(s)
                   THEN [probe EXCEPT !.todo = @ \ {s}]
                   ELSE [probe EXCEPT !.at = s, !.todo = @ \ {s}]
  /\ UNCHANGED <<clock, sessions>>

\* The unknown tree counts as a peer.
Counts(t) == t \in {None, Here}
ReadTree ==
  /\ probe.at # None
  /\ probe' = [probe EXCEPT !.at = None,
                 !.found = IF probe.pc = "reading-self" \/ Counts(TreeOf(lease[probe.at]))
                           THEN @ \cup {probe.at} ELSE @]
  /\ UNCHANGED <<clock, sessions>>

\* Self's lease settles its question alone; a census reads them all.
Answer ==
  /\ probe.pc \in {"reading", "reading-self"} /\ probe.at = None /\ probe.todo = {}
  /\ probe' = [probe EXCEPT !.pc = IF @ = "reading" THEN "answered" ELSE "answered-self"]
  /\ UNCHANGED <<clock, sessions>>

Forget == /\ probe.pc \in {"answered", "answered-self", "raised"}
          /\ probe' = Idle
          /\ UNCHANGED <<clock, sessions>>

Next == \/ \E s \in Sessions : Draw(s) \/ Truncate(s) \/ Write(s) \/ Stop(s) \/ ReadAge(s)
        \/ \E q \in {"peers", "self"} : Ask(q)
        \/ List \/ ReadTree \/ Answer \/ Forget \/ Tick

Spec == Init /\ [][Next]_leaseVars

-----------------------------------------------------------------------------
(* Properties.                                                             *)

TypeOK ==
  /\ clock \in 0 .. MaxClock
  /\ lease \in [Sessions -> File] /\ drawn \in [Sessions -> {None} \cup 0 .. clock]
  /\ \A s \in Sessions : lease[s].stamp <= clock
  /\ home \in [Sessions -> Trees] /\ old \subseteq Sessions /\ up \subseteq Sessions
  /\ probe \in [pc : {"idle", "peers", "self", "reading", "reading-self",
                     "answered", "answered-self", "raised"},
               now : 0 .. clock, todo : SUBSET Sessions, at : Sessions \cup {None},
               found : SUBSET Sessions, due : SUBSET Sessions]

\* An answer names every session that was live in this tree when the directory
\* was listed and is still running, however the sessions touched their leases
\* between the readings: it is never short by a reading that failed, by a touch
\* it caught half-way, or by a lease that records no tree.
NoLivePeerMissed ==
  probe.pc \in {"answered", "answered-self"} => probe.due \cap up \subseteq probe.found
=============================================================================
