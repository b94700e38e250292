----------------------------- MODULE TapLedger -----------------------------
(***************************************************************************)
(* tools/heartbeat/tapledger.py: a tap on a watcher that missed its canary *)
(* is held for one round and then delivered or dropped, by what the        *)
(* watcher's own log says.  The caller is the round of the heartbeat join: *)
(* it resolves what is held, delivers what resolve() returned, probes every *)
(* edge, and holds what was narrow.  All edges of a round may share one    *)
(* token, which is the number of the round here.                           *)
(***************************************************************************)
EXTENDS Naturals, FiniteSets

CONSTANTS
  Edges,         \* each with a seat and a watch, hence an observation log, of its own
  MaxRound,      \* bound on the rounds of the heartbeat join
  Troubles       \* subset of {"crash", "vanish", "recreate", "unreadable"}: what may go wrong

Keys == Edges \X (1 .. MaxRound)     \* of records: an edge and a token

VARIABLES
  record,        \* record[k]: "none", "torn" (truncated), "held", "fired", "closed"
  obs,           \* obs[e]: the tokens in the log of e's watcher
  log,           \* log[e]: "new" (never written), "there", "gone"
  round, pc,     \* the rounds that have probed, and the step of the round that runs
  todo, at,      \* resolve(): records left, and the one in hand with its new status
  fire,          \* resolve()'s first result
  tapped,        \* taps delivered to the friction ledger
  reported,      \* history: keys whose watcher wrote the token to its log, and
  taken          \*   those whose token went with a log that was taken away

vars == <<record, obs, log, round, pc, todo, at, fire, tapped, reported, taken>>
history == <<reported, taken>>
Nowhere == [key |-> <<>>, status |-> "none"]

Init == /\ record = [k \in Keys |-> "none"]
        /\ obs = [e \in Edges |-> {}]
        /\ log \in [Edges -> {"new", "there"}]     \* it may hold the tokens of earlier days
        /\ round = 0 /\ pc = "down" /\ todo = {} /\ at = Nowhere
        /\ fire = {} /\ tapped = {} /\ reported = {} /\ taken = {}

-----------------------------------------------------------------------------
(* The watchers and their logs.                                            *)

\* The watcher of e sees the canary of round t, in time, late or never.
Observe(e, t) ==
  /\ t \in 1 .. round /\ t \notin obs[e]
  /\ log[e] = "gone" => "recreate" \in Troubles
  /\ obs' = [obs EXCEPT ![e] = @ \cup {t}]
  /\ log' = [log EXCEPT ![e] = "there"]
  /\ reported' = reported \cup {<<e, t>>}
  /\ UNCHANGED <<record, round, pc, todo, at, fire, tapped, taken>>

\* The log is rotated, renamed or removed.
Vanish(e) ==
  /\ "vanish" \in Troubles /\ log[e] = "there"
  /\ log' = [log EXCEPT ![e] = "gone"] /\ obs' = [obs EXCEPT ![e] = {}]
  /\ taken' = taken \cup ({e} \X obs[e])
  /\ UNCHANGED <<record, round, pc, todo, at, fire, tapped, reported>>

-----------------------------------------------------------------------------
(* A round.                                                                *)

Begin ==
  /\ pc = "down" /\ round < MaxRound
  /\ pc' = "resolving"
  /\ todo' = {k \in Keys : record[k] # "none"}
  /\ UNCHANGED <<record, obs, log, round, at, fire, tapped, history>>

\* resolve() skips what is unreadable, resolved, or without a readable log.
\* Mutant: a log that does not exist has no token.
AbsentIsSilent(e) == TRUE
CanTell(e) == log[e] = "there"
\* Mutant: the key is the token alone.
AnyLog(k) == \E e \in Edges : k[2] \in obs[e]
Logged(k) == k[2] \in obs[k[1]]

Skip(k) ==
  /\ pc = "resolving" /\ at = Nowhere /\ k \in todo
  /\ record[k] # "held" \/ ~CanTell(k[1]) \/ "unreadable" \in Troubles
  /\ todo' = todo \ {k}
  /\ UNCHANGED <<record, obs, log, round, pc, at, fire, tapped, history>>

Look(k) ==
  /\ pc = "resolving" /\ at = Nowhere /\ k \in todo
  /\ record[k] = "held" /\ CanTell(k[1])
  /\ todo' = todo \ {k}
  /\ at' = [key |-> k, status |-> IF Logged(k) THEN "closed" ELSE "fired"]
  /\ fire' = IF Logged(k) THEN fire ELSE fire \cup {k}
  /\ UNCHANGED <<record, obs, log, round, pc, tapped, history>>

\* The record is truncated, then written.
Truncate ==
  /\ pc = "resolving" /\ at # Nowhere /\ record[at.key] # "torn"
  /\ record' = [record EXCEPT ![at.key] = "torn"]
  /\ UNCHANGED <<obs, log, round, pc, todo, at, fire, tapped, history>>
Rewrite ==
  /\ pc = "resolving" /\ at # Nowhere /\ record[at.key] = "torn"
  /\ record' = [record EXCEPT ![at.key] = at.status]
  /\ at' = Nowhere
  /\ UNCHANGED <<obs, log, round, pc, todo, fire, tapped, history>>

\* The caller delivers, and probes the edges with the token of this round.
Deliver ==
  /\ pc = "resolving" /\ at = Nowhere /\ todo = {}
  /\ pc' = "probing" /\ round' = round + 1
  /\ tapped' = tapped \cup fire /\ fire' = {}
  /\ UNCHANGED <<record, obs, log, todo, at, history>>

\* hold(), of a probe that was narrow.
Hold(e) ==
  /\ pc = "probing" /\ record[<<e, round>>] = "none"
  /\ record' = [record EXCEPT ![<<e, round>>] = "torn"]
  /\ pc' = "holding" /\ at' = [key |-> <<e, round>>, status |-> "held"]
  /\ UNCHANGED <<obs, log, round, todo, fire, tapped, history>>
Held ==
  /\ pc = "holding" /\ pc' = "probing"
  /\ record' = [record EXCEPT ![at.key] = "held"] /\ at' = Nowhere
  /\ UNCHANGED <<obs, log, round, todo, fire, tapped, history>>
EndRound ==
  /\ pc = "probing" /\ pc' = "down"
  /\ UNCHANGED <<record, obs, log, round, todo, at, fire, tapped, history>>

Die ==
  /\ "crash" \in Troubles /\ pc # "down" /\ pc' = "down"
  /\ todo' = {} /\ at' = Nowhere /\ fire' = {}
  /\ UNCHANGED <<record, obs, log, round, tapped, history>>

Turn == Begin \/ (\E k \in Keys : Skip(k) \/ Look(k)) \/ Truncate \/ Rewrite \/ Deliver
          \/ (\E e \in Edges : Hold(e)) \/ Held \/ EndRound
Next == \/ Turn \/ Die
        \/ \E e \in Edges : Vanish(e) \/ \E t \in 1 .. MaxRound : Observe(e, t)
Spec == Init /\ [][Next]_vars

-----------------------------------------------------------------------------
(* Properties.                                                             *)

TypeOK ==
  /\ record \in [Keys -> {"none", "torn", "held", "fired", "closed"}]
  /\ obs \in [Edges -> SUBSET (1 .. MaxRound)] /\ log \in [Edges -> {"new", "there", "gone"}]
  /\ round \in 0 .. MaxRound /\ pc \in {"down", "resolving", "probing", "holding"}
  /\ todo \subseteq Keys /\ fire \subseteq Keys /\ tapped \subseteq Keys
  /\ at # Nowhere => at.key \in Keys /\ at.status \in {"held", "fired", "closed"}
  /\ reported \subseteq Keys /\ taken \subseteq Keys

\* What a round says of a watcher is about that watcher and never guessed: while its
\* log is not there no tap is fired on it; with one that is, a tap is fired only on a
\* watcher that did not write the token, whatever other watchers with the same token
\* wrote, or whose log was taken away with the token and begun again without it; and
\* a record is closed as a race only if its own watcher did write the token.
VerdictIsEvidence ==
  [][\A k \in Keys : /\ k \in fire' \ fire => log[k[1]] = "there" /\ k \notin reported \ taken
                     /\ record'[k] = "closed" => k \in reported]_vars

(* What comments of tapledger.py say and the code does not do; no run checks them. *)

\* "HELD-UNRESOLVED, never a tap, against a watcher that did report.  That holds
\* for ANY cause of a vanished log": not of one that is begun again.
NeverTapReporter ==
  [][\A k \in Keys : k \in fire' \ fire => k \notin reported]_vars

\* "the deferral a DELAY and not a deletion": a tap that is written down as
\* fired is delivered, or about to be; not after a crash.
DelayNotDeletion == \A k \in Keys : record[k] = "fired" => k \in fire \cup tapped
=============================================================================
