---------------------------- MODULE GrantLedger ----------------------------
(***************************************************************************)
(* What the shared authorisation log promises its readers, however its     *)
(* clones are synchronised: a one-shot grant is consumed by at most one    *)
(* peer, never after it was revoked, and neither fact is ever unsaid.      *)
(***************************************************************************)
CONSTANTS Grants,       \* one-shot grants that may be spent
          Peers         \* writers of the log

VARIABLES consumed,     \* <<g, p>>: grant g was consumed by peer p
          revoked       \* grants withdrawn by their granter

ledgerVars == <<consumed, revoked>>

Init == consumed = {} /\ revoked = {}

\* One publication of p: it takes grants nobody consumed and nobody revoked,
\* and withdraws others.
Publish(p, taken, withdrawn) ==
  /\ taken \cap revoked = {}
  /\ \A g \in taken, q \in Peers : <<g, q>> \notin consumed
  /\ consumed' = consumed \cup (taken \X {p})
  /\ revoked' = revoked \cup withdrawn

Next == \E p \in Peers, taken, withdrawn \in SUBSET Grants :
          Publish(p, taken, withdrawn)

Spec == Init /\ [][Next]_ledgerVars
=============================================================================
