------------------------------- MODULE Settle -------------------------------
(***************************************************************************)
(* The settle rule that tools/reviewer_poller.py defines and               *)
(* tools/watcher.py loads: a directory that changed is acted on only after *)
(* its signature has held still for one whole tick.  `moved` are the       *)
(* directories whose signature differs from the one kept, `dirty` those    *)
(* that had moved at the tick before.                                      *)
(***************************************************************************)

\* detect_settled(): what it reports, and what it leaves marked dirty.
SettledNow(moved, dirty) == dirty \ moved
DirtyAfter(moved, dirty) == (dirty \cup moved) \ SettledNow(moved, dirty)

\* plan_sweep().
\* Mutant: a fallback sweeps every directory.
SweepAll(all, settled, dirty, due) == IF due THEN all ELSE settled
\* Mutant: nothing is swept while a directory is moving.
Suppressed(all, settled, dirty, due) ==
  CASE dirty # {} -> {} [] due -> all \ dirty [] OTHER -> settled
\* Mutant: the fallback sweeps no more than what settled.
SettledOnly(all, settled, dirty, due) == settled
ToSweep(all, settled, dirty, due) == IF due THEN all \ dirty ELSE settled
=============================================================================
