# Verification of the multi-agent protocol's tools

The repository is a protocol by which several agent sessions ("seats") and a
human principal work on one project: append-only logs in a git repository,
one-shot authorisations, review rounds, custody leases, wake deliveries. Its
docs say what the seats promise one another; its `tools/` are small programs
that make some of the promises mechanical. The seats are separate processes on
separate clones, so almost every hard case is two programs at one file, or one
program that stops half way. These modules model the tools that decide
something on shared state, check them with TLC and prove the most important
results with TLAPS.

All paths below are relative to `src/tools/` unless they say otherwise. The
file `PROJECT.json` has, per definition, the source lines it stands for, every
run, every finding and every hazard at its line.

## Inventory

| component | state it keeps | operations | meets | what makes it correct |
|---|---|---|---|---|
| git-sync transport (`git_sync.py`) | branch and tracking branch of a clone, the remote branch | `publish()` under two classes, `poll()` | every other seat, at the remote | no grant is spent twice, no commit of a writer is lost, every result means what it says, the retry loop ends |
| dispatch cap (`or_dispatch_cap.py`) | slot files of a run | `claim()` | the arms of a fan-out | never more grants than the cap, a refusal is not a lost race |
| wake arm minter (`wake_arm.py`) | a hash-chained store, a lock file | `mint()`, `open_arm()`, `check_arm_token()`, `audit()` | other minters, and the join | one open arm per scope, an unbroken chain |
| wake join (`wake_join.py`) | the spent log | `join()`, `SpentLog` | graders, the process table, the arm store | an event is never bound on its own word, and once |
| wake isolation (`wake_isolation.py`) | none (a walk) | `check()`, `ancestors()` | the spawn graph | no descendant of the seat grades it |
| wake grade (`wake_grade.py`) | none (a reading) | `grade()` | the harness that appends to the store | NOT-DELIVERED is a fact |
| self-poll detector (`wake_selfpoll.py`) | none | `detect()` | a poller's intervals | overlaps are found, and only overlaps |
| wake conditions (`wake_conditions.py`) | none | `detect_all()` | what its caller could read of intake, task and arm | HEALTHY only when everything was seen; blindness at one source is local |
| custody lease (`custody/custody_lease.py`) | one lease file per session | `touch()`, `live_peers()`, `self_lease_fresh()` | other sessions of the tree | a census misses no live peer |
| custody attempts (`custody/custody_attempts.py`) | an attempt log per session, capped | `start()`, `finish()`, `classify()` | overlapping hook runs | a frozen session is never called returned |
| wedge sweep (`custody/wedge_sweep.py`) | none (one pass) | `main()` | transcripts, leases, the process table | no invented stall, no hidden one, nothing killed that is not a suspect |
| reviewer poller (`reviewer_poller.py`) | signatures, the dirty set, verdict files | `watch()`, `cycle()`, `review_one()` | producers, git, the reviewer command | nothing is read half-written, everything is reviewed and pushed |
| lane watcher (`watcher.py`) | signatures, pictures, a state file | `--watch`, `--once` | whoever writes a lane | no change goes by in silence |
| auth-log validator (`validate_auth_log.py`) | a parse | `parse_log()`, `check()` | all auth logs | what it passes is authorised, and once |
| leg ledger (`codex_leg_ledger.py`) | an append-only table | `claim`, `count` | concurrent callers, no lock, midnight | a daily cap, overspent by no more than the callers that raced |
| fleet ledger (`fleet_ledger.py`) | an append-only table | `open`, `set`, `report` | scribes that race, no lock | what a scribe is told is in the report; a superseding row changes one field |
| tap ledger, log rotation (`heartbeat/`) | held taps, archives | `hold()`, `resolve()`, `rotate()` | the sentinel's rounds | no tap on a watcher that reported; trouble costs one archive |
| compaction gate (`compaction_inject.py`, `plan_common.py`) | marks and sidecars per session | `--mark`, `--inject`, the stale sweep | the plan gate, other sessions | a mark in force is never swept |
| plan gate (`plan_gate/`) | plans, seat locks, stop logs, explanations | `seat_binder`, `stop_observer`, `sleep_gate`, `stop_ledger_rollup` | seats that stop and sleep | what is runnable is neither hidden nor invented |
| preview binding (`d5_write_path/`) | a bound identity | bind, check, `write_all()` | a lane that changes, a date that rolls over | what is written is what was previewed |
| slot publication (`pcx/`) | sidecar, temp, slot and launch records | publish, undo, reap | kills at every cut, pids used again | one unit: reachable, spared, never half read |
| workspace lifecycle (`new_project.py`, `scale_workspace.py`, `migrate_workspace.py`, `reconcile_vendored.py`) | the files of a workspace | stamp, scale, migrate, re-vendor | sessions, the principal, dead runs | what a run says it did is done; records are never touched |
| integrity workflow (stamped by `new_project.py`) | the last head | one check per push | everyone who pushes | logs only grow, the counter goes forward |
| conformance grade (`conformance_check.py`) | none | one pass | scale and migrate, which rely on it | as far as they rely on it |
| orphan census, liveness probe (`orphan_census.py`, `proc_alive.ps1`) | process snapshots | two samples; a probe | a process table that reuses pids | reports what it saw |
| tick orphans (`tick_orphan_record.py`) | the day's ledger | detect, darkened span, append | fires of the tick, a hand at the clone | a lost land is found, a record stays |
| checkers, renderers, reviewer back ends, scripts | none | one pass over files | - | pure functions of text |

How they interact: files and git only. A grant is recorded in an auth log,
travels by git-sync, and is spent by a CONSUMED that `publish()` must land
first. A wake event is joined to the arm that `wake_arm` minted, by a grader
that `wake_isolation` admitted. The wedge sweep reads the leases that
`custody_lease` touches. The watcher loads the settle rule of the reviewer
poller. The compaction hooks inject the digest of the plans that the gate
reads, and the gate acknowledges their marks. A workspace is stamped, scaled
and migrated by three tools, graded by a fourth that it carries a copy of, and
the workflow it was stamped with runs the auth-log validator on every push.

The hard behaviours: two processes between a check and an append (all ledgers,
the spent log, the attempt log); a clock read before a wait or a long read
(arms, leases, the sweep); write_text(), which truncates before it writes; a
git command that fails, or succeeds without saying so; a process that dies
between two writes; pids that are used again. There is no in-process
concurrency anywhere.

## Plan

Order, most important behaviour first. Steps 1 to 10 are done.

1. `GrantLedger` (abstract), `GitSync`. The shared log is what all the other
   promises travel on.
2. `DispatchCap`.
3. The wake family: `WakeArm`, `WakeJoin`, `WakeIsolation`, `WakeGrade`,
   `WakeDetectors`, composed by `MCWake`.
4. The custody family: `CustodyLease`, `CustodyAttempts`, `WedgeSweep`, composed
   by `MCCustody`.
5. The polling family: `Settle`, `ReviewPoll`, `Watcher`, composed by `MCPoll`.
6. The ledgers: `LegLedger`, `TapLedger`, `RotateLog`, `AuthLog`, `FleetLedger`
   and `DispatchCap`, composed by `MCLedgers`.
7. The plan family: `PlanLedger`, `PlanGate`, `CompactionMark`, composed by
   `MCPlan`.
8. The lifecycle family: `WorkspaceStamp`, `WorkspaceUpgrade`, `VendoredCopy`,
   `IntegrityGate`, composed by `MCWorkspace`.
9. The evidence family: `SlotPublication`, `ProcessProbes`, `TickOrphan`,
   `PreviewBinding`, composed by `MCEvidence`.
10. Theorems, one proof module per family (`GitSync_proofs`, `Ledgers_proofs`,
    `Wake_proofs`, `Custody_proofs`, `Poll_proofs`, `Plan_proofs`,
    `Workspace_proofs`, `Evidence_proofs`): every invariant and every action
    property of the passing runs, and the refinement of `GrantLedger`. Only
    liveness is left to TLC.
11. Code left that could be modelled: the token automaton of
    `adopted/outpath_gate.py` and the replay of `ledger_derive.py`, as pure
    functions against a reference definition.

One run per family and, beside it, the runs of what it refutes. Bounds stay at
two or three actors, as below. Where a new property says more than an old one,
the old one goes.

## What each module models

Every process is a `pc` over the steps between which another process can act;
what the code computes between two such steps is one action.

**GitSync** (`git_sync.py`). A branch is a sequence of commits; a commit is
named by the prefix that ends in it, as a sha is. `publish()` is a process:
push, fetch, classify, then reset or rebase, with the failures of each git
command (`PushAckLost`, `FetchFailed`, `CountFailed`, `RebaseConflict`): a rebase
may fail whatever the commits are, and a reset that fails goes unnoticed. The
caller's own git commands (commit, reserve, integrate, separate a mixed
publication) are actions between calls, restricted to what the docstrings tell
callers. `GrantLedger` is the abstract specification; the remote branch read as
a set of consumed and revoked grants implements it (`LedgerSpec`).

**DispatchCap** (`or_dispatch_cap.py`). `holder` is the set of slot files;
create, write and exit are steps; arms may bring different caps.

**WakeArm** (`wake_arm.py`). `mint()` in its ten steps: clock, lock, read,
decide, digest, append, unlock. The store is a sequence of records with the
state of its last line; a record's digest is the length of the file before it.
`open_arm()`, `check_arm_token()` and `audit()` are state functions
(`OpenArm`, `Accepted`, `AuditOK`).

**WakeJoin** (`wake_join.py`). Graders load the spent log, grade, and bind.
The field checks are one attribute of an event, the arm's store is the verdict
`check_arm_token()` would give. The process table changes underneath.

**WakeIsolation** (`wake_isolation.py`). The climb through an arbitrary parent
function, with `None` and `Unavailable` answers. `Above` is the reference
definition (the least closed set), `VerdictIsRight` compares.

**WakeGrade** (`wake_grade.py`). The harness writes a line in pieces and may
die; the grader reads line by line and judges at the end of the file.

**WakeDetectors** (`wake_selfpoll.py`, `wake_conditions.py`). A poller makes
intervals, `Detected` is the comparison of neighbours, `Answer` what is said of
them with and without a source and starts, the history variables are what
happened. `DetectAll` is `detect_all()` over every combination of signals
that its caller can hand it; it has no state, so `signal` is chosen once.

**CustodyLease** (`custody_lease.py`, `custody_ttl.py`; the file itself is in
`CustodyParameters`). A lease is absent, truncated or written with a stamp and a
tree. `touch()` is draw the clock, truncate, write; `live_peers()` reads clock,
directory, then each lease twice.

**CustodyAttempts** (`custody_attempts.py`). One session's log as a sequence of
lines with a cap; overlapping runs count, append and may be cut short or refused
the append (`PutPart`), and the next line goes into the end of a cut one, where
two parts may read as one record (`Glued`). `lost` remembers the runs that have a
line missing for it. `classify()` is the state function `Verdict`; its records and the newest of them
are named by their places in the log.

**WedgeSweep** (`wedge_sweep.py`). `main()` as a frame with the steps clock,
transcripts, leases, snapshot, join, kill. Transcripts, leases and processes
change between the steps. The filter on the transcript file's age (`recent_s`,
`wedge_sweep.py:308`) is left out.

**Settle, ReviewPoll** (`reviewer_poller.py`). `detect_settled()` and
`plan_sweep()` as set operators; `watch()` as ticks and sweeps; `cycle()` and
`review_one()` down to each git command. `touched` stands for the signatures:
the requests whose files changed since theirs was kept. A git command that
fails ends the poller, and a scheduler starts it again.

**Watcher** (`watcher.py`). `--watch` with the same settle rule over pictures of
lanes; `--once` as runs over a state file that may overlap and die.

**LegLedger** (`codex_leg_ledger.py`). A claim takes the day, counts its rows,
and appends or refuses; a cut append leaves part of a row, to which the next
row is glued. `peak` is the number of claims that raced.

**TapLedger** (`heartbeat/tapledger.py`). Rounds resolve what is held against
each watcher's own log, deliver, probe and hold; logs vanish, are begun again or
cannot be read, and a round may die between any two of these. `taken` remembers
the tokens that went with a log.

**RotateLog** (`heartbeat/rotate_log.py`). `rotate()`, each file operation a
step that may fail or be the last; a file is known by the volume it holds.

**AuthLog** (`validate_auth_log.py`). Roles append events, complete or not, true
or not; `parse_log()` is a machine that reads them line by line, and `Clean` is
`check()`. The property is stated over the events, not over the lines.

**FleetLedger** (`fleet_ledger.py`). A scribe runs `open` or `set`: it reads, looks
whether there is a ledger, begins it with its header and appends, each a step of
its own, and may die between any two or leave a part of a line (`Pieces`), to which
the next line is glued (`Glued`). A line has the number of its columns, and
`Rows` are those `read_rows()` does not pass over. `Reported` is `cmd_report()`.

**PlanLedger** (`plan_common.py`, the projection in `stop_observer.py`). A ledger
of plans, each a record of steps and their owners, coordinates at its top or in
its steps, one gate, one clock and one constraint, with the operators `Runnable`, `Owed`, `Opens`, `Digest` that the code computes from
it (the length of a digest counts its lines by section); seats edit and damage
files, time passes.

**PlanGate** (`seat_binder`, `stop_observer`, `sleep_gate`,
`stop_ledger_rollup`). A session's frame goes through bind, load file by file,
hash file by file, note or clear; explanations are stored per ledger hash. The
roll-up counts stops by their places in the log.

**CompactionMark** (`compaction_inject.py`). Hooks of several sessions side by
side: mark and sidecar written in two steps, injection, the sweep over all
sessions, which may fail to read a receipt and then takes it for none, a watchdog
that ends any of them with exit code 0. What the gate does
to the files when it acknowledges is external.

**WorkspaceStamp** (`new_project.py`). Two stampers at one destination, each
directory made, each file opened and filled, under its own path, in a step of its own; the wizard's
answers; the git steps; a stamper that died leaves a tree that refuses the next
until someone clears it.

**WorkspaceUpgrade** (`scale_workspace.py`, `migrate_workspace.py`, the parts of
`conformance_check.py` they rely on). Runs over a workspace in use, file by
file and hop by hop, previewed or not, with crashes and files that cannot be read;
a file is its banner and its rows, the slots of BINDINGS.md are the pin, whether
its cell holds words beside the version, the profile and the number of
SIDE_NAMES. What people wrote (`born`, `written`) is a history that no tool
touches, and `raced` are the files that someone wrote to while scale copied.

**VendoredCopy** (`reconcile_vendored.py`). People develop the canonical checker
and edit the copy; a run inspects, and may rewrite.

**IntegrityGate** (the workflow text in `new_project.py`). A push of one or two
commits is compared with a base; lines, paths, the counter and the provenance map,
which is a file of the pushed tree, are what the steps look at.

**SlotPublication** (`pcx/*.ps1`). Takers publish into one slot by the pair of
sidecar and temp, with every file operation a step that may throw or be the
last, pids handed out again, and a sweep that deletes the pairs of the dead.

**ProcessProbes** (`orphan_census.py`, `proc_alive.ps1`). A process table that
changes between the two samples of a census, and around a probe. Either sample
may lack the stamp of a row, and a cpu reading may fail.

**TickOrphan** (`tick_orphan_record.py`). Fires of an external seat that compose
several bodies and a delta, land some of them, say that a land failed, or die on
the way; `detect` in the order of its questions, of which git grep and git status
may fail, looking for the first body by name (`LookedFor`); two writers append to
the day's ledger and commit it. `open` is what no land has decided.

**PreviewBinding** (`d5_write_path/`). Clients preview, then append with the
binding, altered or not, while others append, people edit and the date rolls
over; the checks of `binding.py` in its order, and `write_all()`.

## What each run checks and shows

Each MC module composes the components of a family, which share no state or
only a constant rule: the variable `focus` chooses which of them a behaviour
runs, the others stay as they began. Their state spaces add and do not
multiply, and one run covers a family. The type invariants of a family are a
conjunct of one of its properties, named in the module (`TypesOK`), or each is a
conjunct of its component's property (`MCLedgers`, `MCWorkspace`); where
properties of several components answer one question, they are one property,
and its parts are stated and explained with their components.

| run | checks | bounds |
|---|---|---|
| `git_sync` | TypeOK, NoDoubleSpend, ResultsAreTrue (what "pushed", "lane-down" and "reservation-dropped" claim of a race), LedgerSpec, AppendSurvives, PublishTerminates | two peers, one grant, three commits, two attempts, one of the peers may trespass |
| `ledgers` | GrantsWithinCap, RefusedMeansFull, ClaimTerminates (arms); OverspendIsBounded (legs); VerdictIsEvidence (taps); TroubleCostsOneArchive (rotation); CleanMeansAuthorised (auth logs); FleetIsKept (commissions) | three arms, caps 0 to 2 and an unusable one; four claims over one midnight, one cut append; two edges, two rounds, logs that vanish and are begun again; three archives, six volumes, three troubles; two roles, one grant of scope up to 2, five events; two scribes, two commissions, four rows of three columns, one death, which may leave a part of a line |
| `wake` | StoreIsSound (OneOpenArm, HonestAudit), BindingsHold (BoundOnceAlone, NeverSelfVerified), GradesAreFacts (VerdictIsRight, NotDeliveredIsFact, DetectsOverlap, ToldApart), Answers (MintTerminates, WalkTerminates) | two minters, two ids, three ticks; two graders, events, pids and starts; three agents; three lines; three poller runs; one item, two subjects, any signals |
| `custody` | NoLivePeerMissed, VerdictsAreTrue (the attempt log's, NoYoungVictim), StallsAreExact (NoInventedStall, NoStallHidden) | two sessions, two trees; three hook runs over a log of two lines (an even cap, as the code's), killed, cut short or refused an append; three records, two processes on one pid |
| `poll` | SweptIsWhole, WholeIsReviewed, NewsIsKept (NothingForgotten, SavedIsTold), QuietLaneIsTold | two clones, three requests, interval two; two lanes, two files; two runs, three changes |
| `plan` | ReportsAreWhole (CarrierIsComplete, BannerIsTrue, NoFalseZero), ProgressHidesNothing, ClearIsCurrent, SweepTakesOnlyDead | two files, two steps, two seats, three edits, three moments; beside the gate two edits, and sessions that take turns; two sessions, three hooks, any receipts unread, three days for the marks; a digest of at most three lines |
| `workspace` | StampIsWhole, RecordsAsWritten, MigrationHolds (MigratedIsCarried, PreviewIsKept), ScaledIsComplete, OnlyRotIsOverwritten, GreenKeepsLogs | two stampers, one death; three versions, two runs, one crash, one appended row, any file unread; two names, three changes; two logs and the channel, two lines, every provenance map of two roles, two pushes of up to two commits |
| `evidence` | PublicationHolds, ProbesAreTrue, DetectorIsRight, RecordsAreKept, BindingHolds | three takers on two pids, one sweep at a time; two births onto three pids, a clock of two values, one stamp unread in each sample; two days, two fires of up to two bodies and a delta, two records; two clients, dates and previews |

Why the bounds are enough: each hazard needs at most two actors at the shared
file and one more event (a third commit, a third hook run, a second use of a
pid). Two peers with two attempts lose a race, retry and lose again; two
minters make the race, and a second id the supersession; three agents are the
smallest graph with a cycle the candidate is not on; three runs are the
smallest in which an overlap is not between neighbours in the log; two clones
give a sweep one that is settled and one that is moving. Four claims at a cap
of two race before and after midnight; six volumes in three archives discard
twice; three versions are two hops, so that a run can stop between them; three
takers on two pids let a pid be handed on while the pair of its former owner is
swept; two pushes are one green one and its successor; two bodies are a
first by name and another, the least for which it matters that only the first is
looked for; three columns leave a cut row with too few and let a glued one have
too many, too few or the right number.

The integrity run's horizon is the first push that was red, or compared with
something else than the head it replaced (`all`): what such a push broke, no
later one looks at. In `SlotPublication` one sweep runs at a time: the ordered
delete is safe against the living, not against a second sweep. In
`PreviewBinding` the lane's lock is respected; the handlers that take it are not
in the repository.

The other runs show where the code does not do what a comment or document of
the repository says. Each checks that sentence, and TLC refutes it:

| run | what TLC shows |
|---|---|
| `git_sync_stacked` | the guard of `reset --hard` counts commits: an append stacked on a reservation that landed unnoticed is discarded |
| `custody_kill` | the sweep kills by a pid of its snapshot, which by then belongs to another process |
| `migrate_pin` | a pin with words beside the version is detected and migrated from, and never rewritten: the run reports a migration and the old version stays pinned |
| `census_own_pid` | an orphan whose dead parent's pid went to the census itself or to one of its relatives is left out |

Further disagreements were met and have no run. Some are stated as properties
in their modules, where TLC refutes them; the others were read off the code, and
the models contain the steps.

- `git_sync.py`: a push that landed without acknowledgement is returned as
  `rejected-no-contention`. `:176`: any rebase that fails (a dirty tree, no
  identity, a lock) is returned as `conflict`, "a writer committed a file it does
  not own". `:168`: the return code of `reset --hard` is ignored, so
  `reservation-dropped` may be said of a reservation still on the branch.
- `wake_join.py:187` (`BoundOnce`): two graders at once both bind one event.
  `wake_arm.py:297`: an arm that supersedes another after a long wait may be
  born expired and leaves the scope with no open arm.
- `custody/custody_attempts.py:177` (`TruncatedIsUnknown`): `finish()` takes the
  log past its cap between two counts, so the marker is never written. `:43`: "open
  means precisely this process did not come back", but a completion is appended at
  best effort (`:141-146`, `:190-199`), and one that fails, or that goes into the
  end of a cut line, leaves a run open that returned; two cut lines may also read
  as an attempt of no run. `custody/wedge_sweep.py:748`: a seat that touches its lease during a sweep may
  be reported EMITTER-DARK.
- `reviewer_poller.py:95` (`VerdictIsPushed`): after one failed git command a
  verdict file hides its request. `:158` and `:206` (`NeverReadHalf`): a request
  begun after the channel was found settled is read half-written.
- `codex_leg_ledger.py:51` (`CapIsHard`): even claims that follow one another take
  a leg too many where the ledger has no header line; claims that race take more.
  `heartbeat/tapledger.py:182` (`DelayNotDeletion`): a crash between resolve() and
  the delivery loses the tap. `:110-112` (`NeverTapReporter`): a log that was taken
  away and begun again makes a watcher that reported be tapped.
- `fleet_ledger.py:83`: a row appended to a cut line is reported as written and
  passed over by every reader.
- `compaction_inject.py:85` (`MarkOrSentinel`): the watchdog ends a mark with
  exit code 0 and nothing armed. Half a pair stays when an unlink fails; another
  session's sweep may take a mark that was written after it looked. `:137-138`: the
  mark of an acknowledged receipt is "NEVER swept", but a receipt that cannot be
  read (`:113-119`) counts as none. `plan_gate/stop_observer.py:118`: a step without
  an owner licenses its coordinate and is on nobody's list, only in a note.
- `plan_common.py`: a constraint with a date without a zone, and a plan that is
  not UTF-8, raise out of the readers. A file name with a space cannot be
  explained. `sleep_gate.py:86` describes an older gate.
- `migrate_workspace.py:15` (`NothingLeftBehind`): a run that dies after the pin
  was flipped leaves files that no later run carries on. Rows appended to
  TASKQUEUE, and the principal's edits of BINDINGS.md, between read and write
  are lost. `:372-373`: a file that cannot be opened or decoded is passed over in
  silence, and the run says `migrated` (`test_migrate_workspace.py:574` has it so).
  `scale_workspace.py:124`: a file made between the look and the copy is
  overwritten ("WITHOUT touching anything already there"), half a copy counts as
  present, and below the newest version the new records are stamped above the
  pin. `:171-177`: the printed steps ask for no third name in SIDE_NAMES, so the
  `--strict` run that they end with warns of it (`conformance_check.py:699`).
- `new_project.py:379` (`CounterForwardOnly`): a push that deletes the counter's
  file is green, and the next starts anywhere. Any push after a red one is
  compared with the red head. `:333`: the provenance map is read from the pushed
  tree, so a push that rebinds or deletes the map is judged by its own. `:308`,
  `:370`: `grep -v '^---'` drops every removed line that begins with "--", and the
  diff of a renamed channel file shows none.
- `reconcile_vendored.py`: local work in a text that does not parse, or under a
  stamp that is not closed, reads as DRIFT and is overwritten.
- `orphan_census.py:145-182`: a pid used again between the two samples is reported
  with the age of the dead process. `:160-165`: a holder of the parent's pid
  whose stamp cannot be read counts as the parent, and no note says so.
- `tick_orphan_record.py:27` (`EveryBodyIsAskedFor`): of several bodies only the
  first by name is looked for (`:122`), so the killed land of a second reads NOT
  ORPHANED once the first is in the tree. `:292` (`ShippedIsClean`), `:233`
  (`NextAppendRecommits`): "tracked-clean" is said although git status failed; what
  a failed commit left is not committed by an append of the next day. A stale
  failure marker hides an orphan.

## Fairness

Only what a running process does by itself is fair, and always weakly: its next
git command, file operation or loop step (`Publish`, `Step`, `Turn`). Failures,
crashes, callers and producers are never fair, with these exceptions: time
passes (`Tick`, for the bounded wait of `mint()`); a poller that went down is
started again (`Start` is part of `Turn`: the manual schedules it every five
minutes); a producer that began a request ends it (`Finish`: the docstring of
`watch()` excludes the ones that never do); and the reviewer command answers in
the end if it is asked again and again (strong fairness of `Answer`, without
which no poller could review anything). The isolation climb is one process.
The other families need fairness only for an arm that claims a dispatch slot.
`QuietLaneIsTold` is about a lane that is quiet from some time on, while
another may never be.

## What is proved

Every invariant and every action property of the passing runs, as a theorem of
the specification that the run checks (of `GitSync`, of the composition of a
family), for every value of the constants and under the named ASSUMEs only:
sentinels are not elements of the sets they are absent from, the sets that the
code counts are finite, bounds are naturals, an interval or a number of attempts
is positive, and the sweep's thresholds are ordered as the code's are. One ASSUME
says more: `AttemptAssumption` has the attempt log's cap even, as the code's 20000 is. For an
odd cap the half of `VerdictsAreTrue` about "gone" fails, because lines come in
pairs and the cap would be met inside one. One theorem has a hypothesis, the one
the run has: `NothingLost` that callers do not stack commits on an unresolved
reservation (the docstring's rule; `git_sync_stacked` shows what happens
otherwise).

Several properties name an exception, where the code breaks the sentence of its
own docs; the exception is a history of what happened, is no wider than that
case, and the sentence without it is in the list of disagreements above:
`VerdictIsEvidence` (`taken`), `VerdictsAreTrue` (`lost`; and not `whole`, for an
open line that is no run's), `RecordsAsWritten` (`raced`), `MigrationHolds` (`unread`),
`SweepTakesOnlyDead` (`unread`), `GreenKeepsLogs` (`rebound`), `CensusIsExact`
(`unknown`, `succeeded`), `DetectorIsRight` (the first body by name).

In a composition a step moves one component and leaves the variables of the
others alone; a proof module states that once (`StepsApart`), or proves it with
the component's invariant, which is then proved against its own actions alone.
Few of the properties are inductive. What the strengthening adds:

- `GitSync_proofs`. `TypeCorrect`. `NoGrantSpentTwice`: the remote is clean, but
  the next push makes it equal to a clone's branch, so `SpendInv` says that every
  branch is clean when read on its own, that a branch with a pending reservation
  extends what its clone knows of the remote, and that a reservation is pushed or
  dropped and never rebased. `NothingLost`: the reset of a lost race drops the tip,
  so `SurviveInv` says that the tip is then the reservation, and the only commit
  not yet fetched that is one. `RacesAreReported` (ResultsAreTrue): `OriginInv`, what a clone
  has of others it fetched, and what it landed it still holds; `CallInv`, a call
  holds all it was called with, and the remote grew before every push but its
  first, whatever rebases and resets fail. `ImplementsGrantLedger`: a push is one publication of the abstract ledger,
  every other step a stutter. The lemmas are about prefixes, forks and rebased
  sequences.
- `Ledgers_proofs`. `CapIsHard`, `RefusalIsFact`: `SlotInv` ties every granted arm
  to the slot it holds, an injection, so that the count follows. `OverspendBound`:
  `LegInv`, the rows of a day fall short of its legs by cut appends and a missing
  header at most, and who is about to append is paid for already. `TapsAreEvidence`:
  `TapInv`, a log that is there has every token its watcher wrote but those that
  were taken away. `TroubleIsBounded`:
  `RotateInv`, the archives are in order, and holes and lost volumes are paid for by
  troubles through every step of a rotation. `CleanIsAuthorised`: `AuthInv`, what
  the parser has kept of the events it has read, kind by kind. `CommissionsAreKept`:
  `FleetInv`, where told rows stand, that each one that is not read is paid for by a
  death or a missing header (`Tally`), and what a row about to be appended
  supersedes.
- `Wake_proofs`. `OneArmIsOpen` (StoreIsSound): `ArmInv`, the lock's holder is the
  one minter past it, what it decided under the lock stays so until its append, and
  every record but the newest of its scope is closed or has expired.
  `BindingsAreSound`: `JoinInv`, while graders follow one another the one that is up
  knows every event that was bound. `DescendantsAreBarred`: `IsolationInv`, what has
  been seen lies in every closed set around the candidate, and is closed but for the
  agent being looked at. `AnswersAreFacts` (GradesAreFacts): this, `GradeInv` (a
  delivery that was there is ahead of the reader or among what it found) and
  `PollInv` (an overlap shows in two neighbours that share time); what is said of
  `detect_all()` follows by cases.
- `Custody_proofs`. `CensusIsComplete` (of `CustodyLease`) and `CensusMissesNone`:
  `CensusInv` says of every moment of a census why no reading still to come can
  drop a peer that was due. `VerdictsAreAlwaysTrue`: `AttemptInv`, what an open
  attempt says of its run, whatever parts of lines stand before it, with
  `LinesComeInPairs` for runs that follow one another; `WedgeInv`, a suspect that was
  joined to a stall was born about when the stall began, and keeps its birth as long
  as it keeps its name. `StallsAreAlwaysExact` from the latter.
- `Poll_proofs`. `NothingBegunIsReadHalf`: `BegunIsWhole`, a sweep never includes a
  channel in which an unfinished request moved since the last two signatures.
  `NewsIsAlwaysKept`: `LaneInv`; and `OnceInv`, which extends what is said of the
  state file to the snapshots that runs have loaded.
- `Plan_proofs`. `SweepsTakeOnlyDead`: `MarksInv`, why a pair that a sweep has judged
  stays dead, or its receipt was not read, or it is no longer where it was. `ClearIsAlwaysCurrent` (the gate and its
  ledger alone) and `CheckedGateIsCurrent` (as the run has them): `GateInv` says of
  every checkpoint how far its reading has come, and that what it read is the ledger
  as long as no edit was counted. `ProgressNeverHides` and `ReportsAreAlwaysWhole`:
  `LedgerInv`, with lemmas on what time and progress leave of `Runnable`, and on the
  length of a digest by its sections.
- `Workspace_proofs`. `StampIsAlwaysWhole`: `StampInv`, the stamper that made the
  channel is alone, and has written exactly what it has passed. `RecordsStay` and
  `ScaledIsAlwaysComplete`: `UpInv`, a migration empties no record, and what a scale is
  about to copy nobody has written to, or it is in `raced`. `MigrationIsCarried`:
  `MoveInv`, which rung of the ladder of versions each file that could be read has
  reached at every step of every hop. `OnlyRotIsEverOverwritten`:
  `VendorInv`, a run that writes knows of the history what is true.
  `GreenAlwaysKeepsLogs`: `GateInv`, what the head holds of all that was ever on a
  log, and that a push that changes no map is judged by the map that it met.
- `Evidence_proofs`. `PublicationIsOneUnit`: `PublicationInv` adds that a sidecar
  names a process that has had its pid, that a publisher owns its pair from creation
  to the second unlink, and that a sweep holds the pair of a process that is dead
  for good, so that the two never hold one pair. `ProbesNeverMistake`: `ProbesInv`,
  how the rows of a census relate to the processes as the table grows.
  `OrphansAreTold`: `DetectorInv`, what a clone shows of every body and delta of a
  fire until it is asked. `BookedIsKept`: `RecordsInv`, a file is exactly what was
  ever written to it, and its last commit what was ever committed, whoever writes. `AppendIsAsPreviewed`: `BindingInv`, what is written and the rest are
  together what was shown, and one client at a time writes.

Only model-checked is what the prover cannot reach, liveness under fairness:
PublishTerminates, ClaimTerminates, Answers (MintTerminates, WalkTerminates),
WholeIsReviewed and QuietLaneIsTold. The sentences of the runs that TLC refutes
are not provable. Every property that is proved is also checked by a run, and TLC
evaluates the ASSUMEs there.

## What is abstracted or left out

- Contents of messages, prompts, records and reports; file names; hashes
  (a digest is the prefix it is taken of, ids do not collide unless the entropy
  source repeats itself).
- Git's internal states: a git command is atomic, and either has its effect or
  not, and says so or not. A failed rebase is aborted; the abort does not fail.
- Clock steps: clocks advance, and are read when the code reads them.
- `--loop` and `--once` of the poller, which are its sweep alone; `--dry-run`
  switches; reports in JSON.
- In `IntegrityGate`: the secret scan, the protected paths of pull requests,
  merge commits (which list no paths), forced pushes, and a map that does not
  parse, which is always red.
- In `TickOrphan`: a body whose time of change cannot be read, which is silently
  not counted (`:193-195`). In `ProcessProbes`: the notes on what was skipped.
- In the conformance grade: the form of slots, entries and identities.
- Not modelled, each for the reason in `PROJECT.json`. The checkers, the head
  renderer, the reviewer back ends, the views and the parity scripts are
  functions of text without state: their rules are regular expressions, which the
  models abstract as data. The out-path gate and the ledger derivation are pure
  functions too, and are step 11 of the plan. The custody emitter is a candidate
  that is not wired.
