--------------------------- MODULE WorkspaceStamp ---------------------------
(***************************************************************************)
(* tools/new_project.py: a workspace is stamped into an empty directory.   *)
(* Several operators may stamp the same destination, a stamp may die       *)
(* between any two file operations, and what is left of it refuses the     *)
(* next one until someone clears it away.                                  *)
(***************************************************************************)
EXTENDS Naturals, Sequences, SequencesExt, FiniteSets

CONSTANTS
  Stampers,      \* the processes that stamp the one destination
  NoStamper,
  MaxDeaths      \* bound on the stampers that die half way

-----------------------------------------------------------------------------
(* What is asked for, and what it means.                                   *)

Profiles == {"2agent.local", "3agent.local", "2agent.git-sync", "3agent.git-sync"}
Unasked == "no --profile"
ThreeAgent(profile) == profile \in {"3agent.local", "3agent.git-sync"}

\* --no-orchestrator with a three-agent profile is a usage error.
Conflict(asked, alone) == alone /\ ThreeAgent(asked)
Resolved(asked, alone) ==
  IF asked # Unasked THEN asked ELSE IF alone THEN "2agent.local" ELSE "3agent.local"

\* The slots of BINDINGS.md that hold a {{FILL}}, and those the wizard asks for.
FillSlots(profile) ==
  {"CANONICAL_REPO", "REVIEWER", "PRINCIPAL", "PINNED_RESOURCES", "SIGNING", "HEARTBEAT",
   "WATCHER", "EMBARGOES / GATES"}
  \cup (IF ThreeAgent(profile)
          THEN {"FLAVOR", "AUTH_PROVENANCE", "ESCALATION", "DUTIES", "TICKS"} ELSE {})
  \cup (IF profile \in {"2agent.git-sync", "3agent.git-sync"}
          THEN {"WORKSPACE_REMOTE"} ELSE {})
Preflight == {"CANONICAL_REPO", "REVIEWER"}
DayOne == {"EMBARGOES / GATES", "SIGNING"}
Deferrable == {"PINNED_RESOURCES", "HEARTBEAT", "WATCHER"}
DeferrableOrch == {"FLAVOR", "AUTH_PROVENANCE", "ESCALATION", "DUTIES", "TICKS"}
Walked(profile) ==
  Preflight \cup DayOne \cup Deferrable
    \cup (IF ThreeAgent(profile) THEN DeferrableOrch ELSE {})

\* apply_slot_answers(): an answer takes the place of the row's {{FILL}}, "defer"
\* that of a {{DEFERRED}}; the principal's name is in the template, and without an
\* answer it is a {{FILL}} in the wizard too.
SlotsAfter(profile, wizard, deferred, named) ==
  [slot \in FillSlots(profile) |->
     CASE slot = "PRINCIPAL" -> named
       [] wizard /\ slot \in Walked(profile) -> IF slot \in deferred THEN "DEFERRED" ELSE "answer"
       [] OTHER -> "FILL"]

-----------------------------------------------------------------------------
(* The destination.                                                        *)

\* Each step makes a directory that must not be there, or writes a file; they are
\* named for what they make.
RoleSteps == <<"owner", "owner MEMORY", "owner auth-log",
               "builder", "builder MEMORY", "builder auth-log">>
OrchSteps == <<"orchestrator", "orchestrator auth-log", "orchestrator MEMORY", "dispatch-log",
               "TASKQUEUE", "session-registry", "cost-ledger">>
StartSteps(profile) ==
  <<"START owner", "START builder">>
    \o (IF ThreeAgent(profile) THEN <<"START orchestrator">> ELSE <<>>)

Steps(profile) ==
  <<"channel", "INDEX", "start">> \o RoleSteps \o (IF ThreeAgent(profile) THEN OrchSteps ELSE <<>>)
    \o <<"BINDINGS", "README", "MODELS">> \o StartSteps(profile)
    \o <<".claude", "settings", "workflows", "integrity", "tools", "validate_auth_log",
         "conformance_check">>
Directories == {"channel", "start", "owner", "builder", "orchestrator", ".claude", "workflows", "tools"}

Paths == ToSet(Steps("3agent.local"))
GitSteps == <<"init", "add", "commit">>
Absent == [by |-> NoStamper, whole |-> FALSE]

VARIABLES
  tree,          \* tree[p]: whose it is, and whether all of it is written
  pc,            \* pc[s]: "idle", "stamping", "git", or the outcome
  profile,       \* profile[s]
  at,            \* at[s]: the step it takes next
  slots,         \* the rows of the BINDINGS.md that was written last
  repo,          \* the git steps that succeeded
  deaths

vars == <<tree, pc, profile, at, slots, repo, deaths>>

Init == /\ tree = [p \in Paths |-> Absent]
        /\ pc = [s \in Stampers |-> "idle"] /\ profile = [s \in Stampers |-> Unasked]
        /\ at = [s \in Stampers |-> 1] /\ slots = <<>> /\ repo = {} /\ deaths = 0

Empty == \A p \in Paths : tree[p] = Absent
Running == {s \in Stampers : pc[s] \in {"stamping", "git"}}
NoSlots == <<>>

\* main() up to the refusal of a destination that is not empty.  The wizard asks
\* for the topology itself.
Begin(s) ==
  /\ pc[s] = "idle"
  /\ \E asked \in Profiles \cup {Unasked}, alone \in BOOLEAN :
       IF Conflict(asked, alone)
         THEN pc' = [pc EXCEPT ![s] = "usage"] /\ UNCHANGED profile
         ELSE /\ profile' = [profile EXCEPT ![s] = Resolved(asked, alone)]
              /\ pc' = [pc EXCEPT ![s] = IF Empty THEN "stamping" ELSE "refused"]
  /\ at' = [at EXCEPT ![s] = 1]
  /\ UNCHANGED <<tree, slots, repo, deaths>>

\* Mutant: the channel may exist.
ExistOk(s, p) == p = "channel" \/ tree[p] = Absent
CanMake(s, p) == tree[p] = Absent

\* A step that makes a directory; FileExistsError ends the process.
MakeDir(s) ==
  /\ pc[s] = "stamping" /\ at[s] <= Len(Steps(profile[s]))
  /\ LET p == Steps(profile[s])[at[s]] IN
       /\ p \in Directories
       /\ IF CanMake(s, p)
            THEN /\ tree' = [tree EXCEPT ![p] = [by |-> s, whole |-> TRUE]]
                 /\ at' = [at EXCEPT ![s] = @ + 1] /\ UNCHANGED pc
            ELSE pc' = [pc EXCEPT ![s] = "error"] /\ UNCHANGED <<tree, at>>
  /\ UNCHANGED <<profile, slots, repo, deaths>>

\* A file is created empty, then filled.  BINDINGS.md carries the wizard's answers.
Create(s) ==
  /\ pc[s] = "stamping" /\ at[s] <= Len(Steps(profile[s]))
  /\ LET p == Steps(profile[s])[at[s]] IN
       /\ p \notin Directories /\ tree[p] # [by |-> s, whole |-> FALSE]
       /\ tree' = [tree EXCEPT ![p] = [by |-> s, whole |-> FALSE]]
  /\ UNCHANGED <<pc, profile, at, slots, repo, deaths>>

Fill(s) ==
  /\ pc[s] = "stamping" /\ at[s] <= Len(Steps(profile[s]))
  /\ LET p == Steps(profile[s])[at[s]] IN
       /\ tree[p] = [by |-> s, whole |-> FALSE]
       /\ tree' = [tree EXCEPT ![p].whole = TRUE]
       /\ IF p = "BINDINGS"
            THEN \E wizard \in BOOLEAN, deferred \in {{}, {"SIGNING", "TICKS"}} :
                   \E named \in {"answer", "DEFERRED", "FILL"} :
                     slots' = SlotsAfter(profile[s], wizard, deferred, named)
            ELSE UNCHANGED slots
  /\ at' = [at EXCEPT ![s] = @ + 1]
  /\ UNCHANGED <<pc, profile, repo, deaths>>

\* stamp() returns 0, and main() goes on to git, or not.
Stamped(s) ==
  /\ pc[s] = "stamping" /\ at[s] > Len(Steps(profile[s]))
  /\ \E next \in {"git", "done"} : pc' = [pc EXCEPT ![s] = next]
  /\ repo' = {} /\ at' = [at EXCEPT ![s] = 1]
  /\ UNCHANGED <<tree, profile, slots, deaths>>

\* run_git_init(): the first step that fails, or takes too long, ends it; the
\* exit code is 0 all the same.
GitInit(s) ==
  /\ pc[s] = "git"
  /\ \/ /\ repo' = repo \cup {GitSteps[at[s]]}
        /\ at' = [at EXCEPT ![s] = @ + 1]
        /\ pc' = [pc EXCEPT ![s] = IF at[s] = Len(GitSteps) THEN "done" ELSE "git"]
     \/ pc' = [pc EXCEPT ![s] = "done"] /\ UNCHANGED <<repo, at>>
  /\ UNCHANGED <<tree, profile, slots, deaths>>

Die(s) ==
  /\ pc[s] = "stamping" /\ deaths < MaxDeaths
  /\ deaths' = deaths + 1 /\ pc' = [pc EXCEPT ![s] = "dead"]
  /\ UNCHANGED <<tree, profile, at, slots, repo>>

\* Someone removes what a stamp that died has left, and the operators try again.
Clear ==
  /\ Running = {} /\ \E s \in Stampers : pc[s] = "dead"
  /\ tree' = [p \in Paths |-> Absent] /\ slots' = NoSlots /\ repo' = {}
  /\ pc' = [s \in Stampers |-> "idle"] /\ at' = [s \in Stampers |-> 1]
  /\ UNCHANGED <<profile, deaths>>

Stamp(s) == Begin(s) \/ MakeDir(s) \/ Create(s) \/ Fill(s) \/ Stamped(s) \/ GitInit(s)
Next == (\E s \in Stampers : Stamp(s) \/ Die(s)) \/ Clear
Spec == Init /\ [][Next]_vars

-----------------------------------------------------------------------------
(* Properties.                                                             *)

TypeOK ==
  /\ tree \in [Paths -> [by : Stampers \cup {NoStamper}, whole : BOOLEAN]]
  /\ pc \in [Stampers -> {"idle", "stamping", "git", "done", "refused", "usage", "error", "dead"}]
  /\ profile \in [Stampers -> Profiles \cup {Unasked}]
  /\ at \in [Stampers -> 1 .. Len(Steps("3agent.local")) + 1]
  /\ slots = NoSlots \/ \E p \in Profiles : slots \in [FillSlots(p) -> {"FILL", "DEFERRED", "answer"}]
  /\ repo \subseteq ToSet(GitSteps) /\ deaths \in 0 .. MaxDeaths

\* What an operator is told is true of the whole tree.  What a stamp has written
\* is its own, and whole, for as long as it runs.  A stamp that answers 0
\* has written all that its profile promises and nothing else is there, although
\* another operator may have passed the check for an empty destination in the
\* same moment, and one that died may have left half a tree behind; the
\* orchestrator's files are there exactly under a profile that has one; and the
\* wizard leaves no placeholder behind but the remote and the principal's name.
StampIsWhole ==
  /\ \A s \in Stampers : pc[s] = "stamping" =>
       \A i \in 1 .. at[s] - 1 : tree[Steps(profile[s])[i]] = [by |-> s, whole |-> TRUE]
  /\ \A s \in Stampers : pc[s] \in {"git", "done"} =>
       /\ \A p \in Paths :
            tree[p] = IF p \in ToSet(Steps(profile[s])) THEN [by |-> s, whole |-> TRUE] ELSE Absent
       /\ DOMAIN slots = FillSlots(profile[s])
       /\ (\E slot \in Preflight : slots[slot] # "FILL") =>
            \A slot \in DOMAIN slots :
              slots[slot] = "FILL" => slot \in {"PRINCIPAL", "WORKSPACE_REMOTE"}
=============================================================================
