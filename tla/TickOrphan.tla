----------------------------- MODULE TickOrphan -----------------------------
(***************************************************************************)
(* tools/tick_orphan_record.py: after every fire of the tick the launcher  *)
(* asks the clone whether a land was composed and then vanished, and books *)
(* it in the day's ledger; a hand that clears the dirt books the span it   *)
(* darkened.  The seat and its tick_land are not in the repository: a fire *)
(* refuses a clone with tracked dirt, and may be killed at any point.      *)
(***************************************************************************)
EXTENDS Naturals, FiniteSets

CONSTANTS
  Days,          \* the days of the ledger are 1..Days
  MaxFires,      \* bound on the fires of the tick
  MaxBodies,     \* bound on the body files of a fire
  MaxRecords     \* bound on the records booked

VARIABLES
  day, fires,
  fire,     \* the fire: its step, whether its log names its start
  body,     \* the body files of this fire in the clone root, in the order of their names
  bank,     \* a delta is in the tracked bank and not committed
  marker,   \* TICK_LAND_FAILED.txt
  open,     \* what this fire composed and no land of it decided (history)
  clean,    \* neither it nor its verdict met dirt that was not its own (history)
  verdict,
  tree, staged, head,  \* the ledger of each day: bytes, git's index, commits
  pen,      \* of each writer: its step, its record and the day of its file
  lost,     \* records whose commit failed (history)
  wrote, shown  \* records ever written to the file of a day, ever committed (history)

vars == <<day, fires, fire, body, bank, marker, open, clean, verdict, tree, staged, head, pen,
          lost, wrote, shown>>
seatOnly == <<fire, body, bank, marker, open, clean, verdict>>
ledger == <<tree, staged, head, pen, lost, wrote, shown>>

Writers == {"launcher", "hand"}
AllDays == 1..Days
Written == UNION {tree[d] : d \in AllDays}

\* git status --untracked-files=no: the bank, or a ledger that git knows and that
\* differs from its last commit.
LedgerDirt == \E d \in AllDays : (staged[d] \/ head[d] # {}) /\ tree[d] # head[d]
Dirt == bank \/ LedgerDirt

-----------------------------------------------------------------------------
(* A fire.                                                                 *)

Names == 1..MaxBodies
\* A *_BODY.md whose longest lines are in the committed tree, or are not, or that has
\* none to look for; and a *_MSG.txt or *_DELTA.md, which is never looked for.
Kinds == {"present", "absent", "opaque", "other"}
NoBody == [n \in Names |-> "none"]
Delta == 0  \* among the names of what was composed: the delta in the bank
Resting == [step |-> "rest", readable |-> TRUE]

\* The sync refuses tracked dirt and resets none of it away.
Fire ==
  /\ fire.step = "rest" /\ fires < MaxFires
  /\ fires' = fires + 1
  /\ \E readable \in BOOLEAN :
       fire' = [step |-> IF Dirt THEN "exited" ELSE "seat", readable |-> readable]
  /\ clean' = ~Dirt
  /\ UNCHANGED <<day, body, bank, marker, open, verdict, ledger>>

\* The seat composes a body, or again one that a land decided, or a delta.
Compose ==
  /\ fire.step = "seat"
  /\ \/ \E n \in Names \ open, kind \in Kinds :
          /\ body' = [body EXCEPT ![n] = kind] /\ open' = open \cup {n}
          /\ UNCHANGED bank
     \/ ~bank /\ bank' = TRUE /\ open' = open \cup {Delta} /\ UNCHANGED body
  /\ UNCHANGED <<day, fires, fire, marker, clean, verdict, ledger>>
\* tick_land commits some of what was composed, or fails and says so.
Land ==
  /\ fire.step = "seat"
  /\ \E decided \in SUBSET open \ {{}} :
       /\ \/ /\ body' = [n \in Names |-> IF n \in decided /\ body[n] = "absent" THEN "present"
                                           ELSE body[n]]
             /\ bank' = (bank /\ Delta \notin decided)
             /\ UNCHANGED marker
          \/ marker' = TRUE /\ UNCHANGED <<body, bank>>
       /\ open' = open \ decided
  /\ UNCHANGED <<day, fires, fire, clean, verdict, ledger>>
\* The seat's turn ends, and whatever it left running with it.
SeatEnds ==
  /\ fire.step = "seat"
  /\ fire' = [fire EXCEPT !.step = "exited"]
  /\ UNCHANGED <<day, fires, body, bank, marker, open, clean, verdict, ledger>>

-----------------------------------------------------------------------------
(* The detector.  A leg answers, or is unknown.                            *)

Answer(holds) == IF holds THEN "yes" ELSE "no"

\* _fire_start_from_log(), compose_evidence(): without the fire's start, or a listing
\* of the clone root, the bodies of this fire cannot be told from earlier ones.
BodyLeg == IF fire.readable THEN Answer(body # NoBody) ELSE "unknown"
\* _published_leg(): of the bodies of this fire only the first by name is looked for.
\* Its longest lines are all in the committed tree, or none is; or some are, as when
\* another revision was landed; git grep may fail.
Candidates == {n \in Names : body[n] \in Kinds \ {"other"}}
LookedFor ==
  IF Candidates = {} THEN "none"
    ELSE body[CHOOSE n \in Candidates : \A m \in Candidates : n <= m]
PublishedLegs ==
  {"unknown"} \cup
    IF ~fire.readable \/ LookedFor \notin {"present", "absent"} THEN {}
      ELSE {Answer(LookedFor = "present")}
\* git status, which may fail.
DirtLegs == {Answer(Dirt), "unknown"}

\* do_detect(): dirt answers the question of publication before any probe does.
ProbedFirst(published, dirt) ==
  IF published = "yes" THEN "NOT_ORPHANED"
    ELSE IF dirt = "yes" THEN "ORPHANED"
    ELSE IF published = "no" THEN "ORPHANED" ELSE "UNDETERMINED"
Unpublished(published, dirt) ==
  IF dirt = "yes" THEN "ORPHANED"
    ELSE IF published = "yes" THEN "NOT_ORPHANED"
    ELSE IF published = "no" THEN "ORPHANED" ELSE "UNDETERMINED"
Verdict(composed, published, dirt) ==
  CASE marker -> "NOT_ORPHANED"
    [] ~marker /\ "yes" \notin {composed, dirt} ->
         IF "unknown" \in {composed, dirt} THEN "UNDETERMINED" ELSE "NOT_ORPHANED"
    [] ~marker /\ "yes" \in {composed, dirt} -> Unpublished(published, dirt)

Unasked == [said |-> "none", dirt |-> "none"]
Idle(w) == pen[w].step = "idle"
NextRecord ==
  LET used == Written \cup {pen[w].record : w \in {v \in Writers : ~Idle(v)}}
  IN CHOOSE r \in 1..(MaxRecords + 1) : r \notin used /\ 1..(r - 1) \subseteq used
Take(w) == pen' = [pen EXCEPT ![w] = [step |-> "append", record |-> NextRecord, file |-> day]]

Detect ==
  /\ fire.step = "exited" /\ Idle("launcher")
  /\ \E published \in PublishedLegs, dirt \in DirtLegs :
       verdict' = [said |-> Verdict(BodyLeg, published, dirt), dirt |-> dirt]
  /\ fire' = [fire EXCEPT !.step = "told"]
  /\ clean' = (clean /\ ~LedgerDirt)
  /\ IF verdict'.said = "ORPHANED" /\ NextRecord <= MaxRecords THEN Take("launcher") ELSE UNCHANGED pen
  /\ UNCHANGED <<day, fires, body, bank, marker, open, tree, staged, head, lost, wrote, shown>>
\* The launcher goes on to the next slot; it may have died before it asked.
Over ==
  /\ fire.step \in {"exited", "told"} /\ Idle("launcher")
  /\ fire' = Resting /\ verdict' = Unasked /\ clean' = TRUE
  /\ body' = NoBody /\ open' = {}
  /\ UNCHANGED <<day, fires, bank, marker, ledger>>

\* The hand clears the bank and the marker, and books the span: do_span().
Clear ==
  /\ Idle("hand") /\ fire.step = "rest" /\ (bank \/ marker)
  /\ bank' = FALSE /\ marker' = FALSE
  /\ IF NextRecord <= MaxRecords THEN Take("hand") ELSE UNCHANGED pen
  /\ UNCHANGED <<day, fires, fire, body, open, clean, verdict, tree, staged, head, lost, wrote,
                 shown>>

-----------------------------------------------------------------------------
(* append_record(), by either writer.                                      *)

Step(w, next) == [pen EXCEPT ![w].step = next]

\* Bytes are added at the end of the file of the day.  A record begins on a line of its
\* own, so what a writer that was killed here left of one spoils no other.
Rewritten(old, r) == {r}
Appended(old, r) == old \cup {r}
Append(w) ==
  /\ pen[w].step = "append"
  /\ tree' = [tree EXCEPT ![pen[w].file] = Appended(@, pen[w].record)]
  /\ wrote' = [wrote EXCEPT ![pen[w].file] = @ \cup {pen[w].record}]
  /\ pen' = Step(w, "add")
  /\ UNCHANGED <<day, fires, seatOnly, staged, head, lost, shown>>
\* The outcome of git add is not looked at.
Add(w) ==
  /\ pen[w].step = "add"
  /\ staged' \in {staged, [staged EXCEPT ![pen[w].file] = TRUE]}
  /\ pen' = Step(w, "commit")
  /\ UNCHANGED <<day, fires, seatOnly, tree, head, lost, wrote, shown>>
\* A pathspec commit takes the file as it is in the tree, if git knows the file and
\* it differs.  The push that follows changes nothing here, whatever becomes of it.
Commit(w) ==
  LET d == pen[w].file IN
  /\ pen[w].step = "commit"
  /\ \/ /\ staged[d] \/ head[d] # {}
        /\ tree[d] # head[d]
        /\ head' = [head EXCEPT ![d] = tree[d]]
        /\ shown' = [shown EXCEPT ![d] = @ \cup tree[d]]
        /\ pen' = Step(w, "committed")
        /\ UNCHANGED lost
     \/ /\ pen' = Step(w, "idle") /\ lost' = lost \cup {pen[w].record}
        /\ UNCHANGED <<head, shown>>
  /\ UNCHANGED <<day, fires, seatOnly, tree, staged, wrote>>
Push(w) ==
  /\ pen[w].step = "committed"
  /\ pen' = Step(w, "idle")
  /\ UNCHANGED <<day, fires, seatOnly, tree, staged, head, lost, wrote, shown>>
\* An exception is caught, a process is killed.
Dies(w) ==
  /\ ~Idle(w)
  /\ pen' = Step(w, "idle")
  /\ UNCHANGED <<day, fires, seatOnly, tree, staged, head, lost, wrote, shown>>

NextDay ==
  /\ day < Days
  /\ day' = day + 1
  /\ UNCHANGED <<fires, seatOnly, ledger>>

Init ==
  /\ day = 1 /\ fires = 0
  /\ fire = Resting /\ body = NoBody /\ bank = FALSE /\ marker = FALSE
  /\ open = {} /\ clean = TRUE /\ verdict = Unasked
  /\ tree = [d \in AllDays |-> {}] /\ staged = [d \in AllDays |-> FALSE]
  /\ head = tree /\ wrote = tree /\ shown = tree
  /\ pen = [w \in Writers |-> [step |-> "idle", record |-> 0, file |-> 1]]
  /\ lost = {}

Book(w) == Append(w) \/ Add(w) \/ Commit(w) \/ Push(w) \/ Dies(w)
Next ==
  \/ Fire \/ Compose \/ Land \/ SeatEnds \/ Detect \/ Over \/ Clear \/ NextDay
  \/ \E w \in Writers : Book(w)

Spec == Init /\ [][Next]_vars

-----------------------------------------------------------------------------
(* Properties.                                                             *)

\* Every variable has its type.
TypeOK ==
  /\ day \in AllDays /\ fires \in 0..MaxFires
  /\ fire \in [step : {"rest", "seat", "exited", "told"}, readable : BOOLEAN]
  /\ body \in [Names -> Kinds \cup {"none"}] /\ open \subseteq Names \cup {Delta}
  /\ {bank, marker, clean} \subseteq BOOLEAN
  /\ verdict \in [said : {"none", "ORPHANED", "NOT_ORPHANED", "UNDETERMINED"},
                   dirt : {"none", "yes", "no", "unknown"}]
  /\ {tree, head, wrote, shown} \subseteq [AllDays -> SUBSET (1..MaxRecords)]
  /\ staged \in [AllDays -> BOOLEAN]
  /\ pen \in [Writers -> [step : {"idle", "append", "add", "commit", "committed"},
                          record : 0..MaxRecords, file : AllDays]]

\* After a fire that began on a clean clone, ORPHANED is said only if something that
\* was composed reached no decision.  NOT ORPHANED is said over no delta left in the
\* bank, whatever the fire landed before, and over an undecided body only if the first
\* body by name is in the tree: as long as no failure marker hides it, and git status
\* answered.
DetectorIsRight ==
  clean =>
    /\ verdict.said = "ORPHANED" => open # {}
    /\ verdict.said = "NOT_ORPHANED" /\ ~marker /\ verdict.dirt # "unknown" =>
         Delta \notin open /\ (open = {} \/ LookedFor = "present")

\* tick_orphan_record.py:27 says "Composed + no terminal marker + nothing published =
\* ORPHANED", whichever body it was.
EveryBodyIsAskedFor ==
  clean /\ verdict.said = "NOT_ORPHANED" /\ ~marker /\ verdict.dirt # "unknown" => open = {}

\* tick_orphan_record.py:292-293 says of a land that shipped "and the clone is
\* tracked-clean".
ShippedIsClean == verdict.said = "NOT_ORPHANED" /\ ~marker /\ body # NoBody => ~bank

\* A record that ever reached its file stays in it, though its commit failed or its
\* writer died, and one that was ever committed stays in the last commit of the
\* file, whoever of the two writes to it meanwhile.
RecordsAreKept ==
  /\ \A d \in AllDays : wrote[d] \subseteq tree[d] /\ shown[d] \subseteq head[d]
  /\ \A w \in Writers : pen[w].step \in {"add", "commit", "committed"} =>
       pen[w].record \in wrote[pen[w].file]
  /\ \A w \in Writers : pen[w].step = "committed" => pen[w].record \in shown[pen[w].file]

\* tick_orphan_record.py:233-235 logs that a record whose commit failed survives as
\* tree bytes "and the next append recommits it".
NextAppendRecommits ==
  \A w \in Writers : pen[w].step = "committed" => lost \cap Written \subseteq UNION {head[d] : d \in AllDays}
=============================================================================
