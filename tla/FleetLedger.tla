----------------------------- MODULE FleetLedger -----------------------------
(***************************************************************************)
(* tools/fleet_ledger.py: the append-only ledger of commissions.  A scribe *)
(* is a process that runs `open` or `set`: it reads the ledger if it sets, *)
(* looks whether there is one, begins it with its header if not, and       *)
(* appends a row.  Nothing is locked.                                      *)
(***************************************************************************)
EXTENDS Naturals, Sequences, FiniteSets

CONSTANTS
  Scribes,
  Commissions,
  Heading,       \* "commission_id", which the header has in the place of a commission
  Garbled,       \* what is in its place in a line that was cut there; no commission's id
  Columns,       \* columns that `set` fills or blanks, and "closed", a closing status
  Width,         \* how many columns a row has
  MaxRows,       \* bound on the rows
  MaxDeaths      \* bound on the scribes that end half way

\* A line has an id, the columns that are filled, how many columns there are, and
\* its end of line; and the line it was copied from, if that had its end (0: none).
Row(c, has, from) == [id |-> c, has |-> has, from |-> from, cols |-> Width, ended |-> TRUE]
Header == Row(Heading, Columns \ {"closed"}, 0)

VARIABLES
  exists, file,  \* is there a ledger, and its lines
  pc, row,       \* of each scribe: its next step, and the row it will append
  told,          \* history: the rows that scribes reported, and their lines
  peak, deaths   \* history: most scribes that ever ran at once; scribes that died

vars == <<exists, file, pc, row, told, peak, deaths>>
ledger == <<exists, file>>
history == <<told, deaths>>

\* The ledger may be the one that was kept so far.
Init == /\ exists \in BOOLEAN
        /\ file = IF exists THEN <<Header>> ELSE <<>>
        /\ pc = [s \in Scribes |-> "idle"] /\ row = [s \in Scribes |-> Header]
        /\ told = {} /\ peak = 0 /\ deaths = 0

-----------------------------------------------------------------------------
(* Reading.                                                                *)

\* read_rows(): the first line is the header, whatever it holds, and a line of too
\* few or too many columns is passed over.
\* Mutant: the first line is not skipped.
AllLines == {k \in DOMAIN file : file[k].cols = Width}
Rows == {k \in 2 .. Len(file) : file[k].cols = Width}

\* resolve_latest(): the newest row of a commission.
\* Mutant: the first one wins.
Oldest(c) == {k \in Rows : file[k].id = c /\ \A j \in Rows : file[j].id = c => k <= j}
Latest(c) == {k \in Rows : file[k].id = c /\ \A j \in Rows : file[j].id = c => j <= k}

\* cmd_report(): what nothing supersedes, and of it what is open.
Reported == {k \in Rows : k \in Latest(file[k].id)}
OpenRows == {k \in Reported : "closed" \notin file[k].has}

-----------------------------------------------------------------------------
(* Writing.                                                                *)

Running == {s \in Scribes : pc[s] # "idle"}
Runs(s, r) ==
  /\ pc[s] = "idle" /\ pc' = [pc EXCEPT ![s] = "looking"]
  /\ Len(file) + Cardinality(Running) < MaxRows
  /\ row' = [row EXCEPT ![s] = r]
  /\ peak' = IF peak > Cardinality(Running) THEN peak ELSE peak + 1
  /\ UNCHANGED <<ledger, history>>

Open(s, c) == Runs(s, Row(c, {}, 0))

\* cmd_set() refuses a commission it does not find, and copies the row it does.
Set(s, c, col) ==
  \E k \in Latest(c) : LET from == IF file[k].ended THEN k ELSE 0 IN
    \/ Runs(s, Row(c, file[k].has \cup {col}, from))
    \/ Runs(s, Row(c, file[k].has \ {col}, from))

Goes(s, from, to) == /\ pc[s] = from /\ pc' = [pc EXCEPT ![s] = to]
                     /\ UNCHANGED <<row, peak>>

\* ensure_ledger().
Look(s) == /\ Goes(s, "looking", IF exists THEN "appending" ELSE "creating")
           /\ UNCHANGED <<ledger, history>>
Create(s) == /\ Goes(s, "creating", "heading")
             /\ exists' = TRUE /\ UNCHANGED <<file, history>>

\* What there may be of a line when its write is cut short, and of a line l without
\* an end when r is appended to it: the last column of l and the first of r are one.
Pieces(r) ==
  {[id |-> IF n = 1 THEN Garbled ELSE r.id, has |-> h, from |-> 0, cols |-> n, ended |-> FALSE] :
     n \in 1 .. Width, h \in SUBSET r.has}
Glued(l, r) ==
  {[id |-> IF l.cols = 1 THEN Garbled ELSE l.id, has |-> h, from |-> 0,
    cols |-> l.cols + r.cols - 1, ended |-> r.ended] :
     h \in IF l.cols = 1 THEN {r.has} ELSE SUBSET Columns}

OpenEnded == file # <<>> /\ ~file[Len(file)].ended
Appends(r) ==
  IF OpenEnded THEN \E l \in Glued(file[Len(file)], r) : file' = [file EXCEPT ![Len(file)] = l]
  ELSE file' = Append(file, r)

WriteHeader(s) == /\ Goes(s, "heading", "appending")
                  /\ Appends(Header) /\ UNCHANGED <<exists, history>>

\* append_row().
Told(r, k) == [line |-> k, id |-> r.id, has |-> r.has]
AppendRow(s) == /\ Goes(s, "appending", "idle") /\ Appends(row[s])
                /\ told' = told \cup {Told(row[s], Len(file'))}
                /\ UNCHANGED <<exists, deaths>>

\* The process ends, or a write fails: it tells nobody, and leaves nothing, or some
\* or all of the line that it was writing.
Dies(s) == /\ pc[s] # "idle" /\ Goes(s, pc[s], "idle")
           /\ deaths < MaxDeaths /\ deaths' = deaths + 1
           /\ UNCHANGED <<exists, told>>
Die(s) == Dies(s) /\ UNCHANGED file
DieWriting(s) ==
  /\ pc[s] \in {"heading", "appending"} /\ Dies(s)
  /\ LET r == IF pc[s] = "heading" THEN Header ELSE row[s] IN
       \E p \in Pieces(r) \cup {r} : Appends(p)

Next == \E s \in Scribes :
          \/ \E c \in Commissions : Open(s, c) \/ \E col \in Columns : Set(s, c, col)
          \/ Look(s) \/ Create(s) \/ WriteHeader(s) \/ AppendRow(s) \/ Die(s) \/ DieWriting(s)
Spec == Init /\ [][Next]_vars

-----------------------------------------------------------------------------
(* Properties.                                                             *)

TypeOK ==
  /\ exists \in BOOLEAN /\ peak \in Nat /\ deaths \in 0 .. MaxDeaths
  /\ file \in Seq([id : Commissions \cup {Heading, Garbled}, has : SUBSET Columns, from : Nat,
                   cols : Nat \ {0}, ended : BOOLEAN])
  /\ pc \in [Scribes -> {"idle", "looking", "creating", "heading", "appending"}]
  /\ told \subseteq [line : Nat, id : Commissions, has : SUBSET Columns]

\* A row that a scribe reported is read as it was written, whoever wrote beside it,
\* but for one for each scribe that ended half way, to whose piece of a line it was
\* appended, and the row that came where the header should be.
Read(t) == t.line \in Rows /\ file[t.line].id = t.id /\ file[t.line].has = t.has
Unread == {t \in told : ~Read(t)}
Headless == file # <<>> /\ file[1] # Header
RowsAreRead == Cardinality(Unread) <= deaths + (IF Headless THEN 1 ELSE 0)

\* What nobody opened is not in the report either, and every ledger has its header,
\* unless scribes ran beside one another or ended half way.
HeaderIsFirst ==
  peak <= 1 /\ deaths = 0 => /\ ~Headless
                             /\ \A k \in OpenRows : \E t \in told : t.id = file[k].id

\* "changes ONE field": a row that supersedes another is a copy of it but for one
\* column; and of what was latest when it was written, unless scribes ran at once.
OneFieldChanges ==
  \A k \in 2 .. Len(file) :
    LET old == file[k].from IN
    old # 0 =>
      /\ old \in Rows /\ old < k /\ file[old].id = file[k].id
      /\ \E col \in Columns : file[k].has \ {col} = file[old].has \ {col}
      /\ peak <= 1 => \A j \in Rows : old < j /\ j < k => file[j].id # file[k].id

\* What a scribe is told is in the ledger, and what the report says is what scribes wrote.
LedgerIsKept == RowsAreRead /\ HeaderIsFirst /\ OneFieldChanges
=============================================================================
