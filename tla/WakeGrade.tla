----------------------------- MODULE WakeGrade -----------------------------
(***************************************************************************)
(* tools/wake_grade.py: grade() reads one arm's session store while the    *)
(* harness appends to it.                                                  *)
(*                                                                         *)
(* The harness writes a line in pieces, and may die between two of them;   *)
(* what it writes next is then glued to the piece.  The grader reads line  *)
(* by line to the end of the file, and judges only then.  A line is what   *)
(* it would say if whole ("delivery"; "echo": the arm named in nested      *)
(* content only; "other": another kind, operation, session or arm), and    *)
(* how much of it there is.                                                *)
(***************************************************************************)
EXTENDS Naturals, Sequences

CONSTANTS
  None,
  MaxLines      \* model bound: lines of the session's store

VARIABLES
  exists,       \* is there a store file?
  lines,        \* the store: a sequence of [says, text]
  armValid,     \* _check_arm() and `kinds`: the question can be asked
  read,         \* lines read so far
  deliveries,   \* line numbers of the delivery records among them
  grading,      \* "asked", "reading" or "answered"
  outcome,
  promised      \* did the store hold, or begin, a delivery when grade() opened it? (history)

vars == <<exists, lines, armValid, read, deliveries, grading, outcome, promised>>
grader == <<armValid, read, deliveries, grading, outcome, promised>>

Says == {"delivery", "echo", "other"}
Texts == {"part", "whole", "ended", "glued"}
Outcomes == {"DELIVERED", "NOT-DELIVERED", "UNPARSEABLE", "STORE-ABSENT", "ARM-INVALID"}

Init == /\ exists \in BOOLEAN /\ lines = << >> /\ armValid \in BOOLEAN
        /\ read = 0 /\ deliveries = {} /\ grading = "asked"
        /\ outcome = None /\ promised = FALSE

-----------------------------------------------------------------------------
(* The harness.                                                            *)

Create == /\ ~exists /\ exists' = TRUE
          /\ UNCHANGED <<lines, grader>>

Last == lines[Len(lines)]

\* The first piece of a record, or with it all but the newline.  After a line
\* that was left without one it lengthens that line, unless the grader has taken
\* the line already: to it, the rest is a line of its own.
Taken == grading = "reading" /\ read = Len(lines)
BeginLine(s, t) ==
  /\ exists
  /\ IF lines = << >> \/ Taken \/ Last.text \in {"ended", "glued"}
       THEN /\ Len(lines) < MaxLines
            /\ lines' = Append(lines, [says |-> s, text |-> t])
       ELSE \* the harness died after the piece that is there
            lines' = [lines EXCEPT ![Len(lines)] =
                        [says |-> IF "delivery" \in {s, Last.says} THEN "delivery" ELSE s,
                         text |-> "glued"]]
  /\ UNCHANGED <<exists, grader>>

Complete ==
  /\ lines # << >> /\ Last.text \in {"part", "whole"}
  /\ lines' = [lines EXCEPT ![Len(lines)].text = IF @ = "part" THEN "whole" ELSE "ended"]
  /\ UNCHANGED <<exists, grader>>

-----------------------------------------------------------------------------
(* grade().                                                                *)

Give(o) == grading' = "answered" /\ outcome' = o

Refuse ==
  /\ grading = "asked" /\ ~(armValid /\ exists)
  /\ Give(IF ~armValid THEN "ARM-INVALID" ELSE "STORE-ABSENT")
  /\ UNCHANGED <<exists, lines, armValid, read, deliveries, promised>>

Open ==
  /\ grading = "asked" /\ armValid /\ exists
  /\ grading' = "reading"
  /\ promised' = \E k \in DOMAIN lines : lines[k].says = "delivery"
  /\ UNCHANGED <<exists, lines, armValid, read, deliveries, outcome>>

\* json.loads() takes a whole object, with or without its newline.
\* Mutant: a line that does not parse is skipped.
SkipBad(line) == TRUE
Parses(line) == line.text \in {"whole", "ended"}

\* The three conditions at the top level of the record.
Matches(line) == line.says = "delivery" /\ line.text \in {"whole", "ended"}

ReadLine ==
  /\ grading = "reading" /\ read < Len(lines)
  /\ read' = read + 1
  /\ IF Parses(lines[read + 1])
       THEN /\ deliveries' = deliveries \cup (IF Matches(lines[read + 1]) THEN {read + 1} ELSE {})
            /\ UNCHANGED <<grading, outcome>>
       ELSE /\ Give("UNPARSEABLE") /\ UNCHANGED deliveries
  /\ UNCHANGED <<exists, lines, armValid, promised>>

\* The end of the file: only now is the store judged.
Judge ==
  /\ grading = "reading" /\ read = Len(lines)
  /\ Give(IF deliveries # {} THEN "DELIVERED" ELSE "NOT-DELIVERED")
  /\ UNCHANGED <<exists, lines, armValid, read, deliveries, promised>>

Next == \/ Create \/ Complete \/ \E s \in Says, t \in {"part", "whole"} : BeginLine(s, t)
        \/ Refuse \/ Open \/ ReadLine \/ Judge

Spec == Init /\ [][Next]_vars

-----------------------------------------------------------------------------
(* Properties.                                                             *)

TypeOK ==
  /\ exists \in BOOLEAN /\ armValid \in BOOLEAN /\ promised \in BOOLEAN
  /\ lines \in Seq([says : Says, text : Texts]) /\ read \in 0 .. Len(lines)
  /\ deliveries \subseteq 1 .. read
  /\ grading \in {"asked", "reading", "answered"} /\ outcome \in Outcomes \cup {None}

\* NOT-DELIVERED is a fact about the store and not about the moment: no delivery
\* was there when grade() opened it, not even the beginning of one ("partial
\* parsing would let an unreadable tail be reported as a clean NOT-DELIVERED").
NotDeliveredIsFact == outcome = "NOT-DELIVERED" => ~promised
=============================================================================
