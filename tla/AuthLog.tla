------------------------------ MODULE AuthLog ------------------------------
(***************************************************************************)
(* tools/validate_auth_log.py over logs that grow.  Every role appends     *)
(* events to its own log, in the schema of proxy-auth-core.md, complete or *)
(* not, true or not; `reading` is what parse_log() makes of each log, line *)
(* by line, and Clean what check() says of all of them.                    *)
(***************************************************************************)
EXTENDS Naturals, Sequences, FiniteSets, Functions

CONSTANTS
  Roles, Grants, \* the writers of a log each, and what they grant
  MaxScope, MaxIds,
  MaxEvents,     \* bound on the events of all logs
  NoId

Relays == Grants \X {"R"} \X (1 .. MaxIds)
Directs == Grants \X {"D"} \X (1 .. MaxIds)

\* A "stray" event is another heading with a source: line under it.
Events ==
  [is : {"grant"}, of : Grants, scope : 1 .. MaxScope] \cup
  [is : {"relay", "received", "unsourced"}, of : Relays] \cup
  [is : {"consumed"}, of : Relays \cup Directs] \cup
  [is : {"stray"}]

VARIABLES events, reading
vars == <<events, reading>>

-----------------------------------------------------------------------------
(* parse_log().                                                            *)

Pending == <<"pending">>
Line(is, of) == [is |-> is, of |-> of]
\* A grant has a scope once it is read; a received block has the line of its
\* source:, or 0; a spend is a consumption id with its line.
Unread == [cur |-> NoId, in |-> NoId, n |-> 0, scope |-> <<>>, relays |-> {},
           received |-> <<>>, spends |-> {}]

With(f, x, y) == [z \in DOMAIN f \cup {x} |-> IF z = x THEN y ELSE f[z]]

\* Mutant: another heading leaves a RECEIVED block open.
LeftOpen(d) == d
Closed(d) == [d EXCEPT !.in = NoId]

ReadLine(was, l) ==
  LET d == [was EXCEPT !.n = @ + 1] IN
  CASE l.is = "head" -> [d EXCEPT !.cur = NoId, !.in = Pending]
    [] l.is = "grant" -> [d EXCEPT !.cur = l.of, !.in = NoId, !.scope = With(@, l.of, 1)]
    [] l.is = "heading" -> Closed(d)
    [] l.is = "scope" /\ d.cur # NoId -> [d EXCEPT !.scope = With(@, d.cur, l.of)]
    [] l.is = "relay" -> [d EXCEPT !.relays = @ \cup {l.of}]
    [] l.is = "id" /\ d.in # NoId -> [d EXCEPT !.in = l.of, !.received = With(@, l.of, 0)]
    [] l.is = "source" /\ d.in \notin {NoId, Pending} ->
         [d EXCEPT !.received = With(@, d.in, d.n)]
    [] l.is = "consumed" -> [d EXCEPT !.spends = @ \cup {<<l.of, d.n>>}]
    [] OTHER -> d

\* The lines of an event, one after the other.
ReadEvent(was, e) ==
  LET Reads(k, l) == ReadLine(ReadLine(was, k), l)
      block == Reads(Line("head", NoId), Line("id", e.of))
  IN  CASE e.is = "grant" -> Reads(Line("grant", e.of), Line("scope", e.scope))
        [] e.is = "received" -> ReadLine(block, Line("source", NoId))
        [] e.is = "unsourced" -> block
        [] e.is = "stray" -> Reads(Line("heading", NoId), Line("source", NoId))
        [] OTHER -> ReadLine(was, Line(e.is, e.of))

-----------------------------------------------------------------------------
(* check().                                                                *)

Sent == UNION {reading[r].relays : r \in Roles}
Spent == {c \in Roles \X UNION {reading[r].spends : r \in Roles} : c[2] \in reading[c[1]].spends}

\* Mutant: duplicates are looked for in one log at a time.
OncePerLog == \A c, d \in Spent : c[1] = d[1] /\ c[2][1] = d[2][1] => c = d
OnceAnywhere == \A c, d \in Spent : c[2][1] = d[2][1] => c = d

SpendOK(d, id, n) ==
  IF id \in Relays
    THEN id \in DOMAIN d.received /\ (d.received[id] # 0 => n >= d.received[id])
    ELSE id[1] \in DOMAIN d.scope

\* Mutant: relayed and direct spends are held against the scope apart.
CountedApart(d, g) == Cardinality({id \in d.relays : id[1] = g})
SpendsOf(d, g) ==
  Cardinality({id \in d.relays \cup ({s[1] : s \in d.spends} \cap Directs) : id[1] = g})

LogOK(d) ==
  /\ \A s \in d.spends : SpendOK(d, s[1], s[2])
  /\ \A id \in d.relays : id[1] \in DOMAIN d.scope
  /\ \A id \in DOMAIN d.received : id \in Sent /\ d.received[id] # 0
  /\ \A g \in DOMAIN d.scope : SpendsOf(d, g) <= d.scope[g]

Clean == OnceAnywhere /\ \A r \in Roles : LogOK(reading[r])

-----------------------------------------------------------------------------
Init == events = [r \in Roles |-> <<>>] /\ reading = [r \in Roles |-> Unread]

Length == FoldFunction(LAMBDA s, n : Len(s) + n, 0, events)

\* A log in which an id is consumed twice never becomes clean again.
AppendEvent(r, e) ==
  /\ Length < MaxEvents /\ OnceAnywhere
  /\ events' = [events EXCEPT ![r] = Append(@, e)]
  /\ reading' = [reading EXCEPT ![r] = ReadEvent(@, e)]

Next == \E r \in Roles, e \in Events : AppendEvent(r, e)
Spec == Init /\ [][Next]_vars

-----------------------------------------------------------------------------
(* Properties.                                                             *)

TypeOK ==
  /\ events \in [Roles -> Seq(Events)]
  /\ \A r \in Roles : /\ DOMAIN reading[r].scope \subseteq Grants
                      /\ DOMAIN reading[r].received \subseteq Relays
                      /\ reading[r].n \in Len(events[r]) .. 3 * Len(events[r])

\* The audit rule, read off the events and not off the lines: what is clean has
\* no action authorised twice by one id in any two logs, no grant spent beyond
\* the scope it was given, by relay and directly together, and no relayed spend
\* before a complete record of a relay that was really sent.
At(r) == DOMAIN events[r]
Is(r, i, kind, of) == events[r][i].is = kind /\ events[r][i].of = of
OnceEach ==
  \A id \in Relays \cup Directs :
    Cardinality(UNION {{<<r, i>> : i \in {j \in At(r) : Is(r, j, "consumed", id)}} : r \in Roles}) <= 1
WithinScope ==
  \A r \in Roles : \A i \in At(r) :
    LET g == events[r][i].of
        spent == {events[r][j].of : j \in {j \in At(r) :
                   \/ events[r][j].is = "relay" /\ events[r][j].of[1] = g
                   \/ events[r][j].is = "consumed" /\ events[r][j].of \in Directs /\ events[r][j].of[1] = g}}
    IN  events[r][i].is = "grant" /\ (\A j \in At(r) : j > i => ~Is(r, j, "grant", g)) =>
          Cardinality(spent) <= events[r][i].scope
RecordedFirst ==
  \A r \in Roles : \A i \in At(r) :
    events[r][i].is = "consumed" /\ events[r][i].of \in Relays =>
      /\ \E j \in At(r) : j < i /\ Is(r, j, "received", events[r][i].of)
      /\ \E s \in Roles : \E j \in At(s) : Is(s, j, "relay", events[r][i].of)
CleanMeansAuthorised == Clean => OnceEach /\ WithinScope /\ RecordedFirst
=============================================================================
