--------------------------- MODULE PreviewBinding ---------------------------
(***************************************************************************)
(* tools/d5_write_path: a preview shows a client what an append would put  *)
(* on the lane and hands out a binding to it, without lock, write or       *)
(* session; the append that presents the binding must do just that.  In    *)
(* between other clients append, people edit the lane, the date rolls      *)
(* over, and the client may have altered the binding or the request.  The  *)
(* handlers are not in the repository: they run the checks of binding.py   *)
(* in the order its head pins, and write with fdio.write_all().            *)
(***************************************************************************)
EXTENDS Naturals, Sequences, SequencesExt, FiniteSets

CONSTANTS
  Clients,
  Dates,         \* the dates of lanes are 1..Dates
  MaxLength,     \* bound on the pieces of a lane
  MaxPreviews    \* bound on the previews

VARIABLES
  today,
  lanes,     \* of each date: absent, or its pieces
  minted,    \* the bindings handed out; only these have a MAC that verifies
  flight,    \* the append of each client: its step, its binding and what is left to write
  refusal    \* the cause its last append was refused with, and whether there was one (history)

vars == <<today, lanes, minted, flight, refusal>>

AllDates == 1..Dates
\* What is previewed, and what a client may ask for instead.
Bodies == {"body", "other body"}
Requests == {"request", "other request"}

-----------------------------------------------------------------------------
(* Lanes and emissions.                                                    *)

Absent == [present |-> FALSE, data |-> <<>>]
EndsInLf(data) == data # <<>> /\ Last(data) \in {"LF", "epoch", "supersedes", "end"}

\* observe_lane_state(): size and hash of the whole lane, its final byte, its epoch.
Observe(lane) ==
  [present |-> lane.present, size |-> Len(lane.data), prefix |-> lane.data,
   lf |-> EndsInLf(lane.data), epoch |-> Contains(lane.data, "epoch")]

\* The complete emission: a line feed and an epoch marker where the lane lacks them, the
\* line that names what a correction supersedes, and the entry.
Emission(lane, body, correction) ==
  (IF lane.data # <<>> /\ ~EndsInLf(lane.data) THEN <<"LF">> ELSE <<>>)
    \o (IF Contains(lane.data, "epoch") THEN <<>> ELSE <<"epoch">>)
    \o (IF correction THEN <<"supersedes">> ELSE <<>>)
    \o <<body, "end">>

\* build_pv(), for an entry on today's lane or a correction on the lane of its sidecar.
Binding(date, request, body, correction) ==
  [date |-> date, request |-> request, state |-> Observe(lanes[date]),
   emission |-> Emission(lanes[date], body, correction), correction |-> correction]

\* assert_pv_shape(), verify_pv_mac(): nobody but build_pv() can mint a binding.
Verified(pv) == pv \in minted
\* verify_request_matches_pv(), refuse_correction_on_append_route().
Matches(pv, request) == pv.request = request
WrongRoute(pv, route) == pv.correction /\ route = "append"

\* compare_state_anchor(): the date first, of which a correction is exempt.
Anchored(pv, lane) ==
  /\ pv.correction \/ pv.date = today
  /\ pv.state = Observe(lane)
\* compare_emission(): the length and the hash.
Emits(pv, lane, body) == Emission(lane, body, pv.correction) = pv.emission

\* The order under the lock: a lane that moved is stale, whatever it would emit.
EmissionFirst(pv, lane, body) ==
  IF ~Emits(pv, lane, body) THEN "binding-invalid"
    ELSE IF ~Anchored(pv, lane) THEN "PREVIEW_STALE" ELSE "none"
UnderLock(pv, lane, body) ==
  IF ~Anchored(pv, lane) THEN "PREVIEW_STALE"
    ELSE IF ~Emits(pv, lane, body) THEN "binding-invalid" ELSE "none"

-----------------------------------------------------------------------------
(* Clients.                                                                *)

NoBinding == [request |-> "none"]
Resting == [step |-> "rest", pv |-> NoBinding, body |-> "none", rest |-> <<>>]
Unrefused == [cause |-> "none", due |-> TRUE]
Locked == \E c \in Clients : flight[c].step = "write"

Preview ==
  /\ Cardinality(minted) < MaxPreviews
  /\ \/ minted' = minted \cup {Binding(today, "request", "body", FALSE)}
     \/ \E date \in AllDates :
          /\ date <= today /\ lanes[date].present
          /\ minted' = minted \cup {Binding(date, "request", "body", TRUE)}
  /\ UNCHANGED <<today, lanes, flight, refusal>>

\* A client presents a binding as it got it or with another date.
Presented == minted \cup UNION {{[pv EXCEPT !.date = d] : d \in AllDates} : pv \in minted}
Refuse(c, cause, due) ==
  /\ flight' = [flight EXCEPT ![c] = Resting]
  /\ refusal' = [refusal EXCEPT ![c] = [cause |-> cause, due |-> due]]

\* Before the lock, in this order: the MAC, the request, the route.
Submit(c) ==
  /\ flight[c].step = "rest"
  /\ \/ /\ \E pv \in Presented, request \in Requests : ~(Verified(pv) /\ Matches(pv, request))
        /\ Refuse(c, "binding-invalid", TRUE)
     \/ /\ \E pv \in Presented : Verified(pv) /\ WrongRoute(pv, "append")
        /\ Refuse(c, "wrong-route", TRUE)
     \/ /\ \E pv \in Presented, body \in Bodies :
             /\ Verified(pv) /\ Matches(pv, "request")
             /\ flight' = [flight EXCEPT ![c] = [step |-> "lock", pv |-> pv, body |-> body,
                                                 rest |-> <<>>]]
        /\ refusal' = [refusal EXCEPT ![c] = Unrefused]
  /\ UNCHANGED <<today, lanes, minted>>

\* Under the lock, on the handle it will write through.
Lock(c) ==
  /\ flight[c].step = "lock" /\ ~Locked
  /\ LET pv == flight[c].pv
         lane == lanes[pv.date]
         cause == UnderLock(pv, lane, flight[c].body)
         moved == lane # [present |-> pv.state.present, data |-> pv.state.prefix]
                    \/ (~pv.correction /\ pv.date # today)
         meant == Contains(pv.emission, flight[c].body)
     IN \/ /\ cause = "none"
           /\ flight' = [flight EXCEPT ![c].step = "write", ![c].rest = pv.emission]
           /\ lanes' = [lanes EXCEPT ![pv.date].present = TRUE]
           /\ UNCHANGED refusal
        \/ /\ cause # "none"
           /\ Refuse(c, cause, IF cause = "PREVIEW_STALE" THEN moved ELSE ~meant)
           /\ UNCHANGED lanes
  /\ UNCHANGED <<today, minted>>

\* write_all(): os.write() takes some of what is left; none at all is an error, and what
\* has been written stays.
Write(c) ==
  /\ flight[c].step = "write" /\ flight[c].rest # <<>>
  /\ LET pv == flight[c].pv  rest == flight[c].rest IN
     \E n \in 1..Len(rest) :
       /\ lanes' = [lanes EXCEPT ![pv.date].data = @ \o SubSeq(rest, 1, n)]
       /\ flight' = [flight EXCEPT ![c].rest = SubSeq(rest, n + 1, Len(rest))]
  /\ UNCHANGED <<today, minted, refusal>>
Done(c) ==
  /\ flight[c].step = "write" /\ flight[c].rest = <<>>
  /\ flight' = [flight EXCEPT ![c] = Resting]
  /\ UNCHANGED <<today, lanes, minted, refusal>>
\* No progress, or the server is killed: the lock is gone with its holder.
Fail(c) ==
  /\ flight[c].step # "rest"
  /\ flight' = [flight EXCEPT ![c] = Resting]
  /\ UNCHANGED <<today, lanes, minted, refusal>>

\* People add to a lane, or change its end, while nobody holds it.
Edit ==
  /\ ~Locked
  /\ \E date \in AllDates, piece \in {"note", "LF"} :
       /\ date <= today
       /\ \/ /\ Len(lanes[date].data) < MaxLength
             /\ lanes' = [lanes EXCEPT ![date] = [present |-> TRUE, data |-> Append(@.data, piece)]]
          \/ /\ lanes[date].data # <<>>
             /\ lanes' = [lanes EXCEPT ![date].data = Append(Front(@), piece)]
  /\ UNCHANGED <<today, minted, flight, refusal>>
Rollover ==
  /\ today < Dates
  /\ today' = today + 1
  /\ UNCHANGED <<lanes, minted, flight, refusal>>

Init ==
  /\ today = 1 /\ lanes = [d \in AllDates |-> Absent] /\ minted = {}
  /\ flight = [c \in Clients |-> Resting] /\ refusal = [c \in Clients |-> Unrefused]

Handle(c) == Submit(c) \/ Lock(c) \/ Write(c) \/ Done(c) \/ Fail(c)
Next == Preview \/ Edit \/ Rollover \/ \E c \in Clients : Handle(c)

Spec == Init /\ [][Next]_vars

-----------------------------------------------------------------------------
(* Properties.                                                             *)

\* Every variable has its type.
TypeOK ==
  /\ today \in AllDates /\ DOMAIN lanes = AllDates
  /\ \A d \in AllDates : lanes[d].present \in BOOLEAN /\ (lanes[d].data # <<>> => lanes[d].present)
  /\ \A c \in Clients :
       /\ flight[c].step \in {"rest", "lock", "write"}
       /\ refusal[c].cause \in {"none", "binding-invalid", "wrong-route", "PREVIEW_STALE"}
  /\ Cardinality({c \in Clients : flight[c].step = "write"}) <= 1

\* An append that runs to its end has put exactly the emission that its preview showed
\* onto exactly the lane that its preview showed it on, one client at a time.
AppendsWhatWasShown ==
  \A c \in Clients : flight[c].step = "write" =>
    LET pv == flight[c].pv IN
      /\ pv \in minted
      /\ lanes[pv.date].data \o flight[c].rest = pv.state.prefix \o pv.emission

\* A refusal names its cause: stale only if the lane or the date moved, invalid only if
\* the client asks for something else than it was shown.
CausesAreTrue == \A c \in Clients : refusal[c].due

BindingHolds == AppendsWhatWasShown /\ CausesAreTrue
=============================================================================
