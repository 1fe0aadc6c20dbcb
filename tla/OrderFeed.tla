------------------------------ MODULE OrderFeed ------------------------------
(***************************************************************************)
(* The order-events API of case 4 (cmd/seeder) and the flow that reads it. *)
(* The server makes a pool of events when it starts and serves it page by  *)
(* page; the client keeps the cursor of the next page.  Flow 1 publishes   *)
(* each event of a page to Kafka, drops it or puts it into the backlog,    *)
(* and saves the cursor in AuxDB once the page is done; it is not in the   *)
(* repository and is modelled from the plan (5.1, 6.4).                    *)
(*                                                                         *)
(* A request is one action: the pool never changes while the server runs.  *)
(* A cursor is an index into the pool, and NoCursor is the empty string.   *)
(* An event is its index, its fault, and the start of the server from      *)
(* which its created_at is counted.                                        *)
(***************************************************************************)
EXTENDS Integers, Sequences, FiniteSets, SequencesExt

CONSTANTS MaxTotal,      \* bound: events in a pool
          Totals,        \* values of TOTAL_EVENTS
          Rates,         \* values of FAULT_RATE
          Limits,        \* limits a client asks for
          DefaultLimit,  \* 500
          MaxLimit,      \* 1000
          NoCursor,
          MaxRestarts,   \* bound: restarts of the server
          MaxKills,      \* bound: kills of the flow and requests that fail
          MaxStarts      \* bound: starts of the flow

ASSUME FeedAssumption ==
  /\ MaxTotal \in Nat /\ Totals \subseteq 1..MaxTotal /\ Rates \subseteq Nat /\ Limits \subseteq Int
  /\ MaxLimit \in Nat /\ DefaultLimit \in 1..MaxLimit
  /\ NoCursor \notin Int
  /\ MaxRestarts \in Nat /\ MaxKills \in Nat /\ MaxStarts \in Nat

\* The server.
VARIABLES total, rate,   \* TOTAL_EVENTS and FAULT_RATE
          build          \* the start of the server that made the pool

\* Flow 1, and what it writes to.
VARIABLES at,            \* "stopped", "asking", "publishing" or "ended"
          asked,         \* the limit it asks for
          cursor,        \* the cursor of its next request
          page,          \* the answer: events, next_cursor, has_more, and the
                         \* size of the pool it was cut from
          saved,         \* zepto_ingestion_cursors.last_cursor
          topic, backlog, dropped

\* History.
VARIABLES starts, kills,
          rounds,        \* how often the empty cursor has been saved
          times          \* times[i]: how often event i has been settled

serverVars == <<total, rate, build>>
flowVars == <<at, asked, cursor, page, saved>>
sinks == <<topic, backlog, dropped>>
history == <<starts, kills, rounds, times>>
vars == <<serverVars, flowVars, sinks, history>>

-----------------------------------------------------------------------------
(* The pool: GenerateMixed *)

Interval == IF rate \in 1..100 THEN 100 \div rate ELSE 0

IsFaulty(i) == Interval > 0 /\ (i + 1) % Interval = 0

Kinds == <<"no city", "bad date", "inject">>

Turn(faultSeq) == Kinds[(faultSeq % 3) + 1]

FaultSkips(i) ==   \* mutated FaultOf: the kind of fault goes by the event's index
  IF IsFaulty(i) THEN Turn(i) ELSE "none"

\* The three kinds of fault take turns.
FaultOf(i) ==
  IF IsFaulty(i) THEN Turn((i + 1) \div Interval - 1) ELSE "none"

Event(i) == [index |-> i, fault |-> FaultOf(i), build |-> build]

-----------------------------------------------------------------------------
(* A request: ServeHTTP *)

LimitOf(n) == IF n \in 1..MaxLimit THEN n ELSE DefaultLimit

\* An empty cursor, or one that does not parse, begins at the first event.
ParseCursor(c) == IF c \in Nat THEN c ELSE 0

NextOverlaps(end) ==   \* mutated NextCursor: the index of the last event served
  IF end < total THEN end - 1 ELSE NoCursor

NextSkips(end) ==   \* mutated NextCursor: one past the first event not served
  IF end < total THEN end + 1 ELSE NoCursor

\* No next cursor on the last page.
NextCursor(end) == IF end < total THEN end ELSE NoCursor

Answer(events, next, more) ==
  [events |-> events, next |-> next, more |-> more, of |-> total]

Respond(c, limit) ==
  LET start == ParseCursor(c)
      end == IF start + LimitOf(limit) > total THEN total ELSE start + LimitOf(limit)
  IN  IF start >= total
      THEN Answer(<<>>, NoCursor, FALSE)
      ELSE Answer([n \in 1..end - start |-> Event(start + n - 1)],
                  NextCursor(end), end < total)

\* The process starts over, maybe with another number of events; the pool is
\* made again, its dates counted from now.
Restart ==
  /\ build < MaxRestarts
  /\ build' = build + 1
  /\ total' \in Totals
  /\ UNCHANGED <<rate, flowVars, sinks, history>>

-----------------------------------------------------------------------------
(* Flow 1 *)

Idle == [events |-> <<>>, next |-> NoCursor, more |-> FALSE, of |-> 0]

StartFlow ==
  /\ at \in {"stopped", "ended"} /\ starts < MaxStarts
  /\ at' = "asking"
  /\ asked' \in Limits
  /\ cursor' = saved
  /\ page' = Idle
  /\ starts' = starts + 1
  /\ UNCHANGED <<serverVars, saved, sinks, kills, rounds, times>>

GetPage ==
  /\ at = "asking"
  /\ page' = Respond(cursor, asked)
  /\ at' = "publishing"
  /\ UNCHANGED <<serverVars, asked, cursor, saved, sinks, history>>

\* An event without a city is dropped, and one that asks for an error goes to the
\* backlog; a bad date passes for the time being.
SettleEvent ==
  /\ at = "publishing" /\ page.events # <<>>
  /\ LET event == Head(page.events) IN
       /\ dropped' = dropped \union (IF event.fault = "no city" THEN {event} ELSE {})
       /\ backlog' = backlog \union (IF event.fault = "inject" THEN {event} ELSE {})
       /\ topic' = topic \union
                     (IF event.fault \in {"none", "bad date"} THEN {event} ELSE {})
       /\ times' = [times EXCEPT ![event.index] = @ + 1]
  /\ page' = [page EXCEPT !.events = Tail(@)]
  /\ UNCHANGED <<serverVars, at, asked, cursor, saved, starts, kills, rounds>>

\* The cursor is saved as the answer had it, and the flow goes on as long as
\* there is more.
SaveCursor ==
  /\ at = "publishing" /\ page.events = <<>>
  /\ saved' = page.next /\ cursor' = page.next
  /\ rounds' = IF page.next = NoCursor THEN rounds + 1 ELSE rounds
  /\ at' = IF page.more THEN "asking" ELSE "ended"
  /\ UNCHANGED <<serverVars, asked, page, sinks, starts, kills, times>>

\* The flow is killed, or its request fails: refused with 405 or 401 without a
\* token, or lost.
FlowFails ==
  /\ at \in {"asking", "publishing"} /\ kills < MaxKills
  /\ at' = "stopped" /\ kills' = kills + 1
  /\ UNCHANGED <<serverVars, asked, cursor, page, saved, sinks, starts, rounds, times>>

-----------------------------------------------------------------------------

Indices == 0..MaxTotal - 1

Init ==
  /\ total \in Totals /\ rate \in Rates /\ build = 0
  /\ at = "stopped" /\ asked = DefaultLimit
  /\ cursor = NoCursor /\ saved = NoCursor /\ page = Idle
  /\ topic = {} /\ backlog = {} /\ dropped = {}
  /\ starts = 0 /\ kills = 0 /\ rounds = 0
  /\ times = [i \in Indices |-> 0]

FlowStep == GetPage \/ SettleEvent \/ SaveCursor \/ FlowFails

Next == Restart \/ StartFlow \/ FlowStep

Spec == Init /\ [][Next]_vars

\* A flow that runs goes on, and is started again when it is down.
FairSpec == Spec /\ WF_vars(FlowStep) /\ WF_vars(StartFlow)

-----------------------------------------------------------------------------
(* Properties *)

Events == [index : Indices, build : 0..MaxRestarts,
           fault : Range(Kinds) \union {"none"}]

TypeOK ==
  /\ total \in Totals /\ rate \in Rates /\ build \in 0..MaxRestarts
  /\ at \in {"stopped", "asking", "publishing", "ended"}
  /\ {cursor, saved, page.next} \subseteq 1..MaxTotal - 1 \union {NoCursor}
  /\ Range(page.events) \subseteq Events /\ page.of \in 0..MaxTotal
  /\ page.more = (page.next # NoCursor)
  /\ topic \union backlog \union dropped \subseteq Events
  /\ starts \in 0..MaxStarts /\ kills \in 0..MaxKills
  /\ rounds \in 0..MaxStarts /\ times \in [Indices -> Nat]

ReadUpTo == IF at = "ended" THEN page.of ELSE ParseCursor(saved)

\* Everything before the saved cursor has been published, dropped or put into
\* the backlog, though the flow is killed between any two events and the server
\* comes back with another pool: no page is skipped.  A flow that ends because
\* there is no more has settled the whole pool its last page was cut from,
\* whatever pools its earlier pages came from.
NothingSkipped == \A i \in Indices : i < ReadUpTo => times[i] > 0

\* The plan says that on a restart no event is published again (section 4.1 of
\* case_4_etl_casestudy_plan.md, line 266).  That is not so: the feed read to its
\* end leaves the empty cursor, with which the next start reads everything once
\* more, and a flow killed before it saved the cursor of a page repeats that page.
\* What holds is that each such end and each kill repeats an event at most once,
\* and that an event goes each time where it went before, though a restarted
\* server has made it anew with another created_at (events.go, lines 5 to 7).
RepeatsAreAccounted ==
  /\ \A i \in Indices : times[i] <= 1 + rounds + kills
  /\ \A d, e \in topic \union backlog \union dropped :
       d.index = e.index => d.fault = e.fault
  /\ \A e \in backlog, d \in dropped, t \in topic :
       e.index # d.index /\ e.index # t.index /\ d.index # t.index

\* The faults are never fewer than FAULT_RATE asks for, and the three kinds of
\* them are as many as each other, give or take one.
FaultsTakeTurns ==
  LET Of(kinds) == Cardinality({i \in 0..total - 1 : FaultOf(i) \in kinds})
  IN  /\ rate <= 100 => Of(Range(Kinds)) >= (total * rate) \div 100
      /\ \A k, m \in Range(Kinds) : Of({k}) <= Of({m}) + 1

\* Started more often than it is killed, the flow settles all there is.
FeedSettles == <>(\A i \in 0..total - 1 : times[i] > 0)
=============================================================================
