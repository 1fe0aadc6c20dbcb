-------------------------- MODULE OrderFeedProofs --------------------------
(***************************************************************************)
(* Proofs about OrderFeed: its types, that a cursor passes over no event,  *)
(* that every repetition has a reason, and that a pool has the faults that *)
(* were asked for, of each kind as many.                                   *)
(***************************************************************************)
EXTENDS OrderFeed, FiniteSetTheorems, TLAPS

Cursors == 1..MaxTotal - 1 \union {NoCursor}

Pages == [events : Seq(Events), next : Cursors, more : BOOLEAN, of : 0..MaxTotal]

Running == at \in {"asking", "publishing"}

Types ==
  /\ total \in Totals /\ rate \in Rates /\ build \in 0..MaxRestarts
  /\ at \in {"stopped", "asking", "publishing", "ended"}
  /\ asked \in Int /\ cursor \in Cursors /\ saved \in Cursors
  /\ page \in Pages /\ page.more = (page.next # NoCursor)
  /\ topic \subseteq Events /\ backlog \subseteq Events /\ dropped \subseteq Events
  /\ starts \in 0..MaxStarts /\ kills \in 0..MaxKills
  /\ rounds \in 0..starts /\ (Running => rounds < starts)
  /\ times \in [Indices -> Nat]

\* Where a page ends in the pool it was cut from.
EndOf(p) == IF p.next = NoCursor THEN p.of ELSE p.next

\* Event i comes after a page that is not the last one.
Behind(p, i) == p.next # NoCursor /\ i >= p.next

\* Event i is still to be settled.
OnPage(p, i) == \E k \in 1..Len(p.events) : p.events[k].index = i

\* What lies before the cursor is settled; what lies before the end of the page
\* in hand is settled or still on it.
Settled ==
  /\ \A i \in Indices : i < ParseCursor(saved) => times[i] > 0
  /\ at = "asking" => cursor = saved
  /\ at = "publishing" => \A i \in Indices : i < EndOf(page) => times[i] > 0 \/ OnPage(page, i)
  /\ at = "ended" => \A i \in Indices : i < page.of => times[i] > 0

\* What is on a page, each event once, or behind it has not been settled in
\* this round.
Unsettled(i) == times[i] <= rounds + kills

Fresh ==
  /\ \A i \in Indices : times[i] <= 1 + rounds + kills
  /\ at \in {"stopped", "ended"} => \A i \in Indices : Unsettled(i)
  /\ at = "asking" => \A i \in Indices : i >= ParseCursor(cursor) => Unsettled(i)
  /\ at = "publishing" =>
       /\ \A i \in Indices : OnPage(page, i) \/ Behind(page, i) => Unsettled(i)
       /\ \A j, k \in 1..Len(page.events) :
            j # k => page.events[j].index # page.events[k].index
       /\ \A i \in Indices : OnPage(page, i) => ~Behind(page, i)

IInv == Types /\ Settled /\ Fresh

-----------------------------------------------------------------------------
(* The server's answer *)

LEMMA KindsRange ==
  /\ DOMAIN Kinds = 1..3
  /\ \A n \in 1..3 : Kinds[n] \in Range(Kinds)
PROOF
<1>1. DOMAIN Kinds = 1..3
  BY DEF Kinds
<1> QED
  BY <1>1 DEF Range

LEMMA TurnType ==
  ASSUME NEW n \in Int
  PROVE  Turn(n) \in Range(Kinds)
PROOF
<1>1. (n % 3) + 1 \in 1..3
  OBVIOUS
<1> QED
  BY <1>1, KindsRange DEF Turn

LEMMA EventType ==
  ASSUME build \in 0..MaxRestarts, rate \in Nat, NEW i \in Indices
  PROVE  Event(i) \in Events /\ Event(i).index = i
PROOF
<1>1. Interval \in Int
  <2>1. CASE rate \in 1..100
    BY <2>1 DEF Interval
  <2>2. CASE rate \notin 1..100
    BY <2>2 DEF Interval
  <2> QED
    BY <2>1, <2>2
<1>2. FaultOf(i) \in Range(Kinds) \union {"none"}
  <2>1. CASE IsFaulty(i)
    <3>1. Interval > 0
      BY <2>1 DEF IsFaulty
    <3>2. i + 1 \in Int
      BY FeedAssumption DEF Indices
    <3>3. (i + 1) \div Interval - 1 \in Int
      BY <1>1, <3>1, <3>2
    <3> HIDE DEF Turn
    <3> QED
      BY <2>1, <3>3, TurnType DEF FaultOf
  <2>2. CASE ~IsFaulty(i)
    BY <2>2 DEF FaultOf
  <2> QED
    BY <2>1, <2>2
<1> QED
  BY <1>2 DEF Event, Events

\* An answer has the events from the cursor to its end, each once.
LEMMA AnswerIsRight ==
  ASSUME total \in Totals, build \in 0..MaxRestarts, rate \in Nat,
         NEW c \in Cursors, NEW limit \in Int
  PROVE  LET p == Respond(c, limit) IN
         /\ p \in Pages /\ p.more = (p.next # NoCursor) /\ p.of = total
         /\ \A i \in Indices : ParseCursor(c) <= i /\ i < EndOf(p) => OnPage(p, i)
         /\ \A i \in Indices : OnPage(p, i) \/ Behind(p, i) => i >= ParseCursor(c)
         /\ \A i \in Indices : OnPage(p, i) => ~Behind(p, i)
         /\ \A j, k \in 1..Len(p.events) : j # k => p.events[j].index # p.events[k].index
PROOF
<1> DEFINE start == ParseCursor(c)
           end == IF start + LimitOf(limit) > total THEN total ELSE start + LimitOf(limit)
           p == Respond(c, limit)
           size == end - start
<1>1. total \in 1..MaxTotal /\ MaxTotal \in Nat /\ NoCursor \notin Int
  BY FeedAssumption
<1>2. start \in 0..MaxTotal - 1
  BY <1>1 DEF ParseCursor, Cursors
<1>3. LimitOf(limit) \in Nat \ {0}
  BY FeedAssumption DEF LimitOf
<1>4. CASE start >= total
  <2>1. p = [events |-> <<>>, next |-> NoCursor, more |-> FALSE, of |-> total]
    BY <1>4 DEF Respond, Answer
  <2>2. p \in Pages
    BY <1>1, <2>1 DEF Pages, Cursors
  <2>3. \A i \in Indices : ~OnPage(p, i) /\ ~Behind(p, i) /\ EndOf(p) = total
    BY <2>1 DEF OnPage, Behind, EndOf
  <2> HIDE DEF p, start
  <2>4. p.more = (p.next # NoCursor) /\ p.of = total /\ Len(p.events) = 0
    BY <2>1
  <2>5. ASSUME NEW i \in Indices, start <= i, i < EndOf(p) PROVE OnPage(p, i)
    BY <1>1, <1>2, <1>4, <2>3, <2>5 DEF Indices
  <2> QED
    BY <2>2, <2>3, <2>4, <2>5 DEF p, start
<1>5. CASE ~(start >= total)
  <2>1. end \in 1..total /\ end > start /\ size \in Nat
    BY <1>1, <1>2, <1>3, <1>5
  <2>2. p = [events |-> [n \in 1..size |-> Event(start + n - 1)],
             next |-> NextCursor(end), more |-> end < total, of |-> total]
    BY <1>5 DEF Respond, Answer
  <2> HIDE DEF p, start, end
  <2>3. \A n \in 1..size : start + n - 1 \in Indices
    BY <1>1, <1>2, <2>1 DEF Indices
  <2>4. \A n \in 1..size : Event(start + n - 1) \in Events /\ Event(start + n - 1).index = start + n - 1
    BY <2>3, EventType
  <2> HIDE DEF Event, Events
  <2>5. p.events \in Seq(Events) /\ Len(p.events) = size
    <3>1. [n \in 1..size |-> Event(start + n - 1)] \in [1..size -> Events]
      BY <2>4
    <3>2. [n \in 1..size |-> Event(start + n - 1)] \in Seq(Events)
      BY <2>1, <3>1
    <3> QED
      BY <2>1, <2>2, <3>2
  <2>6. p.next \in Cursors /\ p.more = (p.next # NoCursor) /\ EndOf(p) = end
    BY <1>1, <2>1, <2>2 DEF NextCursor, Cursors, EndOf
  <2>7. p \in Pages /\ p.of = total
    BY <1>1, <2>2, <2>5, <2>6 DEF Pages
  <2>8. \A n \in 1..size : p.events[n].index = start + n - 1
    BY <2>2, <2>4
  <2>9. ASSUME NEW i \in Indices, start <= i, i < EndOf(p) PROVE OnPage(p, i)
    <3>1. i - start + 1 \in 1..size
      BY <1>2, <2>1, <2>6, <2>9 DEF Indices
    <3>2. p.events[i - start + 1].index = i
      BY <1>2, <2>8, <3>1 DEF Indices
    <3> QED
      BY <2>5, <3>1, <3>2 DEF OnPage
  <2>10. ASSUME NEW i \in Indices, OnPage(p, i) \/ Behind(p, i) PROVE i >= start
    <3>1. CASE OnPage(p, i)
      <4>1. PICK n \in 1..size : i = start + n - 1
        BY <2>5, <2>8, <3>1 DEF OnPage
      <4> QED
        BY <1>2, <2>1, <4>1
    <3>2. CASE Behind(p, i)
      BY <1>2, <2>1, <2>6, <3>2 DEF Indices, Behind, EndOf
    <3> QED
      BY <2>10, <3>1, <3>2
  <2>11. ASSUME NEW j \in 1..Len(p.events), NEW k \in 1..Len(p.events), j # k
         PROVE  p.events[j].index # p.events[k].index
    BY <1>2, <2>1, <2>5, <2>8, <2>11
  <2>12. ASSUME NEW i \in Indices, OnPage(p, i) PROVE ~Behind(p, i)
    <3>1. PICK n \in 1..size : i = start + n - 1
      BY <2>5, <2>8, <2>12 DEF OnPage
    <3>2. i < EndOf(p)
      BY <1>2, <2>1, <2>6, <3>1 DEF size
    <3> QED
      BY <1>1, <2>1, <2>6, <3>2 DEF Behind, EndOf, Indices
  <2> QED
    BY <2>6, <2>7, <2>9, <2>10, <2>11, <2>12 DEF p, start
<1> QED
  BY <1>4, <1>5
-----------------------------------------------------------------------------
(* Steps *)

LEMMA IdlePage ==
  Idle \in Pages /\ Idle.more = (Idle.next # NoCursor)
PROOF
<1>1. <<>> \in Seq(Events) /\ 0 \in 0..MaxTotal
  BY FeedAssumption
<1> HIDE DEF Events
<1> QED
  BY <1>1 DEF Idle, Pages, Cursors

LEMMA InitIInv ==
  Init => IInv
PROOF
<1> SUFFICES ASSUME Init PROVE IInv
  OBVIOUS
<1>1. Types
  <2>1. total \in Totals /\ rate \in Rates /\ build \in 0..MaxRestarts /\ asked \in Int
    BY FeedAssumption DEF Init
  <2>2. page \in Pages /\ page.more = (page.next # NoCursor)
    BY IdlePage DEF Init
  <2>3. /\ at = "stopped" /\ cursor \in Cursors /\ saved \in Cursors
        /\ topic \subseteq Events /\ backlog \subseteq Events /\ dropped \subseteq Events
    BY DEF Init, Cursors
  <2>4. starts \in 0..MaxStarts /\ kills \in 0..MaxKills /\ rounds \in 0..starts
    BY FeedAssumption DEF Init
  <2>5. times \in [Indices -> Nat]
    BY DEF Init
  <2> QED
    BY <2>1, <2>2, <2>3, <2>4, <2>5 DEF Types, Running
<1>2. Settled /\ Fresh
  BY FeedAssumption DEF Init, Settled, Fresh, Unsettled, ParseCursor, Indices
<1> QED
  BY <1>1, <1>2 DEF IInv

LEMMA RestartKeeps ==
  ASSUME IInv, Restart
  PROVE  IInv'
PROOF
<1>1. Types'
  BY FeedAssumption DEF IInv, Types, Restart, Running, Pages, Cursors, Events, flowVars, sinks, history
<1>2. Settled' /\ Fresh'
  BY DEF IInv, Settled, Fresh, Unsettled, ParseCursor, OnPage, Behind, EndOf, Restart,
         flowVars, sinks, history
<1> QED
  BY <1>1, <1>2 DEF IInv

LEMMA StartFlowKeeps ==
  ASSUME IInv, StartFlow
  PROVE  IInv'
PROOF
<1>1. Types'
  <2>1. page' \in Pages /\ page'.more = (page'.next # NoCursor)
    BY IdlePage DEF StartFlow
  <2>2. starts' \in 0..MaxStarts /\ rounds' \in 0..starts' /\ rounds' < starts'
    BY FeedAssumption DEF IInv, Types, StartFlow
  <2>3. asked' \in Int /\ cursor' \in Cursors /\ at' = "asking"
    BY FeedAssumption DEF IInv, Types, StartFlow
  <2> QED
    BY <2>1, <2>2, <2>3 DEF IInv, Types, StartFlow, Running, serverVars, sinks
<1>2. Settled'
  BY DEF IInv, Settled, ParseCursor, StartFlow, serverVars, sinks
<1>3. Fresh'
  BY DEF IInv, Fresh, Unsettled, StartFlow, serverVars, sinks
<1> QED
  BY <1>1, <1>2, <1>3 DEF IInv

LEMMA GetPageKeeps ==
  ASSUME IInv, GetPage
  PROVE  IInv'
PROOF
<1> DEFINE p == Respond(cursor, asked)
<1>1. /\ p \in Pages /\ p.more = (p.next # NoCursor) /\ p.of = total
      /\ \A i \in Indices : ParseCursor(cursor) <= i /\ i < EndOf(p) => OnPage(p, i)
      /\ \A i \in Indices : OnPage(p, i) \/ Behind(p, i) => i >= ParseCursor(cursor)
      /\ \A i \in Indices : OnPage(p, i) => ~Behind(p, i)
      /\ \A j, k \in 1..Len(p.events) : j # k => p.events[j].index # p.events[k].index
  <2>1. total \in Totals /\ build \in 0..MaxRestarts /\ rate \in Nat /\ cursor \in Cursors /\ asked \in Int
    BY FeedAssumption DEF IInv, Types
  <2> QED
    BY <2>1, AnswerIsRight
<1>2. page' = p /\ at = "asking" /\ at' = "publishing"
  BY DEF GetPage
<1> HIDE DEF p
<1>3. Types'
  BY <1>1, <1>2 DEF IInv, Types, GetPage, Running, Events, serverVars, sinks, history
<1>4. Settled'
  <2>1. ASSUME NEW i \in Indices, i < EndOf(p) PROVE times[i] > 0 \/ OnPage(p, i)
    <3>1. CASE i < ParseCursor(cursor)
      BY <1>2, <3>1 DEF IInv, Settled
    <3>2. CASE ~(i < ParseCursor(cursor))
      <4>1. ParseCursor(cursor) \in Int /\ i \in Int
        BY FeedAssumption DEF ParseCursor, Indices
      <4> QED
        BY <1>1, <2>1, <3>2, <4>1
    <3> QED
      BY <3>1, <3>2
  <2> QED
    BY <1>2, <2>1 DEF IInv, Settled, GetPage, OnPage, EndOf, ParseCursor, serverVars, sinks, history
<1>5. Fresh'
  BY <1>1, <1>2 DEF IInv, Fresh, Unsettled, OnPage, Behind, GetPage, serverVars, sinks, history
<1> QED
  BY <1>3, <1>4, <1>5 DEF IInv

LEMMA FlowFailsKeeps ==
  ASSUME IInv, FlowFails
  PROVE  IInv'
PROOF
<1>1. Types'
  BY FeedAssumption DEF IInv, Types, FlowFails, Running, Pages, Cursors, Events, serverVars, sinks
<1>2. Settled'
  BY DEF IInv, Settled, ParseCursor, FlowFails, serverVars, sinks
<1>3. Fresh'
  <2>1. ASSUME NEW i \in Indices PROVE times[i] <= rounds + kills'
    BY DEF IInv, Types, Fresh, FlowFails
  <2> QED
    BY <2>1 DEF IInv, Types, Fresh, Unsettled, FlowFails
<1> QED
  BY <1>1, <1>2, <1>3 DEF IInv

LEMMA SaveCursorKeeps ==
  ASSUME IInv, SaveCursor
  PROVE  IInv'
PROOF
<1>1. /\ at = "publishing" /\ page.events = <<>> /\ page' = page
      /\ saved' = page.next /\ cursor' = page.next /\ times' = times /\ kills' = kills
      /\ at' = IF page.next # NoCursor THEN "asking" ELSE "ended"
      /\ rounds' = IF page.next = NoCursor THEN rounds + 1 ELSE rounds
  BY DEF IInv, Types, SaveCursor
<1>2. Types'
  BY <1>1 DEF IInv, Types, SaveCursor, Running, Pages, Cursors, Events, serverVars, sinks
<1>3. \A i \in Indices : i < EndOf(page) => times[i] > 0
  <2>1. \A i \in Indices : ~OnPage(page, i)
    BY <1>1 DEF OnPage
  <2> QED
    BY <1>1, <2>1 DEF IInv, Settled
<1>4. page.next \in Nat \/ page.next = NoCursor
  BY FeedAssumption DEF IInv, Types, Pages, Cursors
<1>5. Settled'
  BY <1>1, <1>3, <1>4, FeedAssumption DEF Settled, ParseCursor, EndOf, Indices
<1>6. Fresh'
  <2>1. CASE page.next = NoCursor
    <3>1. ASSUME NEW i \in Indices PROVE times[i] <= (rounds + 1) + kills
      BY DEF IInv, Types, Fresh
    <3> QED
      BY <1>1, <2>1, <3>1 DEF IInv, Types, Fresh, Unsettled
  <2>2. CASE page.next # NoCursor
    BY <1>1, <1>4, <2>2 DEF IInv, Fresh, Unsettled, Behind, ParseCursor
  <2> QED
    BY <2>1, <2>2
<1> QED
  BY <1>2, <1>5, <1>6 DEF IInv

LEMMA SettleEventKeeps ==
  ASSUME IInv, SettleEvent
  PROVE  IInv'
PROOF
<1> DEFINE event == Head(page.events)
           rest == Tail(page.events)
           n == event.index
<1>1. /\ at = "publishing" /\ page.events # <<>> /\ page.events \in Seq(Events)
      /\ page \in Pages /\ times \in [Indices -> Nat]
  BY DEF IInv, Types, SettleEvent, Pages
<1>2. /\ Len(page.events) \in Nat \ {0} /\ event = page.events[1] /\ event \in Events
      /\ rest \in Seq(Events) /\ Len(rest) = Len(page.events) - 1
      /\ \A k \in 1..Len(rest) : rest[k] = page.events[k + 1]
  BY <1>1
<1>3. n \in Indices
  BY <1>2 DEF Events
<1>4. /\ times' = [times EXCEPT ![n] = @ + 1]
      /\ page' = [page EXCEPT !.events = rest]
      /\ UNCHANGED <<total, rate, build, at, asked, cursor, saved, starts, kills, rounds>>
  BY DEF SettleEvent, serverVars
<1> HIDE DEF rest
<1>5. /\ page' \in Pages /\ page'.events = rest /\ page'.next = page.next
      /\ page'.more = page.more /\ page'.of = page.of
  BY <1>1, <1>2, <1>4 DEF Pages
<1>6. times' \in [Indices -> Nat] /\ times'[n] = times[n] + 1
      /\ \A i \in Indices \ {n} : times'[i] = times[i]
  BY <1>1, <1>3, <1>4
<1>7. \A i \in Indices : OnPage(page', i) => OnPage(page, i)
  BY <1>2, <1>5 DEF OnPage
<1>8. \A i \in Indices \ {n} : OnPage(page, i) => OnPage(page', i)
  <2>1. SUFFICES ASSUME NEW i \in Indices \ {n}, NEW k \in 1..Len(page.events),
                        page.events[k].index = i
                 PROVE  OnPage(page', i)
    BY DEF OnPage
  <2>2. k # 1
    BY <1>2, <2>1
  <2>3. k - 1 \in 1..Len(rest) /\ rest[k - 1] = page.events[k]
    BY <1>2, <2>2
  <2> QED
    BY <1>5, <2>1, <2>3 DEF OnPage
<1>9. OnPage(page, n)
  BY <1>2 DEF OnPage
<1>10. Types'
  <2>1. topic' \subseteq Events /\ backlog' \subseteq Events /\ dropped' \subseteq Events
    BY <1>2 DEF IInv, Types, SettleEvent
  <2> QED
    BY <1>4, <1>5, <1>6, <2>1 DEF IInv, Types, Running, Events
<1>11. Settled'
  <2>1. ASSUME NEW i \in Indices, times[i] > 0 PROVE times'[i] > 0
    BY <1>1, <1>6, <2>1
  <2>2. times'[n] > 0
    BY <1>1, <1>3, <1>6
  <2>3. EndOf(page') = EndOf(page)
    BY <1>5 DEF EndOf
  <2>4. ASSUME NEW i \in Indices, i < EndOf(page') PROVE times'[i] > 0 \/ OnPage(page', i)
    <3>1. times[i] > 0 \/ OnPage(page, i)
      BY <1>1, <2>3, <2>4 DEF IInv, Settled
    <3> QED
      BY <1>8, <2>1, <2>2, <3>1
  <2>5. \A i \in Indices : i < ParseCursor(saved) => times'[i] > 0
    BY <2>1 DEF IInv, Settled
  <2> QED
    BY <1>1, <1>4, <2>4, <2>5 DEF Settled, ParseCursor
<1>12. Fresh'
  <2>1. Unsettled(n)
    BY <1>1, <1>3, <1>9 DEF IInv, Fresh
  <2>2. ASSUME NEW i \in Indices PROVE times'[i] <= 1 + rounds + kills
    <3>1. CASE i = n
      BY <1>1, <1>3, <1>6, <2>1, <3>1 DEF Unsettled, IInv, Types
    <3>2. CASE i # n
      BY <1>6, <3>2 DEF IInv, Fresh
    <3> QED
      BY <3>1, <3>2
  <2>3. ~OnPage(page', n)
    <3>1. ASSUME NEW k \in 1..Len(rest) PROVE rest[k].index # n
      <4>1. k + 1 \in 1..Len(page.events) /\ 1 \in 1..Len(page.events) /\ k + 1 # 1
        BY <1>2
      <4>2. page.events[k + 1].index # page.events[1].index
        BY <1>1, <4>1 DEF IInv, Fresh
      <4> QED
        BY <1>2, <4>2
    <3> QED
      BY <1>5, <3>1 DEF OnPage
  <2>4. ~Behind(page', n)
    BY <1>1, <1>3, <1>5, <1>9 DEF IInv, Fresh, Behind
  <2>5. ASSUME NEW i \in Indices, OnPage(page', i) \/ Behind(page', i)
        PROVE  times'[i] <= rounds + kills
    <3>1. i # n
      BY <2>3, <2>4, <2>5
    <3>2. OnPage(page, i) \/ Behind(page, i)
      BY <1>5, <1>7, <2>5 DEF Behind
    <3>3. times[i] <= rounds + kills
      BY <1>1, <3>2 DEF IInv, Fresh, Unsettled
    <3> QED
      BY <1>6, <3>1, <3>3
  <2>6. ASSUME NEW j \in 1..Len(rest), NEW k \in 1..Len(rest), j # k
        PROVE  rest[j].index # rest[k].index
    <3>1. j + 1 \in 1..Len(page.events) /\ k + 1 \in 1..Len(page.events) /\ j + 1 # k + 1
      BY <1>2, <2>6
    <3>2. page.events[j + 1].index # page.events[k + 1].index
      BY <1>1, <3>1 DEF IInv, Fresh
    <3> QED
      BY <1>2, <3>2
  <2>7. \A i \in Indices : OnPage(page', i) => ~Behind(page', i)
    BY <1>1, <1>5, <1>7 DEF IInv, Fresh, Behind
  <2> QED
    BY <1>1, <1>4, <1>5, <2>2, <2>5, <2>6, <2>7, SMTT(30) DEF Fresh, Unsettled
<1> QED
  BY <1>10, <1>11, <1>12 DEF IInv

LEMMA StepIInv ==
  IInv /\ [Next]_vars => IInv'
PROOF
<1> SUFFICES ASSUME IInv, [Next]_vars PROVE IInv'
  OBVIOUS
<1>1. CASE UNCHANGED vars
  <2>1. Types'
    BY <1>1 DEF IInv, Types, Running, Pages, Cursors, Events, vars, serverVars, flowVars, sinks, history
  <2>2. Settled' /\ Fresh'
    BY <1>1 DEF IInv, Settled, Fresh, Unsettled, ParseCursor, OnPage, Behind, EndOf,
                vars, serverVars, flowVars, sinks, history
  <2> QED
    BY <2>1, <2>2 DEF IInv
<1>2. CASE Next
  BY <1>2, RestartKeeps, StartFlowKeeps, GetPageKeeps, SettleEventKeeps, SaveCursorKeeps,
     FlowFailsKeeps DEF Next, FlowStep
<1> QED
  BY <1>1, <1>2

-----------------------------------------------------------------------------
(* Theorems *)

LEMMA Invariance ==
  Spec => []IInv
BY InitIInv, StepIInv, PTL DEF Spec

\* Cursors point into the largest pool or are empty, pages hold events of it, and
\* an answer says has_more exactly when it has a next_cursor.
THEOREM TypeCorrect ==
  Spec => []TypeOK
PROOF
<1>1. ASSUME IInv PROVE TypeOK
  <2>1. Range(page.events) \subseteq Events
    BY <1>1 DEF IInv, Types, Pages, Range
  <2>2. rounds \in 0..MaxStarts
    BY <1>1, FeedAssumption DEF IInv, Types
  <2> QED
    BY <1>1, <2>1, <2>2 DEF IInv, Types, Pages, Cursors, TypeOK
<1> QED
  BY <1>1, Invariance, PTL

\* Whatever sizes the pools of a restarted server have, and wherever the flow is
\* killed, a saved cursor passes over no event, and the end of the feed none.
THEOREM CursorsSkipNothing ==
  Spec => []NothingSkipped
PROOF
<1>1. ASSUME IInv PROVE NothingSkipped
  BY <1>1 DEF IInv, Settled, NothingSkipped, ReadUpTo
<1> QED
  BY <1>1, Invariance, PTL

\* What becomes of an event goes by its index and FAULT_RATE alone.
Fates ==
  /\ \A k \in 1..Len(page.events) : page.events[k].fault = FaultOf(page.events[k].index)
  /\ \A e \in topic \union backlog \union dropped : e.fault = FaultOf(e.index)
  /\ \A e \in topic : e.fault \notin {"no city", "inject"}
  /\ \A e \in backlog : e.fault = "inject"
  /\ \A e \in dropped : e.fault = "no city"

LEMMA PageFates ==
  ASSUME NEW c, NEW limit, Respond(c, limit) \in Pages,
         NEW k \in 1..Len(Respond(c, limit).events)
  PROVE  LET e == Respond(c, limit).events[k] IN e.fault = FaultOf(e.index)
PROOF
<1> DEFINE start == ParseCursor(c)
           end == IF start + LimitOf(limit) > total THEN total ELSE start + LimitOf(limit)
           events == [n \in 1..end - start |-> Event(start + n - 1)]
<1>1. CASE start >= total
  <2>1. Respond(c, limit).events = <<>>
    BY <1>1 DEF Respond, Answer
  <2> QED
    BY <2>1
<1>2. CASE ~(start >= total)
  <2>1. Respond(c, limit).events = events
    BY <1>2 DEF Respond, Answer
  <2>2. events \in Seq(Events)
    BY <2>1 DEF Pages
  <2>3. DOMAIN events = 1..Len(events)
    <3> HIDE DEF events
    <3> QED
      BY <2>2
  <2>4. k \in 1..end - start
    BY <2>1, <2>3
  <2>5. events[k] = Event(start + k - 1)
    BY <2>4
  <2> HIDE DEF events, start, FaultOf
  <2> QED
    BY <2>1, <2>5 DEF Event
<1> QED
  BY <1>1, <1>2

LEMMA NextFates ==
  ASSUME IInv, Fates, [Next]_vars
  PROVE  Fates'
PROOF
<1>1. rate' = rate
  BY DEF Next, FlowStep, Restart, StartFlow, GetPage, SettleEvent, SaveCursor, FlowFails,
         vars, serverVars
<1>2. \A i : FaultOf(i)' = FaultOf(i)
  BY <1>1 DEF FaultOf, IsFaulty, Interval
<1>3. CASE UNCHANGED <<page, topic, backlog, dropped>>
  BY <1>2, <1>3 DEF Fates
<1>4. CASE StartFlow
  <2>1. page'.events = <<>> /\ UNCHANGED <<topic, backlog, dropped>>
    BY <1>4 DEF StartFlow, Idle, sinks
  <2>2. \A k \in 1..Len(page'.events) : page'.events[k].fault = FaultOf(page'.events[k].index)
    <3>1. Len(page'.events) = 0
      BY <2>1
    <3>2. 1..Len(page'.events) = {}
      BY <3>1
    <3> QED
      BY <3>2
  <2>3. /\ \A e \in topic' \union backlog' \union dropped' : e.fault = FaultOf(e.index)
        /\ \A e \in topic' : e.fault \notin {"no city", "inject"}
        /\ \A e \in backlog' : e.fault = "inject"
        /\ \A e \in dropped' : e.fault = "no city"
    <3> HIDE DEF FaultOf
    <3> QED
      BY <2>1 DEF Fates
  <2> QED
    BY <1>2, <2>2, <2>3 DEF Fates
<1>5. CASE GetPage
  <2>1. page' = Respond(cursor, asked) /\ UNCHANGED <<topic, backlog, dropped>>
    BY <1>5 DEF GetPage, sinks
  <2>2. Respond(cursor, asked) \in Pages
    BY <1>5, <2>1, GetPageKeeps DEF IInv, Types
  <2>3. \A k \in 1..Len(page'.events) : page'.events[k].fault = FaultOf(page'.events[k].index)
    <3> SUFFICES ASSUME NEW k \in 1..Len(page'.events)
                 PROVE  page'.events[k].fault = FaultOf(page'.events[k].index)
      OBVIOUS
    <3> QED
      BY <2>1, <2>2, PageFates
  <2> QED
    BY <1>2, <2>1, <2>3 DEF Fates
<1>6. CASE SettleEvent
  <2> DEFINE event == Head(page.events)
             rest == Tail(page.events)
  <2>1. /\ page.events # <<>> /\ page.events \in Seq(Events) /\ page \in Pages
    BY <1>6 DEF IInv, Types, SettleEvent, Pages
  <2>2. /\ Len(page.events) \in Nat \ {0} /\ event = page.events[1]
        /\ rest \in Seq(Events) /\ Len(rest) = Len(page.events) - 1
        /\ \A k \in 1..Len(rest) : rest[k] = page.events[k + 1] /\ k + 1 \in 1..Len(page.events)
    BY <2>1
  <2>3. page'.events = rest
    BY <1>6, <2>1 DEF SettleEvent, Pages
  <2>4. /\ dropped' = dropped \union (IF event.fault = "no city" THEN {event} ELSE {})
        /\ backlog' = backlog \union (IF event.fault = "inject" THEN {event} ELSE {})
        /\ topic' = topic \union (IF event.fault \in {"none", "bad date"} THEN {event} ELSE {})
    BY <1>6 DEF SettleEvent
  <2> HIDE DEF event, rest, FaultOf
  <2>5. event.fault = FaultOf(event.index)
    <3>1. 1 \in 1..Len(page.events)
      BY <2>2
    <3> QED
      BY <2>2, <3>1 DEF Fates
  <2>6. \A k \in 1..Len(rest) : rest[k].fault = FaultOf(rest[k].index)
    <3> SUFFICES ASSUME NEW k \in 1..Len(rest)
                 PROVE  rest[k].fault = FaultOf(rest[k].index)
      OBVIOUS
    <3> DEFINE m == k + 1
    <3>1. rest[k] = page.events[m] /\ m \in 1..Len(page.events)
      BY <2>2
    <3> HIDE DEF m
    <3>2. page.events[m].fault = FaultOf(page.events[m].index)
      BY <3>1 DEF Fates
    <3> QED
      BY <3>1, <3>2
  <2>7. \A e \in topic' \union backlog' \union dropped' : e.fault = FaultOf(e.index)
    BY <2>4, <2>5 DEF Fates
  <2>8. /\ \A e \in topic' : e.fault \notin {"no city", "inject"}
        /\ \A e \in backlog' : e.fault = "inject"
        /\ \A e \in dropped' : e.fault = "no city"
    BY <2>4 DEF Fates
  <2> QED
    BY <1>2, <2>3, <2>6, <2>7, <2>8 DEF Fates
<1>7. CASE Restart \/ SaveCursor \/ FlowFails \/ UNCHANGED vars
  BY <1>3, <1>7 DEF Restart, SaveCursor, FlowFails, flowVars, sinks, vars
<1> QED
  BY <1>4, <1>5, <1>6, <1>7 DEF Next, FlowStep

\* Each time more than once that an event is settled, the feed was begun again
\* or the flow was killed in the middle of a page; and it goes where it went
\* before, whichever start of the server made it.
THEOREM RepeatsHaveReasons ==
  Spec => []RepeatsAreAccounted
PROOF
<1>1. ASSUME IInv, Fates PROVE RepeatsAreAccounted
  <2>1. \A i \in Indices : times[i] <= 1 + rounds + kills
    BY <1>1 DEF IInv, Fresh
  <2>2. \A d, e \in topic \union backlog \union dropped : d.index = e.index => d.fault = e.fault
    BY <1>1 DEF Fates
  <2>3. ASSUME NEW e \in backlog, NEW d \in dropped, NEW t \in topic
        PROVE  e.index # d.index /\ e.index # t.index /\ d.index # t.index
    <3>1. e.fault = "inject" /\ d.fault = "no city" /\ t.fault \notin {"no city", "inject"}
      BY <1>1 DEF Fates
    <3> QED
      BY <2>2, <3>1
  <2> QED
    BY <2>1, <2>2, <2>3 DEF RepeatsAreAccounted
<1>2. Init => Fates
  <2> SUFFICES ASSUME Init PROVE Fates
    OBVIOUS
  <2>1. Len(page.events) = 0 /\ topic = {} /\ backlog = {} /\ dropped = {}
    BY DEF Init, Idle
  <2> QED
    BY <2>1 DEF Fates
<1>3. IInv /\ Fates /\ [Next]_vars => Fates'
  BY NextFates
<1> QED
  BY <1>1, <1>2, <1>3, Invariance, PTL DEF Spec

-----------------------------------------------------------------------------
(* The faults of a pool *)

LEMMA DivMod ==
  ASSUME NEW a \in Nat, NEW b \in Nat \ {0}
  PROVE  a \div b \in Nat /\ a % b \in 0..b - 1 /\ a = (a \div b) * b + (a % b)
OBVIOUS

LEMMA DivOf ==
  ASSUME NEW q \in Nat, NEW b \in Nat \ {0}
  PROVE  (q * b) \div b = q /\ (q * b) % b = 0
OBVIOUS

\* How many of the turns 1 to m belong to kind a.
Share(m, a) == (m + 3 - a) \div 3

\* The events that have a fault are those that end a stretch of Interval events.
LEMMA FaultyAre ==
  ASSUME NEW n \in Nat, Interval \in Nat \ {0}
  PROVE  /\ n \div Interval \in Nat
         /\ \A m \in 1..n \div Interval :
              /\ m * Interval - 1 \in 0..n - 1 /\ IsFaulty(m * Interval - 1)
              /\ FaultOf(m * Interval - 1) = Turn(m - 1)
         /\ \A i \in 0..n - 1 : IsFaulty(i) =>
              /\ (i + 1) \div Interval \in 1..n \div Interval
              /\ i = ((i + 1) \div Interval) * Interval - 1
PROOF
<1> DEFINE b == Interval
           q == n \div b
<1>1. b \in Nat \ {0} /\ q \in Nat
  BY DivMod
<1>2. \A i : IsFaulty(i) <=> (i + 1) % b = 0
  BY <1>1 DEF IsFaulty
<1>3. ASSUME NEW m \in 1..q
      PROVE  /\ m * b - 1 \in 0..n - 1 /\ m * b - 1 + 1 = m * b /\ m \in Nat
             /\ (m * b) % b = 0 /\ (m * b) \div b = m
  <2> HIDE DEF b
  <2>1. m \in Nat /\ m >= 1 /\ m <= q /\ q * b <= n
    <3>1. n = (n \div b) * b + (n % b) /\ n % b \in 0..b - 1
      BY <1>1, DivMod
    <3>2. q * b \in Nat
      BY <1>1
    <3> QED
      BY <1>1, <3>1, <3>2
  <2>2. m * b \in Nat /\ q * b \in Nat /\ m * b >= b /\ m * b <= q * b
    <3> HIDE DEF q
    <3> QED
      BY <1>1, <2>1
  <2> HIDE DEF q
  <2> QED
    BY <1>1, <2>1, <2>2, DivOf
<1>4. ASSUME NEW m \in 1..q
      PROVE  IsFaulty(m * b - 1) /\ FaultOf(m * b - 1) = Turn(m - 1)
  <2> DEFINE i == m * b - 1
  <2>1. i + 1 = m * b /\ (i + 1) % b = 0 /\ (i + 1) \div b = m
    BY <1>3
  <2> HIDE DEF i
  <2> QED
    BY <1>2, <2>1 DEF FaultOf, i
<1>5. ASSUME NEW i \in 0..n - 1, IsFaulty(i)
      PROVE  (i + 1) \div b \in 1..q /\ i = ((i + 1) \div b) * b - 1
  <2> DEFINE a == i + 1
             m == a \div b
  <2>1. a \in Nat /\ a >= 1 /\ a <= n /\ a % b = 0
    BY <1>2, <1>5
  <2> HIDE DEF a, b
  <2>2. m \in Nat /\ a = m * b
    <3>1. m \in Nat /\ a = m * b + (a % b)
      BY <1>1, <2>1, DivMod
    <3> HIDE DEF m
    <3> QED
      BY <1>1, <2>1, <3>1
  <2>3. n = q * b + (n % b) /\ n % b \in 0..b - 1
    BY <1>1, DivMod
  <2>4. m \in 1..q
    <3> DEFINE r == n % b
    <3>1. n = q * b + r /\ r \in 0..b - 1
      BY <2>3
    <3> HIDE DEF m, q, r
    <3>2. m # 0
      BY <1>1, <2>1, <2>2
    <3>3. m < q + 1
      <4>1. m * b < (q + 1) * b
        <5>1. (q + 1) * b = q * b + b /\ q * b \in Nat
          BY <1>1
        <5> QED
          BY <1>1, <2>1, <2>2, <3>1, <5>1
      <4> QED
        BY <1>1, <2>2, <4>1
    <3> QED
      BY <1>1, <2>2, <3>2, <3>3
  <2>5. i = m * b - 1
    <3> HIDE DEF m
    <3>1. m * b = i + 1
      BY <2>2 DEF a
    <3> QED
      BY <3>1
  <2> QED
    BY <2>4, <2>5 DEF a
<1> QED
  BY <1>1, <1>3, <1>4, <1>5

\* The three kinds of fault differ from each other and from none.
LEMMA KindsAre ==
  /\ Range(Kinds) = {Kinds[a] : a \in 1..3} /\ "none" \notin Range(Kinds)
  /\ \A a, b \in 1..3 : Kinds[a] = Kinds[b] => a = b
PROOF
<1>1. /\ DOMAIN Kinds = 1..3
      /\ Kinds[1] = "no city" /\ Kinds[2] = "bad date" /\ Kinds[3] = "inject"
  BY DEF Kinds
<1>2. /\ Kinds[1] # Kinds[2] /\ Kinds[1] # Kinds[3] /\ Kinds[2] # Kinds[3]
      /\ Kinds[1] # "none" /\ Kinds[2] # "none" /\ Kinds[3] # "none"
  BY <1>1
<1>3. Range(Kinds) = {Kinds[a] : a \in 1..3}
  BY <1>1 DEF Range
<1>4. \A a \in 1..3 : a = 1 \/ a = 2 \/ a = 3
  OBVIOUS
<1>5. "none" \notin Range(Kinds)
  BY <1>2, <1>3, <1>4
<1>6. \A a, b \in 1..3 : Kinds[a] = Kinds[b] => a = b
  BY <1>2, <1>4
<1> QED
  BY <1>3, <1>5, <1>6

\* A set that is numbered from 1 to n has n members.
LEMMA SameSize ==
  ASSUME NEW n \in Nat, NEW S, NEW f \in [1..n -> S],
         \A i, j \in 1..n : f[i] = f[j] => i = j,
         \A x \in S : \E i \in 1..n : f[i] = x
  PROVE  Cardinality(S) = n
PROOF
<1>1. f \in Bijection(1..n, S)
  BY DEF Bijection, Injection, Surjection, IsInjective
<1>2. IsFiniteSet(1..n) /\ Cardinality(1..n) = n
  BY FS_Interval
<1> QED
  BY <1>1, <1>2, FS_Bijection DEF ExistsBijection

\* The events of the pool whose fault is one of kinds.
FaultsOf(kinds) == {i \in 0..total - 1 : FaultOf(i) \in kinds}

\* One event in Interval has a fault.
LEMMA FaultCount ==
  ASSUME total \in Nat, Interval \in Nat \ {0}
  PROVE  Cardinality(FaultsOf(Range(Kinds))) = total \div Interval
PROOF
<1> DEFINE b == Interval
           q == total \div b
           S == FaultsOf(Range(Kinds))
           f == [m \in 1..q |-> m * b - 1]
<1>1. /\ q \in Nat /\ b \in Nat \ {0}
      /\ \A m \in 1..q : /\ m * b - 1 \in 0..total - 1 /\ IsFaulty(m * b - 1)
                         /\ FaultOf(m * b - 1) = Turn(m - 1)
      /\ \A i \in 0..total - 1 : IsFaulty(i) =>
           (i + 1) \div b \in 1..q /\ i = ((i + 1) \div b) * b - 1
  BY FaultyAre
<1>2. ASSUME NEW m \in 1..q PROVE Turn(m - 1) \in Range(Kinds)
  <2>1. m - 1 \in Int
    OBVIOUS
  <2> QED
    BY <2>1, TurnType
<1>3. f \in [1..q -> S]
  BY <1>1, <1>2 DEF FaultsOf
<1>4. ASSUME NEW i \in 1..q, NEW j \in 1..q, f[i] = f[j] PROVE i = j
  <2> HIDE DEF q, b
  <2>1. i * b = j * b /\ i \in Nat /\ j \in Nat
    BY <1>1, <1>4
  <2> QED
    BY <1>1, <2>1
<1>5. ASSUME NEW i \in S PROVE \E m \in 1..q : f[m] = i
  <2>1. i \in 0..total - 1 /\ IsFaulty(i)
    BY KindsAre DEF FaultsOf, FaultOf
  <2> HIDE DEF q, b
  <2> QED
    BY <1>1, <2>1
<1> HIDE DEF q, S, f, b
<1>6. Cardinality(S) = q
  BY <1>1, <1>3, <1>4, <1>5, SameSize
<1> QED
  BY <1>6 DEF S, q, b

\* Every third of the faults is of the same kind.
LEMMA KindCount ==
  ASSUME total \in Nat, Interval \in Nat \ {0}, NEW a \in 1..3
  PROVE  Cardinality(FaultsOf({Kinds[a]})) = Share(total \div Interval, a)
PROOF
<1> DEFINE b == Interval
           q == total \div b
           n == Share(q, a)
           S == FaultsOf({Kinds[a]})
           f == [j \in 1..n |-> (3 * (j - 1) + a) * b - 1]
<1>1. /\ q \in Nat /\ b \in Nat \ {0}
      /\ \A m \in 1..q : /\ m * b - 1 \in 0..total - 1 /\ IsFaulty(m * b - 1)
                         /\ FaultOf(m * b - 1) = Turn(m - 1)
      /\ \A i \in 0..total - 1 : IsFaulty(i) =>
           (i + 1) \div b \in 1..q /\ i = ((i + 1) \div b) * b - 1
  BY FaultyAre
<1> HIDE DEF q, b
<1>2. n \in Nat
  BY <1>1 DEF Share
<1>3. ASSUME NEW j \in 1..n
      PROVE  /\ 3 * (j - 1) + a \in 1..q /\ ((3 * (j - 1) + a - 1) % 3) + 1 = a
  BY <1>1, <1>2 DEF Share
<1>4. ASSUME NEW m \in 1..q, ((m - 1) % 3) + 1 = a
      PROVE  /\ (m - 1) \div 3 + 1 \in 1..n
             /\ m = 3 * ((m - 1) \div 3 + 1 - 1) + a
  BY <1>1, <1>4 DEF Share
<1> HIDE DEF n
<1>5. ASSUME NEW j \in 1..n PROVE f[j] \in S
  <2> DEFINE m == 3 * (j - 1) + a
  <2>1. m \in 1..q /\ ((m - 1) % 3) + 1 = a
    BY <1>3
  <2> HIDE DEF m
  <2>2. Turn(m - 1) = Kinds[a]
    BY <2>1 DEF Turn
  <2>3. m * b - 1 \in 0..total - 1 /\ FaultOf(m * b - 1) = Kinds[a]
    BY <1>1, <2>1, <2>2
  <2> QED
    BY <2>3 DEF FaultsOf, m
<1>6. ASSUME NEW i \in 1..n, NEW j \in 1..n, f[i] = f[j] PROVE i = j
  <2> DEFINE x == 3 * (i - 1) + a
             y == 3 * (j - 1) + a
  <2>1. x \in Int /\ y \in Int /\ (x = y => i = j)
    BY <1>2
  <2>2. x * b - 1 = y * b - 1
    BY <1>6
  <2> HIDE DEF x, y
  <2>3. x = y
    BY <1>1, <2>1, <2>2
  <2> QED
    BY <2>1, <2>3
<1>7. ASSUME NEW i \in S PROVE \E j \in 1..n : f[j] = i
  <2>1. i \in 0..total - 1 /\ FaultOf(i) = Kinds[a]
    BY DEF FaultsOf
  <2>2. IsFaulty(i)
    BY <2>1, KindsAre DEF FaultOf
  <2> DEFINE m == (i + 1) \div b
             j == (m - 1) \div 3 + 1
  <2>3. m \in 1..q /\ i = m * b - 1
    BY <1>1, <2>1, <2>2
  <2> HIDE DEF m
  <2>4. Turn(m - 1) = Kinds[a]
    BY <1>1, <2>1, <2>3
  <2>5. ((m - 1) % 3) + 1 = a
    <3>1. ((m - 1) % 3) + 1 \in 1..3
      BY <2>3
    <3> QED
      BY <2>4, <3>1, KindsAre DEF Turn
  <2>6. j \in 1..n /\ m = 3 * (j - 1) + a
    BY <1>4, <2>3, <2>5
  <2> HIDE DEF j
  <2> QED
    BY <2>3, <2>6
<1>8. f \in [1..n -> S]
  BY <1>5
<1> HIDE DEF S, f
<1>9. Cardinality(S) = n
  BY <1>2, <1>6, <1>7, <1>8, SameSize
<1> QED
  BY <1>9 DEF S, n, q, b

\* Of any number of turns, each kind gets as many as another, give or take one.
LEMMA Shares ==
  ASSUME NEW m \in Nat, NEW a \in 1..3, NEW b \in 1..3
  PROVE  Share(m, a) <= Share(m, b) + 1
BY DEF Share

\* A rate of 0, or one that is no percentage, makes no faults.
LEMMA NoFaults ==
  ASSUME Interval = 0, NEW kinds \in SUBSET Range(Kinds)
  PROVE  Cardinality(FaultsOf(kinds)) = 0
PROOF
<1>1. FaultsOf(kinds) = {}
  BY KindsAre DEF FaultsOf, FaultOf, IsFaulty
<1> QED
  BY <1>1, FS_EmptySet

\* Rounding the interval down makes the faults more, never fewer, than the rate asks for.
LEMMA FaultsAreFair ==
  ASSUME total \in Nat, rate \in Nat
  PROVE  FaultsTakeTurns
PROOF
<1> DEFINE Of(kinds) == Cardinality(FaultsOf(kinds))
<1> SUFFICES /\ rate <= 100 => Of(Range(Kinds)) >= (total * rate) \div 100
             /\ \A k, m \in Range(Kinds) : Of({k}) <= Of({m}) + 1
  BY DEF FaultsTakeTurns, FaultsOf
<1> HIDE DEF Of
<1>1. CASE rate \in 1..100
  <2>1. Interval = 100 \div rate
    BY <1>1 DEF Interval
  <2>2. Interval \in Nat \ {0} /\ Interval * rate <= 100
    BY <1>1, <2>1
  <2>3. Of(Range(Kinds)) >= (total * rate) \div 100
    <3> DEFINE q == (total * rate) \div 100
               b == Interval
    <3>1. q \in Nat /\ 100 * q <= total * rate
      BY <1>1
    <3>2. q * b <= total
      <4>1. b \in Nat /\ b * rate <= 100
        BY <2>2
      <4> HIDE DEF q, b
      <4> QED
        BY <1>1, <3>1, <4>1
    <3>3. q <= total \div b
      <4>1. b \in Nat \ {0}
        BY <2>2
      <4> HIDE DEF q, b
      <4> QED
        BY <3>1, <3>2, <4>1
    <3> QED
      BY <2>2, <3>1, <3>3, FaultCount, DivMod DEF Of
  <2>4. ASSUME NEW k \in Range(Kinds), NEW m \in Range(Kinds) PROVE Of({k}) <= Of({m}) + 1
    <3>1. PICK a \in 1..3, c \in 1..3 : k = Kinds[a] /\ m = Kinds[c]
      BY KindsAre
    <3>2. total \div Interval \in Nat
      BY <2>2, DivMod
    <3>3. Of({k}) = Share(total \div Interval, a) /\ Of({m}) = Share(total \div Interval, c)
      BY <2>2, <3>1, KindCount DEF Of
    <3> QED
      BY <3>2, <3>3, Shares
  <2> QED
    BY <2>3, <2>4
<1>2. CASE rate \notin 1..100
  <2>1. \A kinds \in SUBSET Range(Kinds) : Of(kinds) = 0
    BY <1>2, NoFaults DEF Interval, Of
  <2>2. rate <= 100 => (total * rate) \div 100 = 0
    BY <1>2
  <2> QED
    BY <2>1, <2>2
<1> QED
  BY <1>1, <1>2

\* Whatever pool a restart makes, GenerateMixed gives it no fewer faults than a
\* FAULT_RATE of up to 100 per cent asks for, and its three kinds of fault
\* differ in number by one at most.
THEOREM KindsTakeTurns == Spec => []FaultsTakeTurns
PROOF
<1>1. ASSUME IInv
      PROVE  FaultsTakeTurns
  <2>1. total \in Nat /\ rate \in Nat
    BY <1>1, FeedAssumption DEF IInv, Types
  <2> QED
    BY <2>1, FaultsAreFair
<1> QED
  BY <1>1, Invariance, PTL
=============================================================================
