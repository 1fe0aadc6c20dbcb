------------------------------- MODULE Quota -------------------------------
(***************************************************************************)
(* The quota store of the GA4 mock seeder of case 3 (state/quota.go) and   *)
(* the two handlers that spend from it.  Every request runs in a goroutine *)
(* of its own (Thread).  A property's bucket is found under a read lock    *)
(* and, when missing, made under the write lock after a second look; it is *)
(* spent from under its own mutex, and its hour and day are rolled over    *)
(* lazily, by whoever touches it first in a new hour.                      *)
(*                                                                         *)
(* Time is the number of whole hours: windows are truncated to the hour    *)
(* and to the day, so "an hour or more since the window began" is a later  *)
(* hour.  The wall clock does not step back.                               *)
(***************************************************************************)
EXTENDS Naturals, Sequences

CONSTANTS Property,            \* the GA4 properties of surfaceMap
          Request,             \* what clients ask for: pairs of property and kind
          Thread,              \* bound: requests served at the same time
          HourlyTokenLimit, DailyTokenLimit, RealtimeDailyLimit,
          RowsPerDay,          \* ROWS_PER_DAY, which sets a report's cost
          HoursPerDay,         \* 24
          MaxHours             \* bound: the last hour of a behaviour

\* A page of a report, a page that begins beyond the report's rows, or realtime.
Kind == {"report", "beyond", "realtime"}

ASSUME QuotaAssumption ==
  /\ HourlyTokenLimit \in Nat /\ DailyTokenLimit \in Nat
  /\ RealtimeDailyLimit \in Nat /\ RowsPerDay \in Nat
  /\ HoursPerDay \in Nat \ {0} /\ MaxHours \in Nat
  /\ Request \subseteq Property \X Kind
  /\ "free" \notin Thread /\ "none" \notin Property

VARIABLES clock,     \* the present hour
          heap,      \* every bucket ever made; a reference is an index
          buckets,   \* QuotaStore.buckets: a reference, 0 when there is none
          lock,      \* the thread that holds QuotaStore.mu for writing, or "free"
          at,        \* where each request is
          prop,      \* the property each request is for, "none" once it is answered
          kind,      \* what it asks for, "none" once it is answered
          ref,       \* the bucket each request has in hand, 0 when none
          hourRead   \* the hour each request read for a bucket it is making

storeVars == <<heap, buckets, lock>>
threadVars == <<at, prop, kind, ref, hourRead>>

\* History: tokens granted, by the hour or the day of the request.
VARIABLES hourGrants, dayGrants, rtGrants

grants == <<hourGrants, dayGrants, rtGrants>>
vars == <<clock, storeVars, threadVars, grants>>

Hours == 0..MaxHours

Day(h) == h \div HoursPerDay   \* the day that hour h falls in

Bucket == [hourly : Nat, daily : Nat, realtime : Nat,
           hourWindow : Nat, dayWindow : Nat]

Place == {"idle", "missed", "creating", "ready", "granted", "refused", "denied",
          "cut"}

Under(t) == at[t] \notin {"idle", "cut"}   \* a request is under way

\* What a report costs, whatever page of it is asked for.
TokenCost == RowsPerDay \div 1000 + 1

-----------------------------------------------------------------------------
(* Finding the bucket *)

\* A well-formed request for a known property arrives and looks its bucket up
\* under the read lock; any other request is answered without touching a bucket.
Lookup(t, p, k) ==
  /\ ~Under(t) /\ lock = "free"
  /\ at' = [at EXCEPT ![t] = IF buckets[p] # 0 THEN "ready" ELSE "missed"]
  /\ prop' = [prop EXCEPT ![t] = p]
  /\ kind' = [kind EXCEPT ![t] = k]
  /\ ref' = [ref EXCEPT ![t] = buckets[p]]
  /\ UNCHANGED <<clock, storeVars, hourRead, grants>>

NoSecondLook(t) ==   \* mutated LookAgain: the map is not read under the lock
  /\ at[t] = "missed" /\ lock = "free"
  /\ lock' = t
  /\ hourRead' = [hourRead EXCEPT ![t] = clock]
  /\ at' = [at EXCEPT ![t] = "creating"]
  /\ UNCHANGED <<clock, heap, buckets, prop, kind, ref, grants>>

\* The write lock is taken; another request may have made the bucket meanwhile.
LookAgain(t) ==
  /\ at[t] = "missed" /\ lock = "free"
  /\ \/ /\ buckets[prop[t]] # 0
        /\ ref' = [ref EXCEPT ![t] = buckets[prop[t]]]
        /\ at' = [at EXCEPT ![t] = "ready"]
        /\ UNCHANGED <<lock, hourRead>>
     \/ /\ buckets[prop[t]] = 0
        /\ lock' = t
        /\ hourRead' = [hourRead EXCEPT ![t] = clock]
        /\ at' = [at EXCEPT ![t] = "creating"]
        /\ UNCHANGED ref
  /\ UNCHANGED <<clock, heap, buckets, prop, kind, grants>>

\* The clock is read once more for the day, perhaps in a later hour.
CreateBucket(t) ==
  /\ at[t] = "creating"
  /\ heap' = Append(heap, [hourly |-> 0, daily |-> 0, realtime |-> 0,
                           hourWindow |-> hourRead[t], dayWindow |-> Day(clock)])
  /\ buckets' = [buckets EXCEPT ![prop[t]] = Len(heap) + 1]
  /\ ref' = [ref EXCEPT ![t] = Len(heap) + 1]
  /\ hourRead' = [hourRead EXCEPT ![t] = 0]
  /\ lock' = "free"
  /\ at' = [at EXCEPT ![t] = "ready"]
  /\ UNCHANGED <<clock, prop, kind, grants>>

-----------------------------------------------------------------------------
(* Spending from it *)

RollHourOnly(b, now) ==   \* mutated Roll: a new hour is taken for a new day
  IF now > b.hourWindow
  THEN [hourly |-> 0, daily |-> 0, realtime |-> 0,
        hourWindow |-> now, dayWindow |-> Day(now)]
  ELSE b

\* roll: each window that has passed is cleared and begun again.
Roll(b, now) ==
  LET newHour == now > b.hourWindow
      newDay  == Day(now) > b.dayWindow
  IN  [hourly     |-> IF newHour THEN 0 ELSE b.hourly,
       hourWindow |-> IF newHour THEN now ELSE b.hourWindow,
       daily      |-> IF newDay THEN 0 ELSE b.daily,
       realtime   |-> IF newDay THEN 0 ELSE b.realtime,
       dayWindow  |-> IF newDay THEN Day(now) ELSE b.dayWindow]

ExhaustedByAny(b, n) ==   \* mutated Exhausted: no meter may be short
  \/ b.hourly + n > HourlyTokenLimit \/ b.daily + n > DailyTokenLimit
  \/ b.realtime + 1 > RealtimeDailyLimit

Exhausted(b, n) ==
  b.hourly + n > HourlyTokenLimit \/ b.daily + n > DailyTokenLimit

\* ConsumeReport: all of the cost or nothing, on the rolled bucket.
SpendReport(t) ==
  LET p == prop[t]
      b == Roll(heap[ref[t]], clock)
  IN  /\ at[t] = "ready" /\ kind[t] # "realtime" /\ ~Exhausted(b, TokenCost)
      /\ heap' = [heap EXCEPT ![ref[t]] =
                    [b EXCEPT !.hourly = @ + TokenCost, !.daily = @ + TokenCost]]
      /\ at' = [at EXCEPT ![t] = "granted"]
      /\ hourGrants' = [hourGrants EXCEPT ![p][clock] = @ + TokenCost]
      /\ dayGrants' = [dayGrants EXCEPT ![p][Day(clock)] = @ + TokenCost]
      /\ UNCHANGED <<clock, buckets, lock, prop, kind, ref, hourRead, rtGrants>>

RefuseReport(t) ==
  LET b == Roll(heap[ref[t]], clock)
  IN  /\ at[t] = "ready" /\ kind[t] # "realtime" /\ Exhausted(b, TokenCost)
      /\ heap' = [heap EXCEPT ![ref[t]] = b]
      /\ at' = [at EXCEPT ![t] = "refused"]
      /\ UNCHANGED <<clock, buckets, lock, prop, kind, ref, hourRead, grants>>

\* ConsumeRealtime: one token of the day's realtime budget.
SpendRealtime(t) ==
  LET p == prop[t]
      b == Roll(heap[ref[t]], clock)
  IN  /\ at[t] = "ready" /\ kind[t] = "realtime" /\ b.realtime + 1 <= RealtimeDailyLimit
      /\ heap' = [heap EXCEPT ![ref[t]] = [b EXCEPT !.realtime = @ + 1]]
      /\ at' = [at EXCEPT ![t] = "granted"]
      /\ rtGrants' = [rtGrants EXCEPT ![p][Day(clock)] = @ + 1]
      /\ UNCHANGED <<clock, buckets, lock, prop, kind, ref, hourRead, hourGrants, dayGrants>>

RefuseRealtime(t) ==
  LET b == Roll(heap[ref[t]], clock)
  IN  /\ at[t] = "ready" /\ kind[t] = "realtime" /\ b.realtime + 1 > RealtimeDailyLimit
      /\ heap' = [heap EXCEPT ![ref[t]] = b]
      /\ at' = [at EXCEPT ![t] = "denied"]
      /\ UNCHANGED <<clock, buckets, lock, prop, kind, ref, hourRead, grants>>

\* mutated HourlySpent: the refusal has kept the bucket's mutex, and waits for it
HourlySpentRelocks(t) == at[t] = "refused" /\ UNCHANGED vars

\* Before a refused report is answered with 429, the log line reads HourlySpent:
\* the bucket is looked up again, rolled, and only then reported.
HourlySpent(t) ==
  /\ at[t] = "refused" /\ lock = "free"
  /\ heap' = [heap EXCEPT ![buckets[prop[t]]] = Roll(@, clock)]
  /\ at' = [at EXCEPT ![t] = "denied"]
  /\ UNCHANGED <<clock, buckets, lock, prop, kind, ref, hourRead, grants>>

\* The answer, a page or a 429, is written and the request is over.
Reply(t) ==
  /\ at[t] = "denied" \/ (at[t] = "granted" /\ kind[t] # "beyond")
  /\ at' = [at EXCEPT ![t] = "idle"]
  /\ ref' = [ref EXCEPT ![t] = 0]
  /\ prop' = [prop EXCEPT ![t] = "none"]
  /\ kind' = [kind EXCEPT ![t] = "none"]
  /\ UNCHANGED <<clock, storeVars, hourRead, grants>>

\* The page is cut out of the rows after the tokens are spent: a slice that would
\* begin beyond the last row panics, and net/http cuts the connection.
Panic(t) ==
  /\ at[t] = "granted" /\ kind[t] = "beyond"
  /\ at' = [at EXCEPT ![t] = "cut"]
  /\ ref' = [ref EXCEPT ![t] = 0]
  /\ UNCHANGED <<clock, storeVars, prop, kind, hourRead, grants>>

Tick ==
  /\ clock < MaxHours
  /\ clock' = clock + 1
  /\ UNCHANGED <<storeVars, threadVars, grants>>

-----------------------------------------------------------------------------

None == [p \in Property |-> [h \in Hours |-> 0]]

Init ==
  /\ clock = 0
  /\ heap = <<>> /\ buckets = [p \in Property |-> 0] /\ lock = "free"
  /\ at = [t \in Thread |-> "idle"]
  /\ prop = [t \in Thread |-> "none"] /\ kind = [t \in Thread |-> "none"]
  /\ ref = [t \in Thread |-> 0] /\ hourRead = [t \in Thread |-> 0]
  /\ hourGrants = None /\ dayGrants = None /\ rtGrants = None

Serve(t) ==
  \/ LookAgain(t) \/ CreateBucket(t)
  \/ SpendReport(t) \/ RefuseReport(t) \/ HourlySpent(t)
  \/ SpendRealtime(t) \/ RefuseRealtime(t)
  \/ Reply(t) \/ Panic(t)

Next ==
  \/ Tick
  \/ \E t \in Thread : Serve(t) \/ \E r \in Request : Lookup(t, r[1], r[2])

Spec == Init /\ [][Next]_vars

\* A goroutine that can run runs; whether requests or hours come is left open.
FairSpec == Spec /\ \A t \in Thread : WF_vars(Serve(t))

-----------------------------------------------------------------------------
(* Properties *)

\* Types; who holds the write lock, and which requests have a property.
TypeOK ==
  /\ clock \in Hours
  /\ heap \in Seq(Bucket)
  /\ buckets \in [Property -> 0..Len(heap)]
  /\ lock \in Thread \union {"free"}
  /\ \A t \in Thread : lock = t <=> at[t] = "creating"
  /\ at \in [Thread -> Place]
  /\ prop \in [Thread -> Property \union {"none"}]
  /\ kind \in [Thread -> Kind \union {"none"}]
  /\ \A t \in Thread : prop[t] = "none" <=> at[t] = "idle"
  /\ \A t \in Thread : kind[t] = "none" <=> at[t] = "idle"
  /\ ref \in [Thread -> 0..Len(heap)]
  /\ hourRead \in [Thread -> Hours]
  /\ hourGrants \in [Property -> [Hours -> Nat]]
  /\ dayGrants \in [Property -> [Hours -> Nat]]
  /\ rtGrants \in [Property -> [Hours -> Nat]]

\* However many requests race to make a property's bucket, all of them spend
\* from the same one.  (the second look in QuotaStore.bucket)
OneBucketPerProperty ==
  /\ \A p \in Property : buckets[p] # 0 =>
       \A q \in Property : buckets[q] = buckets[p] => q = p
  /\ \A t \in Thread : ref[t] # 0 => ref[t] = buckets[prop[t]]

\* No property is granted more than its hourly limit in any clock hour, nor
\* more than its daily limits in any clock day, whoever rolled the bucket, when
\* it was made and however requests interleave.
GrantsWithinLimits ==
  \A p \in Property, h \in Hours :
    /\ hourGrants[p][h] <= HourlyTokenLimit
    /\ dayGrants[p][h] <= DailyTokenLimit
    /\ rtGrants[p][h] <= RealtimeDailyLimit

\* What the bucket still counts for the present hour is part of what it counts
\* for the present day: no roll clears the day and leaves the hour, even when
\* the bucket was made across the end of an hour.
HourWithinDay ==
  \A i \in 1..Len(heap) :
    heap[i].hourly <= heap[i].daily /\ heap[i].dayWindow >= Day(heap[i].hourWindow)

Verdict(place) ==
  IF place = "granted" THEN "granted"
  ELSE IF place \in {"refused", "denied"} THEN "refused" ELSE "none"

\* The tokens a request of kind k needs: every page of a report costs the same.
Needs(k) == IF k = "realtime" THEN "realtime" ELSE "core"

Budget == INSTANCE TokenBudget
            WITH Cost    <- TokenCost,
                 prop    <- [t \in Thread |-> IF Under(t) THEN prop[t] ELSE "none"],
                 budget  <- [t \in Thread |-> IF Under(t) THEN Needs(kind[t]) ELSE "none"],
                 verdict <- [t \in Thread |-> Verdict(at[t])]

\* Rolling lazily is the same as clearing the meters at the hour: the store
\* implements the budgets.  A request is granted when its property's own meter
\* for the tokens it needs has them in the present hour and day, and refused
\* only when that meter, and not another's, has not.
ImplementsBudget == Budget!BudgetSpec

\* Whoever holds a lock, every request that is taken up comes to an end, and all
\* but one sort are answered, with a page or a 429.  A page beyond the rows may
\* be cut off without an answer, after its tokens were spent; even then it holds
\* nothing back from the requests after it.  (the slice of NewReportHandler)
EveryRequestAnswered ==
  \A t \in Thread :
    Under(t) ~> at[t] = "idle" \/ (at[t] = "cut" /\ kind[t] = "beyond")
=============================================================================
