---------------------------- MODULE QuotaProofs ----------------------------
(***************************************************************************)
(* Proofs about the quota store, for every number of requests, properties  *)
(* and hours and every limit.  The invariant relates each bucket to the    *)
(* tokens granted: seen through Roll, a bucket holds exactly what the      *)
(* present hour and day have granted (Accounted), and nothing is granted   *)
(* ahead of time (Future).                                                 *)
(***************************************************************************)
EXTENDS Quota, Integers, SequenceTheorems, TLAPS

HasBucket(t) == at[t] \in {"ready", "granted", "refused", "denied"}

\* The lock, and the references requests have in hand.
RefInv ==
  \A t \in Thread :
    /\ HasBucket(t) => ref[t] # 0 /\ ref[t] = buckets[prop[t]]
    /\ ~HasBucket(t) => ref[t] = 0
    /\ at[t] = "creating" => buckets[prop[t]] = 0 /\ hourRead[t] <= clock

TypeInv == TypeOK /\ RefInv

Distinct ==
  \A p, q \in Property : buckets[p] = buckets[q] /\ buckets[p] # 0 => p = q

\* A bucket's windows have begun, and the day's no earlier than the hour's.
WellFormed(b) ==
  /\ b.hourWindow <= clock /\ b.dayWindow <= Day(clock)
  /\ Day(b.hourWindow) <= b.dayWindow
  /\ b.hourly <= b.daily

Granted(p, hourly, daily, realtime) ==
  /\ hourGrants[p][clock] = hourly
  /\ dayGrants[p][Day(clock)] = daily
  /\ rtGrants[p][Day(clock)] = realtime

Accounted(p) ==
  /\ buckets[p] = 0 => Granted(p, 0, 0, 0)
  /\ buckets[p] # 0 =>
       LET b == Roll(heap[buckets[p]], clock)
       IN  Granted(p, b.hourly, b.daily, b.realtime)

Future(p) ==
  \A h \in Hours :
    /\ h > clock => hourGrants[p][h] = 0
    /\ h > Day(clock) => dayGrants[p][h] = 0 /\ rtGrants[p][h] = 0

IndInv ==
  /\ TypeInv
  /\ Distinct
  /\ \A i \in 1..Len(heap) : WellFormed(heap[i])
  /\ \A p \in Property : Accounted(p) /\ Future(p)
  /\ GrantsWithinLimits

-----------------------------------------------------------------------------
(* Hours and days *)

LEMMA DivBounds ==
  ASSUME NEW n \in Nat \ {0}, NEW h \in Nat
  PROVE  h \div n \in Nat /\ n * (h \div n) <= h /\ h < n * (h \div n) + n
  OBVIOUS

LEMMA QuotientOrder ==
  ASSUME NEW n \in Nat \ {0}, NEW x \in Nat, NEW y \in Nat,
         NEW h \in Nat, NEW k \in Nat,
         n * x <= h, h <= k, k < n * y + n
  PROVE  x <= y
<1> SUFFICES ASSUME x >= y + 1 PROVE FALSE
  OBVIOUS
<1>1. n * x >= n * (y + 1)
  OBVIOUS
<1>2. n * (y + 1) = n * y + n
  OBVIOUS
<1>3. n * x \in Nat /\ n * y \in Nat
  OBVIOUS
<1> QED
  BY <1>1, <1>2, <1>3

\* A later hour is not in an earlier day, and days are numbered within Hours.
LEMMA DayOrder ==
  /\ \A h \in Hours : Day(h) \in Hours /\ h \in Nat /\ Day(h) \in Nat
  /\ \A h, k \in Hours : h <= k => Day(h) <= Day(k)
<1>1. HoursPerDay \in Nat \ {0} /\ MaxHours \in Nat
  BY QuotaAssumption
<1>2. ASSUME NEW h \in Hours
      PROVE  Day(h) \in Hours /\ h \in Nat /\ Day(h) \in Nat
  <2>1. h \in Nat /\ h <= MaxHours
    BY <1>1, <1>2 DEF Hours
  <2>2. /\ Day(h) \in Nat /\ HoursPerDay * Day(h) <= h
    BY <1>1, <2>1, DivBounds DEF Day
  <2>3. Day(h) <= HoursPerDay * Day(h)
    BY <1>1, <2>2
  <2>4. HoursPerDay * Day(h) \in Nat
    BY <1>1, <2>2
  <2> QED
    BY <1>1, <2>1, <2>2, <2>3, <2>4 DEF Hours
<1>3. ASSUME NEW h \in Hours, NEW k \in Hours, h <= k
      PROVE  Day(h) <= Day(k)
  <2>1. h \in Nat /\ k \in Nat
    BY <1>1 DEF Hours
  <2>2. /\ Day(h) \in Nat /\ HoursPerDay * Day(h) <= h
        /\ Day(k) \in Nat /\ k < HoursPerDay * Day(k) + HoursPerDay
    BY <1>1, <2>1, DivBounds DEF Day
  <2> QED
    BY <1>1, <1>3, <2>1, <2>2, QuotientOrder
<1> QED
  BY <1>2, <1>3

LEMMA CostNat == TokenCost \in Nat
  BY QuotaAssumption, DivBounds DEF TokenCost

-----------------------------------------------------------------------------
(* Rolling a bucket *)

\* A rolled bucket's windows are the present ones; rolling it again does nothing.
LEMMA RollProps ==
  ASSUME NEW b \in Bucket, NEW now \in Hours,
         b.hourWindow <= now, b.dayWindow <= Day(now)
  PROVE  /\ Roll(b, now) \in Bucket
         /\ Roll(b, now).hourWindow = now
         /\ Roll(b, now).dayWindow = Day(now)
         /\ Roll(b, now).hourly = IF now > b.hourWindow THEN 0 ELSE b.hourly
         /\ Roll(b, now).daily = IF Day(now) > b.dayWindow THEN 0 ELSE b.daily
         /\ Roll(b, now).realtime = IF Day(now) > b.dayWindow THEN 0 ELSE b.realtime
<1>1. now \in Nat /\ Day(now) \in Nat
  BY DayOrder
<1>2. /\ b.hourly \in Nat /\ b.daily \in Nat /\ b.realtime \in Nat
      /\ b.hourWindow \in Nat /\ b.dayWindow \in Nat
  BY DEF Bucket
<1> QED
  BY <1>1, <1>2 DEF Roll, Bucket

\* A bucket whose windows are the present ones is left alone.
LEMMA RollCurrent ==
  ASSUME NEW b \in Bucket, NEW now \in Hours,
         b.hourWindow = now, b.dayWindow = Day(now)
  PROVE  /\ Roll(b, now).hourly = b.hourly
         /\ Roll(b, now).daily = b.daily
         /\ Roll(b, now).realtime = b.realtime
<1>1. now \in Nat /\ Day(now) \in Nat
  BY DayOrder
<1>2. ~(now > b.hourWindow) /\ ~(Day(now) > b.dayWindow)
  BY <1>1
<1> QED
  BY <1>2 DEF Roll

LEMMA RollType ==
  ASSUME NEW b \in Bucket, NEW now \in Hours
  PROVE  Roll(b, now) \in Bucket
<1>1. now \in Nat /\ Day(now) \in Nat
  BY DayOrder
<1> QED
  BY <1>1 DEF Roll, Bucket

-----------------------------------------------------------------------------
(* Types *)

LEMMA InitType == Init => TypeInv
<1> SUFFICES ASSUME Init PROVE TypeInv
  OBVIOUS
<1>1. 0 \in Hours
  BY QuotaAssumption DEF Hours
<1>2. <<>> \in Seq(Bucket) /\ Len(<<>>) = 0
  OBVIOUS
<1> QED
  BY <1>1, <1>2, QuotaAssumption
  DEF Init, None, TypeInv, TypeOK, RefInv, HasBucket, Place, Kind

\* A request with a bucket in hand has a property and refers into the heap.
LEMMA InHand ==
  ASSUME TypeInv, NEW t \in Thread, HasBucket(t)
  PROVE  /\ prop[t] \in Property /\ ref[t] \in 1..Len(heap)
         /\ ref[t] = buckets[prop[t]]
         /\ heap[ref[t]] \in Bucket
         /\ Roll(heap[ref[t]], clock) \in Bucket
<1>1. Len(heap) \in Nat
  BY LenProperties DEF TypeInv, TypeOK
<1>2. prop[t] \in Property
  BY DEF TypeInv, TypeOK, HasBucket
<1>3. ref[t] # 0 /\ ref[t] = buckets[prop[t]]
  BY DEF TypeInv, RefInv
<1>4. ref[t] \in 1..Len(heap)
  BY <1>1, <1>3 DEF TypeInv, TypeOK
<1>5. heap[ref[t]] \in Bucket
  BY <1>4, ElementOfSeq DEF TypeInv, TypeOK
<1> QED
  BY <1>2, <1>3, <1>4, <1>5, RollType DEF TypeInv, TypeOK

\* Writing a bucket back.
LEMMA HeapUpdate ==
  ASSUME TypeInv, NEW r \in 1..Len(heap), NEW c \in Bucket,
         heap' = [heap EXCEPT ![r] = c]
  PROVE  /\ heap' \in Seq(Bucket) /\ Len(heap') = Len(heap)
         /\ heap'[r] = c
         /\ \A i \in 1..Len(heap) : i # r => heap'[i] = heap[i]
  BY ExceptSeq DEF TypeInv, TypeOK

LEMMA LookAgainType ==
  ASSUME TypeInv, NEW t \in Thread, LookAgain(t)
  PROVE  TypeInv'
<1>1. /\ prop[t] \in Property /\ at[t] = "missed" /\ lock = "free"
      /\ clock \in Nat /\ ref[t] = 0
  BY DayOrder DEF LookAgain, TypeInv, TypeOK, RefInv, HasBucket
<1>2. UNCHANGED <<clock, heap, buckets, prop, kind, hourGrants, dayGrants, rtGrants>>
  BY DEF LookAgain, grants
<1>3. \A u \in Thread : at[u] # "creating"
  BY <1>1, QuotaAssumption DEF TypeInv, TypeOK
<1>4. CASE buckets[prop[t]] # 0
  <2>1. /\ ref' = [ref EXCEPT ![t] = buckets[prop[t]]]
        /\ at' = [at EXCEPT ![t] = "ready"]
        /\ lock' = lock /\ hourRead' = hourRead
    BY <1>4 DEF LookAgain
  <2>2. /\ at' \in [Thread -> Place] /\ at'[t] = "ready" /\ ref'[t] = buckets[prop[t]]
        /\ \A u \in Thread : u # t => at'[u] = at[u] /\ ref'[u] = ref[u]
    BY <2>1 DEF TypeInv, TypeOK, Place
  <2>3. ref' \in [Thread -> 0..Len(heap)]
    BY <1>1, <2>1 DEF TypeInv, TypeOK
  <2>4. TypeOK'
    BY <1>1, <1>2, <1>3, <2>1, <2>2, <2>3, QuotaAssumption DEF TypeInv, TypeOK
  <2>5. RefInv'
    BY <1>2, <1>3, <1>4, <2>2 DEF TypeInv, RefInv, HasBucket
  <2> QED
    BY <2>4, <2>5 DEF TypeInv
<1>5. CASE buckets[prop[t]] = 0
  <2>1. /\ at' = [at EXCEPT ![t] = "creating"] /\ ref' = ref /\ lock' = t
        /\ hourRead' = [hourRead EXCEPT ![t] = clock]
    BY <1>5 DEF LookAgain
  <2>2. /\ at' \in [Thread -> Place] /\ at'[t] = "creating" /\ hourRead'[t] = clock
        /\ \A u \in Thread : u # t => at'[u] = at[u]
    BY <2>1 DEF TypeInv, TypeOK, Place
  <2>3. hourRead' \in [Thread -> Hours]
    BY <2>1 DEF TypeInv, TypeOK
  <2>4. \A u \in Thread : lock' = u <=> at'[u] = "creating"
    BY <1>3, <2>1, <2>2
  <2>5. TypeOK'
    BY <1>1, <1>2, <2>1, <2>2, <2>3, <2>4 DEF TypeInv, TypeOK
  <2>6. RefInv'
    BY <1>1, <1>2, <1>3, <1>5, <2>1, <2>2 DEF TypeInv, RefInv, HasBucket
  <2> QED
    BY <2>5, <2>6 DEF TypeInv
<1> QED
  BY <1>4, <1>5

LEMMA CreateBucketType ==
  ASSUME TypeInv, NEW t \in Thread, CreateBucket(t)
  PROVE  TypeInv'
<1> DEFINE new == [hourly |-> 0, daily |-> 0, realtime |-> 0,
                   hourWindow |-> hourRead[t], dayWindow |-> Day(clock)]
<1>1. prop[t] \in Property /\ at[t] = "creating" /\ lock = t
  BY DEF CreateBucket, TypeInv, TypeOK
<1>2. hourRead[t] \in Nat /\ Day(clock) \in Nat /\ 0 \in Hours
  BY DayOrder, QuotaAssumption, SMTT(30) DEF TypeInv, TypeOK, Hours
<1>3. new \in Bucket
  BY <1>2 DEF Bucket
<1>4. heap' \in Seq(Bucket) /\ Len(heap') = Len(heap) + 1 /\ Len(heap) \in Nat
  BY <1>3, AppendProperties, LenProperties DEF CreateBucket, TypeInv, TypeOK
<1>5. /\ buckets' \in [Property -> 0..Len(heap')]
      /\ ref' \in [Thread -> 0..Len(heap')]
  <2>1. Len(heap) + 1 \in 0..Len(heap') /\ 0..Len(heap) \subseteq 0..Len(heap')
    BY <1>4
  <2>2. /\ buckets' = [buckets EXCEPT ![prop[t]] = Len(heap) + 1]
        /\ ref' = [ref EXCEPT ![t] = Len(heap) + 1]
    BY DEF CreateBucket
  <2>3. buckets \in [Property -> 0..Len(heap')] /\ ref \in [Thread -> 0..Len(heap')]
    BY <2>1 DEF TypeInv, TypeOK
  <2> QED
    BY <2>1, <2>2, <2>3
<1>6. /\ lock' = "free" /\ at' = [at EXCEPT ![t] = "ready"]
      /\ prop' = prop /\ kind' = kind
      /\ hourRead' = [hourRead EXCEPT ![t] = 0] /\ clock' = clock
      /\ UNCHANGED <<hourGrants, dayGrants, rtGrants>>
  BY DEF CreateBucket, grants
<1>7. TypeOK'
  <2>1. \A u \in Thread : at[u] = "creating" <=> u = t
    BY <1>1 DEF TypeInv, TypeOK
  <2>2. at' \in [Thread -> Place]
    BY <1>6 DEF TypeInv, TypeOK, Place
  <2>3. \A u \in Thread : at'[u] # "creating"
    BY <1>6, <2>1 DEF TypeInv, TypeOK
  <2>4. /\ \A u \in Thread : prop'[u] = "none" <=> at'[u] = "idle"
        /\ \A u \in Thread : kind'[u] = "none" <=> at'[u] = "idle"
    BY <1>1, <1>6, QuotaAssumption DEF TypeInv, TypeOK
  <2> QED
    BY <1>2, <1>4, <1>5, <1>6, <2>2, <2>3, <2>4, QuotaAssumption DEF TypeInv, TypeOK
<1>8. RefInv'
  <2> SUFFICES ASSUME NEW u \in Thread
               PROVE  /\ HasBucket(u)' => ref'[u] # 0 /\ ref'[u] = buckets'[prop'[u]]
                      /\ ~HasBucket(u)' => ref'[u] = 0
                      /\ at'[u] # "creating"
    BY DEF RefInv
  <2>1. buckets' = [buckets EXCEPT ![prop[t]] = Len(heap) + 1]
        /\ ref' = [ref EXCEPT ![t] = Len(heap) + 1]
    BY DEF CreateBucket
  <2>2. CASE u = t
    BY <1>1, <1>4, <1>6, <2>1, <2>2 DEF TypeInv, TypeOK, HasBucket
  <2>3. CASE u # t
    <3>1. at'[u] = at[u] /\ ref'[u] = ref[u] /\ at[u] # "creating"
      BY <1>1, <1>6, <2>1, <2>3 DEF TypeInv, TypeOK
    <3>2. HasBucket(u) => prop[u] # prop[t]
      BY <1>1 DEF TypeInv, RefInv
    <3>3. HasBucket(u) => buckets'[prop[u]] = buckets[prop[u]]
      BY <2>1, <3>2, InHand DEF TypeInv, TypeOK
    <3> QED
      BY <1>6, <3>1, <3>3 DEF TypeInv, RefInv, HasBucket
  <2> QED
    BY <2>2, <2>3
<1> QED
  BY <1>7, <1>8 DEF TypeInv

LEMMA LookupType ==
  ASSUME TypeInv, NEW t \in Thread, NEW p \in Property, NEW k \in Kind, Lookup(t, p, k)
  PROVE  TypeInv'
<1>1. /\ at[t] \in {"idle", "cut"} /\ lock = "free" /\ buckets[p] \in 0..Len(heap)
      /\ p # "none" /\ k # "none"
  BY QuotaAssumption DEF Lookup, Under, Kind, TypeInv, TypeOK
<1>2. UNCHANGED <<clock, heap, buckets, lock, hourRead, hourGrants, dayGrants, rtGrants>>
  BY DEF Lookup, grants, storeVars
<1>3. /\ at' \in [Thread -> Place]
      /\ at'[t] = IF buckets[p] # 0 THEN "ready" ELSE "missed"
      /\ prop' \in [Thread -> Property \union {"none"}] /\ prop'[t] = p
      /\ kind' \in [Thread -> Kind \union {"none"}] /\ kind'[t] = k
      /\ ref' \in [Thread -> 0..Len(heap)] /\ ref'[t] = buckets[p]
      /\ \A u \in Thread : u # t =>
            at'[u] = at[u] /\ prop'[u] = prop[u] /\ kind'[u] = kind[u] /\ ref'[u] = ref[u]
  BY <1>1 DEF Lookup, TypeInv, TypeOK, Place
<1>4. TypeOK'
  <2>1. \A u \in Thread : lock' = u <=> at'[u] = "creating"
    <3>1. at[t] # "creating" /\ at'[t] # "creating" /\ lock' = lock
      BY <1>1, <1>2, <1>3
    <3> QED
      BY <1>3, <3>1 DEF TypeInv, TypeOK
  <2>2. at'[t] # "idle"
    BY <1>3
  <2>3. ASSUME NEW u \in Thread
        PROVE  /\ prop'[u] = "none" <=> at'[u] = "idle"
               /\ kind'[u] = "none" <=> at'[u] = "idle"
    <3>1. CASE u = t
      BY <1>1, <1>3, <2>2, <3>1
    <3>2. CASE u # t
      BY <1>3, <3>2 DEF TypeInv, TypeOK
    <3> QED
      BY <3>1, <3>2
  <2> QED
    BY <1>2, <1>3, <2>1, <2>3 DEF TypeInv, TypeOK
<1>5. RefInv'
  <2> SUFFICES ASSUME NEW u \in Thread
               PROVE  /\ HasBucket(u)' => ref'[u] # 0 /\ ref'[u] = buckets'[prop'[u]]
                      /\ ~HasBucket(u)' => ref'[u] = 0
                      /\ at'[u] = "creating" =>
                           buckets'[prop'[u]] = 0 /\ hourRead'[u] <= clock'
    BY DEF RefInv
  <2>1. CASE u = t
    BY <1>2, <1>3, <2>1 DEF HasBucket
  <2>2. CASE u # t
    BY <1>2, <1>3, <2>2 DEF TypeInv, RefInv, HasBucket
  <2> QED
    BY <2>1, <2>2
<1> QED
  BY <1>4, <1>5 DEF TypeInv

\* A request with its bucket in hand moves on and keeps it.
LEMMA MoveType ==
  ASSUME TypeInv, NEW t \in Thread, HasBucket(t),
         NEW place \in {"ready", "granted", "refused", "denied"},
         at' = [at EXCEPT ![t] = place],
         heap' \in Seq(Bucket), Len(heap') = Len(heap),
         UNCHANGED <<clock, buckets, lock, prop, kind, ref, hourRead>>,
         hourGrants' \in [Property -> [Hours -> Nat]],
         dayGrants' \in [Property -> [Hours -> Nat]],
         rtGrants' \in [Property -> [Hours -> Nat]]
  PROVE  TypeInv'
<1>1. /\ at' \in [Thread -> Place] /\ at'[t] = place
      /\ \A u \in Thread : u # t => at'[u] = at[u]
  BY DEF TypeInv, TypeOK, Place
<1>2. TypeOK'
  BY <1>1 DEF TypeInv, TypeOK, HasBucket
<1>3. RefInv'
  BY <1>1 DEF TypeInv, RefInv, HasBucket
<1> QED
  BY <1>2, <1>3 DEF TypeInv

\* Charging a history: one property, one hour or day.
LEMMA ChargeType ==
  ASSUME NEW f \in [Property -> [Hours -> Nat]], NEW p \in Property, NEW h \in Hours,
         NEW n \in Nat
  PROVE  LET g == [f EXCEPT ![p][h] = @ + n]
         IN  /\ g \in [Property -> [Hours -> Nat]]
             /\ g[p][h] = f[p][h] + n
             /\ \A q \in Property, k \in Hours : q # p \/ k # h => g[q][k] = f[q][k]
  OBVIOUS

\* Charging a bucket.
LEMMA ChargeBucket ==
  ASSUME NEW b \in Bucket, NEW n \in Nat
  PROVE  LET c == [b EXCEPT !.hourly = @ + n, !.daily = @ + n]
             d == [b EXCEPT !.realtime = @ + n]
         IN  /\ c \in Bucket /\ c.hourly = b.hourly + n /\ c.daily = b.daily + n
             /\ c.realtime = b.realtime
             /\ c.hourWindow = b.hourWindow /\ c.dayWindow = b.dayWindow
             /\ d \in Bucket /\ d.hourly = b.hourly /\ d.daily = b.daily
             /\ d.realtime = b.realtime + n
             /\ d.hourWindow = b.hourWindow /\ d.dayWindow = b.dayWindow
<1> DEFINE c == [b EXCEPT !.hourly = @ + n, !.daily = @ + n]
           d == [b EXCEPT !.realtime = @ + n]
<1>1. b.hourly + n \in Nat /\ b.daily + n \in Nat /\ b.realtime + n \in Nat
  BY DEF Bucket
<1>2. c \in Bucket /\ d \in Bucket
  BY <1>1, Zenon DEF Bucket
<1>3. /\ c.hourly = b.hourly + n /\ c.daily = b.daily + n /\ c.realtime = b.realtime
      /\ c.hourWindow = b.hourWindow /\ c.dayWindow = b.dayWindow
  BY DEF Bucket
<1>4. /\ d.hourly = b.hourly /\ d.daily = b.daily /\ d.realtime = b.realtime + n
      /\ d.hourWindow = b.hourWindow /\ d.dayWindow = b.dayWindow
  BY DEF Bucket
<1> QED
  BY <1>2, <1>3, <1>4

LEMMA SpendReportType ==
  ASSUME TypeInv, NEW t \in Thread, SpendReport(t)
  PROVE  TypeInv'
<1> DEFINE b == Roll(heap[ref[t]], clock)
           c == [b EXCEPT !.hourly = @ + TokenCost, !.daily = @ + TokenCost]
<1>1. HasBucket(t) /\ at' = [at EXCEPT ![t] = "granted"]
  BY DEF SpendReport, HasBucket
<1>2. c \in Bucket
  <2>1. b \in Bucket
    BY <1>1, InHand
  <2> HIDE DEF b
  <2> QED
    BY <2>1, CostNat, ChargeBucket
<1>3. heap' \in Seq(Bucket) /\ Len(heap') = Len(heap)
  BY <1>1, <1>2, InHand, HeapUpdate DEF SpendReport
<1>4. clock \in Hours /\ Day(clock) \in Hours
  BY DayOrder DEF TypeInv, TypeOK
<1>5. /\ hourGrants' \in [Property -> [Hours -> Nat]]
      /\ dayGrants' \in [Property -> [Hours -> Nat]]
  <2>1. /\ hourGrants \in [Property -> [Hours -> Nat]]
        /\ dayGrants \in [Property -> [Hours -> Nat]]
        /\ prop[t] \in Property
    BY <1>1, InHand DEF TypeInv, TypeOK
  <2>2. /\ hourGrants' = [hourGrants EXCEPT ![prop[t]][clock] = @ + TokenCost]
        /\ dayGrants' = [dayGrants EXCEPT ![prop[t]][Day(clock)] = @ + TokenCost]
    BY DEF SpendReport
  <2> QED
    BY <1>4, <2>1, <2>2, ChargeType, CostNat
<1> QED
  BY <1>1, <1>3, <1>5, MoveType DEF SpendReport, TypeInv, TypeOK

LEMMA SpendRealtimeType ==
  ASSUME TypeInv, NEW t \in Thread, SpendRealtime(t)
  PROVE  TypeInv'
<1> DEFINE b == Roll(heap[ref[t]], clock)
<1>1. HasBucket(t) /\ at' = [at EXCEPT ![t] = "granted"]
  BY DEF SpendRealtime, HasBucket
<1>2. [b EXCEPT !.realtime = @ + 1] \in Bucket
  <2>1. b \in Bucket
    BY <1>1, InHand
  <2> HIDE DEF b
  <2> QED
    BY <2>1, ChargeBucket
<1>3. heap' \in Seq(Bucket) /\ Len(heap') = Len(heap)
  BY <1>1, <1>2, InHand, HeapUpdate DEF SpendRealtime
<1>4. clock \in Hours /\ Day(clock) \in Hours
  BY DayOrder DEF TypeInv, TypeOK
<1>5. rtGrants' \in [Property -> [Hours -> Nat]]
  <2>1. rtGrants \in [Property -> [Hours -> Nat]] /\ prop[t] \in Property
    BY <1>1, InHand DEF TypeInv, TypeOK
  <2>2. rtGrants' = [rtGrants EXCEPT ![prop[t]][Day(clock)] = @ + 1]
    BY DEF SpendRealtime
  <2> QED
    BY <1>4, <2>1, <2>2, ChargeType
<1> QED
  BY <1>1, <1>3, <1>5, MoveType DEF SpendRealtime, TypeInv, TypeOK

\* A request that only rolls its bucket: it is refused, or it logs the refusal.
RollOnly(t) ==
  /\ HasBucket(t)
  /\ heap' = [heap EXCEPT ![ref[t]] = Roll(heap[ref[t]], clock)]
  /\ \E place \in {"refused", "denied"} : at' = [at EXCEPT ![t] = place]
  /\ UNCHANGED <<clock, buckets, lock, prop, kind, ref, hourRead, grants>>

LEMMA RefusalsRoll ==
  ASSUME TypeInv, NEW t \in Thread,
         RefuseReport(t) \/ RefuseRealtime(t) \/ HourlySpent(t)
  PROVE  RollOnly(t)
<1>1. HasBucket(t)
  BY DEF RefuseReport, RefuseRealtime, HourlySpent, HasBucket
<1>2. ref[t] = buckets[prop[t]]
  BY <1>1, InHand
<1> QED
  BY <1>1, <1>2 DEF RollOnly, RefuseReport, RefuseRealtime, HourlySpent

LEMMA RollOnlyType ==
  ASSUME TypeInv, NEW t \in Thread, RollOnly(t)
  PROVE  TypeInv'
<1>1. HasBucket(t)
  BY DEF RollOnly
<1>2. heap' \in Seq(Bucket) /\ Len(heap') = Len(heap)
  BY <1>1, InHand, HeapUpdate DEF RollOnly
<1> QED
  BY <1>1, <1>2, MoveType DEF RollOnly, grants, TypeInv, TypeOK

\* A request that ends lets go of its bucket, answered or cut off.
LEMMA EndType ==
  ASSUME TypeInv, NEW t \in Thread, Reply(t) \/ Panic(t)
  PROVE  TypeInv'
<1>1. UNCHANGED <<clock, heap, buckets, lock, hourRead, hourGrants, dayGrants, rtGrants>>
  BY DEF Reply, Panic, grants, storeVars
<1>2. Len(heap) \in Nat /\ at[t] \in {"granted", "denied"}
  BY LenProperties DEF Reply, Panic, TypeInv, TypeOK
<1>3. /\ at' \in [Thread -> Place] /\ at'[t] \in {"idle", "cut"}
      /\ ref' \in [Thread -> 0..Len(heap)] /\ ref'[t] = 0
      /\ \A u \in Thread : u # t => at'[u] = at[u] /\ ref'[u] = ref[u]
  <2>1. PICK place \in {"idle", "cut"} :
          at' = [at EXCEPT ![t] = place] /\ ref' = [ref EXCEPT ![t] = 0]
    BY DEF Reply, Panic
  <2>2. at' \in [Thread -> Place] /\ at'[t] = place
    BY <2>1 DEF TypeInv, TypeOK, Place
  <2>3. ref' \in [Thread -> 0..Len(heap)] /\ ref'[t] = 0
    BY <1>2, <2>1 DEF TypeInv, TypeOK
  <2> QED
    BY <2>1, <2>2, <2>3 DEF TypeInv, TypeOK
<1>4. /\ prop' \in [Thread -> Property \union {"none"}]
      /\ kind' \in [Thread -> Kind \union {"none"}]
      /\ \A u \in Thread : u # t => prop'[u] = prop[u] /\ kind'[u] = kind[u]
  BY DEF Reply, Panic, TypeInv, TypeOK
<1>5. /\ prop'[t] = "none" <=> at'[t] = "idle"
      /\ kind'[t] = "none" <=> at'[t] = "idle"
  BY <1>2 DEF Reply, Panic, TypeInv, TypeOK
<1>6. TypeOK'
  <2>1. \A u \in Thread : lock' = u <=> at'[u] = "creating"
    BY <1>1, <1>2, <1>3 DEF TypeInv, TypeOK
  <2>2. /\ \A u \in Thread : prop'[u] = "none" <=> at'[u] = "idle"
        /\ \A u \in Thread : kind'[u] = "none" <=> at'[u] = "idle"
    BY <1>3, <1>4, <1>5 DEF TypeInv, TypeOK
  <2> QED
    BY <1>1, <1>3, <1>4, <2>1, <2>2 DEF TypeInv, TypeOK
<1>7. RefInv'
  <2> SUFFICES ASSUME NEW u \in Thread
               PROVE  /\ HasBucket(u)' => ref'[u] # 0 /\ ref'[u] = buckets'[prop'[u]]
                      /\ ~HasBucket(u)' => ref'[u] = 0
                      /\ at'[u] = "creating" =>
                           buckets'[prop'[u]] = 0 /\ hourRead'[u] <= clock'
    BY DEF RefInv
  <2>1. CASE u = t
    BY <1>1, <1>3, <2>1 DEF HasBucket
  <2>2. CASE u # t
    BY <1>1, <1>3, <1>4, <2>2 DEF TypeInv, RefInv, HasBucket
  <2> QED
    BY <2>1, <2>2
<1> QED
  BY <1>6, <1>7 DEF TypeInv

LEMMA TickType ==
  ASSUME TypeInv, Tick
  PROVE  TypeInv'
<1>1. clock \in Nat /\ clock' = clock + 1 /\ clock' \in Hours
  BY QuotaAssumption DEF Tick, TypeInv, TypeOK, Hours
<1>2. UNCHANGED <<storeVars, threadVars, grants>>
  BY DEF Tick
<1>3. TypeOK'
  BY <1>1, <1>2 DEF TypeInv, TypeOK, storeVars, threadVars, grants
<1>4. \A t \in Thread : hourRead[t] \in Nat
  BY QuotaAssumption DEF TypeInv, TypeOK, Hours
<1>5. RefInv'
  BY <1>1, <1>2, <1>4 DEF TypeInv, RefInv, HasBucket, storeVars, threadVars
<1> QED
  BY <1>3, <1>5 DEF TypeInv

LEMMA RequestParts == \A r \in Request : r[1] \in Property /\ r[2] \in Kind
  BY QuotaAssumption

LEMMA NextType == TypeInv /\ [Next]_vars => TypeInv'
<1> SUFFICES ASSUME TypeInv, [Next]_vars
             PROVE  TypeInv'
  OBVIOUS
<1>1. CASE Tick
  BY <1>1, TickType
<1>2. ASSUME NEW t \in Thread, NEW p \in Property, NEW k \in Kind, Lookup(t, p, k)
      PROVE  TypeInv'
  BY <1>2, LookupType
<1>3. ASSUME NEW t \in Thread, Serve(t)
      PROVE  TypeInv'
  BY <1>3, LookAgainType, CreateBucketType, SpendReportType, SpendRealtimeType,
     RefusalsRoll, RollOnlyType, EndType DEF Serve
<1>4. CASE UNCHANGED vars
  BY <1>4 DEF vars, storeVars, threadVars, grants, TypeInv, TypeOK, RefInv, HasBucket
<1> QED
  BY <1>1, <1>2, <1>3, <1>4, RequestParts DEF Next

\* Types hold whatever the requests and hours; a request that waits for or holds
\* no lock has a property and, once looked up, a reference into the heap.
THEOREM TypeCorrect == Spec => []TypeOK
<1>1. TypeInv => TypeOK
  BY DEF TypeInv
<1> QED
  BY InitType, NextType, <1>1, PTL DEF Spec

-----------------------------------------------------------------------------
(* The inductive invariant *)

LEMMA InitInd == Init => IndInv
<1> SUFFICES ASSUME Init PROVE IndInv
  OBVIOUS
<1>1. TypeInv /\ clock \in Hours /\ Day(clock) \in Hours
  BY InitType, DayOrder DEF TypeInv, TypeOK
<1>2. \A p \in Property, h \in Hours :
        hourGrants[p][h] = 0 /\ dayGrants[p][h] = 0 /\ rtGrants[p][h] = 0
  BY DEF Init, None
<1>3. heap = <<>> /\ Len(heap) = 0 /\ \A p \in Property : buckets[p] = 0
  BY DEF Init
<1>4. GrantsWithinLimits
  BY <1>2, QuotaAssumption DEF GrantsWithinLimits
<1>5. \A p \in Property : Accounted(p) /\ Future(p)
  BY <1>1, <1>2, <1>3 DEF Accounted, Granted, Future
<1> QED
  BY <1>1, <1>3, <1>4, <1>5 DEF IndInv, Distinct

\* The bucket of a property, where there is one.
LEMMA TheBucket ==
  ASSUME IndInv, NEW p \in Property, buckets[p] # 0
  PROVE  /\ buckets[p] \in 1..Len(heap) /\ heap[buckets[p]] \in Bucket
         /\ WellFormed(heap[buckets[p]])
<1>1. Len(heap) \in Nat /\ buckets[p] \in 0..Len(heap)
  BY LenProperties DEF IndInv, TypeInv, TypeOK
<1>2. buckets[p] \in 1..Len(heap)
  BY <1>1
<1> QED
  BY <1>2, ElementOfSeq DEF IndInv, TypeInv, TypeOK

\* Rolling a bucket that is well formed, and what it means for the grants.
LEMMA RollWellFormed ==
  ASSUME TypeOK, NEW b \in Bucket, WellFormed(b)
  PROVE  /\ Roll(b, clock) \in Bucket /\ WellFormed(Roll(b, clock))
         /\ Roll(b, clock).hourWindow = clock
         /\ Roll(b, clock).dayWindow = Day(clock)
<1> DEFINE c == Roll(b, clock)
<1>1. clock \in Hours /\ clock \in Nat /\ Day(clock) \in Nat
  BY DayOrder DEF TypeOK
<1>2. /\ b.hourly \in Nat /\ b.daily \in Nat
      /\ b.hourWindow \in Nat /\ b.dayWindow \in Nat
  BY DEF Bucket
<1>3. /\ c \in Bucket /\ c.hourWindow = clock /\ c.dayWindow = Day(clock)
      /\ c.hourly = IF clock > b.hourWindow THEN 0 ELSE b.hourly
      /\ c.daily = IF Day(clock) > b.dayWindow THEN 0 ELSE b.daily
  BY <1>1, RollProps DEF WellFormed
<1>4. c.hourly <= c.daily
  <2>1. CASE clock > b.hourWindow
    BY <1>2, <1>3, <2>1
  <2>2. CASE ~(clock > b.hourWindow)
    <3>1. b.hourWindow = clock
      BY <1>1, <1>2, <2>2 DEF WellFormed
    <3>2. ~(Day(clock) > b.dayWindow)
      BY <1>1, <1>2, <3>1 DEF WellFormed
    <3> QED
      BY <1>3, <2>2, <3>2 DEF WellFormed
  <2> QED
    BY <2>1, <2>2
<1> QED
  BY <1>1, <1>3, <1>4 DEF WellFormed

\* Steps that change no bucket, grant or hour.
LEMMA SameStoreInd ==
  ASSUME IndInv, TypeInv', UNCHANGED <<clock, heap, buckets, grants>>
  PROVE  IndInv'
  BY DEF IndInv, Distinct, WellFormed, Accounted, Granted, Future, GrantsWithinLimits, grants

\* Writing one property's bucket disturbs no other property.
LEMMA OthersKept ==
  ASSUME IndInv, NEW p \in Property, buckets[p] # 0,
         NEW c \in Bucket, WellFormed(c),
         heap' = [heap EXCEPT ![buckets[p]] = c],
         UNCHANGED <<clock, buckets>>,
         \A q \in Property : q # p =>
           /\ hourGrants'[q] = hourGrants[q]
           /\ dayGrants'[q] = dayGrants[q] /\ rtGrants'[q] = rtGrants[q]
  PROVE  /\ Distinct'
         /\ (\A i \in 1..Len(heap) : WellFormed(heap[i]))'
         /\ \A q \in Property : q # p => (Accounted(q) /\ Future(q))'
<1>1. buckets[p] \in 1..Len(heap) /\ TypeInv
  BY TheBucket DEF IndInv
<1>2. /\ Len(heap') = Len(heap) /\ heap'[buckets[p]] = c
      /\ \A i \in 1..Len(heap) : i # buckets[p] => heap'[i] = heap[i]
  BY <1>1, HeapUpdate
<1>3. Distinct'
  BY DEF IndInv, Distinct
<1>4. (\A i \in 1..Len(heap) : WellFormed(heap[i]))'
  <2> SUFFICES ASSUME NEW i \in 1..Len(heap)
               PROVE  WellFormed(heap[i])'
    BY <1>2
  <2>1. WellFormed(heap'[i])
    BY <1>2 DEF IndInv
  <2> QED
    BY <2>1 DEF WellFormed
<1>5. ASSUME NEW q \in Property, q # p
      PROVE  (Accounted(q) /\ Future(q))'
  <2>1. buckets[q] # 0 => buckets[q] # buckets[p] /\ buckets[q] \in 1..Len(heap)
    BY <1>5, TheBucket DEF IndInv, Distinct
  <2>2. buckets[q] # 0 => heap'[buckets[q]] = heap[buckets[q]]
    BY <1>2, <2>1
  <2>3. Accounted(q)'
    BY <1>5, <2>2 DEF IndInv, Accounted, Granted
  <2>4. Future(q)'
    BY <1>5 DEF IndInv, Future
  <2> QED
    BY <2>3, <2>4
<1> QED
  BY <1>3, <1>4, <1>5

\* What a request finds when it rolls the bucket it has in hand: exactly what
\* the present hour and day have granted.
LEMMA RolledInHand ==
  ASSUME IndInv, NEW t \in Thread, HasBucket(t)
  PROVE  \E p \in Property, b \in Bucket :
           /\ p = prop[t] /\ b = Roll(heap[ref[t]], clock)
           /\ ref[t] = buckets[p] /\ buckets[p] # 0
           /\ WellFormed(b) /\ b.hourWindow = clock /\ b.dayWindow = Day(clock)
           /\ Granted(p, b.hourly, b.daily, b.realtime)
<1>1. prop[t] \in Property /\ ref[t] = buckets[prop[t]] /\ buckets[prop[t]] # 0
  BY InHand DEF IndInv, TypeInv, RefInv
<1>2. heap[ref[t]] \in Bucket /\ WellFormed(heap[ref[t]])
  BY <1>1, TheBucket
<1>3. Accounted(prop[t])
  BY <1>1 DEF IndInv
<1> QED
  BY <1>1, <1>2, <1>3, RollWellFormed DEF Accounted, IndInv, TypeInv

LEMMA RollOnlyInd ==
  ASSUME IndInv, TypeInv', NEW t \in Thread, RollOnly(t)
  PROVE  IndInv'
<1>1. /\ HasBucket(t) /\ UNCHANGED <<clock, buckets>>
      /\ UNCHANGED <<hourGrants, dayGrants, rtGrants>>
  BY DEF RollOnly, grants
<1>2. PICK p \in Property, b \in Bucket :
        /\ p = prop[t] /\ b = Roll(heap[ref[t]], clock)
        /\ ref[t] = buckets[p] /\ buckets[p] # 0
        /\ WellFormed(b) /\ b.hourWindow = clock /\ b.dayWindow = Day(clock)
        /\ Granted(p, b.hourly, b.daily, b.realtime)
  BY <1>1, RolledInHand
<1>3. heap' = [heap EXCEPT ![buckets[p]] = b]
  BY <1>2 DEF RollOnly
<1>4. heap'[buckets[p]] = b /\ clock \in Hours
  <2>1. TypeInv
    BY DEF IndInv
  <2>2. buckets[p] \in 1..Len(heap)
    BY <1>2, TheBucket
  <2>3. heap'[buckets[p]] = b
    BY <1>3, <2>1, <2>2, HeapUpdate
  <2> QED
    BY <2>1, <2>3 DEF TypeInv, TypeOK
<1>5. /\ Distinct'
      /\ (\A i \in 1..Len(heap) : WellFormed(heap[i]))'
      /\ \A q \in Property : q # p => (Accounted(q) /\ Future(q))'
  BY <1>1, <1>2, <1>3, OthersKept
<1>6. (Accounted(p) /\ Future(p))'
  <2>1. Accounted(p)'
    BY <1>1, <1>2, <1>4, RollCurrent DEF Accounted, Granted
  <2>2. Future(p)'
    BY <1>1, <1>2 DEF Future, IndInv
  <2> QED
    BY <2>1, <2>2
<1>7. GrantsWithinLimits'
  BY <1>1 DEF IndInv, GrantsWithinLimits
<1> QED
  BY <1>5, <1>6, <1>7 DEF IndInv

\* A history charged for one property in its present hour or day.
LEMMA ChargeNow ==
  ASSUME NEW f \in [Property -> [Hours -> Nat]], NEW p \in Property, NEW h \in Hours,
         NEW n \in Nat, NEW g, g = [f EXCEPT ![p][h] = @ + n]
  PROVE  /\ g[p][h] = f[p][h] + n
         /\ \A k \in Hours : k # h => g[p][k] = f[p][k]
         /\ \A q \in Property : q # p => g[q] = f[q]
  OBVIOUS

LEMMA SpendReportInd ==
  ASSUME IndInv, TypeInv', NEW t \in Thread, SpendReport(t)
  PROVE  IndInv'
<1>1. HasBucket(t)
  BY DEF SpendReport, HasBucket
<1>2. PICK p \in Property, b \in Bucket :
        /\ p = prop[t] /\ b = Roll(heap[ref[t]], clock)
        /\ ref[t] = buckets[p] /\ buckets[p] # 0
        /\ WellFormed(b) /\ b.hourWindow = clock /\ b.dayWindow = Day(clock)
        /\ Granted(p, b.hourly, b.daily, b.realtime)
  BY <1>1, RolledInHand
<1> DEFINE c == [b EXCEPT !.hourly = @ + TokenCost, !.daily = @ + TokenCost]
<1>0. /\ UNCHANGED <<clock, buckets, rtGrants>>
      /\ ~Exhausted(b, TokenCost)
      /\ heap' = [heap EXCEPT ![ref[t]] = c]
      /\ hourGrants' = [hourGrants EXCEPT ![p][clock] = @ + TokenCost]
      /\ dayGrants' = [dayGrants EXCEPT ![p][Day(clock)] = @ + TokenCost]
  BY <1>2, Zenon DEF SpendReport
<1>3. /\ c \in Bucket /\ c.hourly = b.hourly + TokenCost /\ c.daily = b.daily + TokenCost
      /\ c.realtime = b.realtime /\ c.hourWindow = clock /\ c.dayWindow = Day(clock)
  BY <1>2, CostNat, ChargeBucket
<1>4. /\ clock \in Hours /\ Day(clock) \in Hours /\ clock \in Nat /\ Day(clock) \in Nat
      /\ TokenCost \in Nat
  BY DayOrder, CostNat DEF IndInv, TypeInv, TypeOK
<1> HIDE DEF c
<1>5. WellFormed(c)
  <2>1. b.hourly \in Nat /\ b.daily \in Nat /\ b.hourly <= b.daily
    BY <1>2 DEF WellFormed, Bucket
  <2> QED
    BY <1>3, <1>4, <2>1 DEF WellFormed
<1>6. /\ hourGrants'[p][clock] = hourGrants[p][clock] + TokenCost
      /\ dayGrants'[p][Day(clock)] = dayGrants[p][Day(clock)] + TokenCost
      /\ \A h \in Hours : h # clock => hourGrants'[p][h] = hourGrants[p][h]
      /\ \A h \in Hours : h # Day(clock) => dayGrants'[p][h] = dayGrants[p][h]
      /\ \A q \in Property : q # p =>
            hourGrants'[q] = hourGrants[q] /\ dayGrants'[q] = dayGrants[q]
  BY <1>0, <1>2, <1>4, ChargeNow DEF IndInv, TypeInv, TypeOK
<1>7. /\ heap' = [heap EXCEPT ![buckets[p]] = c] /\ heap'[buckets[p]] = c
  BY <1>0, <1>2, <1>3, TheBucket, HeapUpdate DEF IndInv
<1>8. /\ Distinct'
      /\ (\A i \in 1..Len(heap) : WellFormed(heap[i]))'
      /\ \A q \in Property : q # p => (Accounted(q) /\ Future(q))'
  <2>1. UNCHANGED <<clock, buckets>>
    BY <1>0
  <2>2. \A q \in Property : q # p =>
          /\ hourGrants'[q] = hourGrants[q]
          /\ dayGrants'[q] = dayGrants[q] /\ rtGrants'[q] = rtGrants[q]
    BY <1>0, <1>6
  <2> QED
    BY <1>2, <1>3, <1>5, <1>7, <2>1, <2>2, OthersKept
<1>9. Accounted(p)'
  <2>1. /\ Roll(c, clock).hourly = c.hourly /\ Roll(c, clock).daily = c.daily
        /\ Roll(c, clock).realtime = c.realtime
    BY <1>3, <1>4, RollCurrent
  <2>2. /\ clock' = clock /\ buckets'[p] = buckets[p] /\ heap'[buckets[p]] = c
        /\ rtGrants' = rtGrants
    BY <1>0, <1>7
  <2>3. /\ hourGrants'[p][clock] = c.hourly
        /\ dayGrants'[p][Day(clock)] = c.daily
        /\ rtGrants[p][Day(clock)] = c.realtime
    BY <1>2, <1>3, <1>6 DEF Granted
  <2> QED
    BY <1>2, <2>1, <2>2, <2>3 DEF Accounted, Granted
<1>10. Future(p)'
  <2>1. Future(p)
    BY <1>2 DEF IndInv
  <2>2. ASSUME NEW h \in Hours
        PROVE  /\ h > clock => h # clock
               /\ h > Day(clock) => h # Day(clock)
    BY <1>4
  <2> QED
    BY <1>0, <1>6, <2>1, <2>2 DEF Future
<1>11. GrantsWithinLimits'
  <2>1. /\ hourGrants'[p][clock] <= HourlyTokenLimit
        /\ dayGrants'[p][Day(clock)] <= DailyTokenLimit
    <3>1. /\ hourGrants[p][clock] = b.hourly /\ dayGrants[p][Day(clock)] = b.daily
          /\ b.hourly \in Nat /\ b.daily \in Nat
      BY <1>2 DEF Granted, Bucket
    <3> QED
      BY <1>0, <1>4, <1>6, <3>1, QuotaAssumption DEF Exhausted
  <2>2. ASSUME NEW q \in Property, NEW h \in Hours
        PROVE  /\ hourGrants'[q][h] <= HourlyTokenLimit
               /\ dayGrants'[q][h] <= DailyTokenLimit
               /\ rtGrants'[q][h] <= RealtimeDailyLimit
    <3>1. /\ hourGrants[q][h] <= HourlyTokenLimit
          /\ dayGrants[q][h] <= DailyTokenLimit
          /\ rtGrants[q][h] <= RealtimeDailyLimit
      BY DEF IndInv, GrantsWithinLimits
    <3> QED
      BY <1>0, <1>6, <2>1, <3>1
  <2> QED
    BY <2>2 DEF GrantsWithinLimits
<1> QED
  BY <1>8, <1>9, <1>10, <1>11 DEF IndInv

LEMMA SpendRealtimeInd ==
  ASSUME IndInv, TypeInv', NEW t \in Thread, SpendRealtime(t)
  PROVE  IndInv'
<1>1. HasBucket(t)
  BY DEF SpendRealtime, HasBucket
<1>2. PICK p \in Property, b \in Bucket :
        /\ p = prop[t] /\ b = Roll(heap[ref[t]], clock)
        /\ ref[t] = buckets[p] /\ buckets[p] # 0
        /\ WellFormed(b) /\ b.hourWindow = clock /\ b.dayWindow = Day(clock)
        /\ Granted(p, b.hourly, b.daily, b.realtime)
  BY <1>1, RolledInHand
<1> DEFINE c == [b EXCEPT !.realtime = @ + 1]
<1>0. /\ UNCHANGED <<clock, buckets, hourGrants, dayGrants>>
      /\ b.realtime + 1 <= RealtimeDailyLimit
      /\ heap' = [heap EXCEPT ![ref[t]] = c]
      /\ rtGrants' = [rtGrants EXCEPT ![p][Day(clock)] = @ + 1]
  BY <1>2, Zenon DEF SpendRealtime
<1>3. /\ c \in Bucket /\ c.hourly = b.hourly /\ c.daily = b.daily
      /\ c.realtime = b.realtime + 1 /\ c.hourWindow = clock /\ c.dayWindow = Day(clock)
  BY <1>2, ChargeBucket
<1>4. clock \in Hours /\ Day(clock) \in Hours /\ clock \in Nat /\ Day(clock) \in Nat
  BY DayOrder DEF IndInv, TypeInv, TypeOK
<1> HIDE DEF c
<1>5. WellFormed(c)
  BY <1>2, <1>3 DEF WellFormed
<1>6. /\ rtGrants'[p][Day(clock)] = rtGrants[p][Day(clock)] + 1
      /\ \A h \in Hours : h # Day(clock) => rtGrants'[p][h] = rtGrants[p][h]
      /\ \A q \in Property : q # p => rtGrants'[q] = rtGrants[q]
  BY <1>0, <1>2, <1>4, ChargeNow DEF IndInv, TypeInv, TypeOK
<1>7. /\ heap' = [heap EXCEPT ![buckets[p]] = c] /\ heap'[buckets[p]] = c
  BY <1>0, <1>2, <1>3, TheBucket, HeapUpdate DEF IndInv
<1>8. /\ Distinct'
      /\ (\A i \in 1..Len(heap) : WellFormed(heap[i]))'
      /\ \A q \in Property : q # p => (Accounted(q) /\ Future(q))'
  <2>1. UNCHANGED <<clock, buckets>>
    BY <1>0
  <2>2. \A q \in Property : q # p =>
          /\ hourGrants'[q] = hourGrants[q]
          /\ dayGrants'[q] = dayGrants[q] /\ rtGrants'[q] = rtGrants[q]
    BY <1>0, <1>6
  <2> QED
    BY <1>2, <1>3, <1>5, <1>7, <2>1, <2>2, OthersKept
<1>9. Accounted(p)'
  BY <1>0, <1>2, <1>3, <1>4, <1>6, <1>7, RollCurrent DEF Accounted, Granted
<1>10. Future(p)'
  <2>1. Future(p)
    BY <1>2 DEF IndInv
  <2>2. \A h \in Hours : h > Day(clock) => h # Day(clock)
    BY <1>4
  <2> QED
    BY <1>0, <1>6, <2>1, <2>2 DEF Future
<1>11. GrantsWithinLimits'
  <2>1. rtGrants'[p][Day(clock)] <= RealtimeDailyLimit
    BY <1>0, <1>2, <1>6 DEF Granted
  <2>2. ASSUME NEW q \in Property, NEW h \in Hours
        PROVE  /\ hourGrants'[q][h] <= HourlyTokenLimit
               /\ dayGrants'[q][h] <= DailyTokenLimit
               /\ rtGrants'[q][h] <= RealtimeDailyLimit
    <3>1. /\ hourGrants[q][h] <= HourlyTokenLimit
          /\ dayGrants[q][h] <= DailyTokenLimit
          /\ rtGrants[q][h] <= RealtimeDailyLimit
      BY DEF IndInv, GrantsWithinLimits
    <3> QED
      BY <1>0, <1>6, <2>1, <3>1
  <2> QED
    BY <2>2 DEF GrantsWithinLimits
<1> QED
  BY <1>8, <1>9, <1>10, <1>11 DEF IndInv

\* A bucket that was just made counts nothing, in whichever hour it was begun.
LEMMA NewBucket ==
  ASSUME NEW b \in Bucket, NEW now \in Hours,
         b.hourly = 0, b.daily = 0, b.realtime = 0
  PROVE  /\ Roll(b, now).hourly = 0 /\ Roll(b, now).daily = 0
         /\ Roll(b, now).realtime = 0
  BY DEF Roll

LEMMA CreateBucketInd ==
  ASSUME IndInv, TypeInv', NEW t \in Thread, CreateBucket(t)
  PROVE  IndInv'
<1> DEFINE new == [hourly |-> 0, daily |-> 0, realtime |-> 0,
                   hourWindow |-> hourRead[t], dayWindow |-> Day(clock)]
           k   == Len(heap) + 1
<1>1. PICK p \in Property : p = prop[t]
  BY DEF CreateBucket, IndInv, TypeInv, TypeOK
<1>2. /\ heap' = Append(heap, new) /\ buckets' = [buckets EXCEPT ![p] = k]
      /\ UNCHANGED <<clock, hourGrants, dayGrants, rtGrants>>
  BY <1>1 DEF CreateBucket, grants
<1>3. /\ clock \in Hours /\ Day(clock) \in Hours /\ clock \in Nat /\ Day(clock) \in Nat
      /\ hourRead[t] \in Hours /\ hourRead[t] \in Nat /\ hourRead[t] <= clock
      /\ buckets[p] = 0 /\ Len(heap) \in Nat
  BY <1>1, DayOrder, LenProperties DEF CreateBucket, IndInv, TypeInv, TypeOK, RefInv
<1>4. /\ new \in Bucket
      /\ new.hourly = 0 /\ new.daily = 0 /\ new.realtime = 0
      /\ new.hourWindow = hourRead[t] /\ new.dayWindow = Day(clock)
  BY <1>3 DEF Bucket
<1> HIDE DEF new
<1>5. WellFormed(new)
  BY <1>3, <1>4, DayOrder DEF WellFormed
<1>6. /\ Len(heap') = k /\ heap'[k] = new
      /\ \A i \in 1..Len(heap) : heap'[i] = heap[i]
  BY <1>2, <1>4, AppendProperties DEF IndInv, TypeInv, TypeOK
<1>7. /\ buckets'[p] = k /\ k # 0
      /\ \A q \in Property : q # p => buckets'[q] = buckets[q] /\ buckets[q] # k
  <2>1. \A q \in Property : buckets[q] \in 0..Len(heap)
    BY DEF IndInv, TypeInv, TypeOK
  <2>2. k # 0 /\ k \notin 0..Len(heap)
    BY <1>3
  <2>3. buckets' = [buckets EXCEPT ![p] = k] /\ DOMAIN buckets = Property
    BY <1>2 DEF IndInv, TypeInv, TypeOK
  <2> HIDE DEF k
  <2> QED
    BY <2>1, <2>2, <2>3
<1>8. Distinct'
  BY <1>7 DEF IndInv, Distinct
<1>9. (\A i \in 1..Len(heap) : WellFormed(heap[i]))'
  <2> SUFFICES ASSUME NEW i \in 1..Len(heap')
               PROVE  WellFormed(heap[i])'
    OBVIOUS
  <2>1. i \in 1..Len(heap) \/ i = k
    BY <1>3, <1>6
  <2>2. WellFormed(heap'[i])
    BY <1>5, <1>6, <2>1 DEF IndInv
  <2> QED
    BY <1>2, <2>2 DEF WellFormed
<1>10. Accounted(p)'
  <2>1. Granted(p, 0, 0, 0)
    BY <1>3 DEF IndInv, Accounted
  <2> QED
    BY <1>2, <1>3, <1>4, <1>6, <1>7, <2>1, NewBucket DEF Accounted, Granted
<1>11. ASSUME NEW q \in Property, q # p
       PROVE  Accounted(q)'
  <2>1. buckets[q] # 0 => heap'[buckets[q]] = heap[buckets[q]]
    BY <1>6, TheBucket
  <2>2. buckets'[q] = buckets[q]
    BY <1>7, <1>11
  <2>3. Accounted(q)
    BY DEF IndInv
  <2> QED
    BY <1>2, <2>1, <2>2, <2>3 DEF Accounted, Granted
<1>12. \A q \in Property : Future(q)'
  BY <1>2 DEF IndInv, Future
<1>13. GrantsWithinLimits'
  BY <1>2 DEF IndInv, GrantsWithinLimits
<1> QED
  BY <1>8, <1>9, <1>10, <1>11, <1>12, <1>13 DEF IndInv

LEMMA TickInd ==
  ASSUME IndInv, TypeInv', Tick
  PROVE  IndInv'
<1>1. /\ clock \in Hours /\ clock' \in Hours /\ clock \in Nat /\ clock' = clock + 1
      /\ UNCHANGED <<heap, buckets, hourGrants, dayGrants, rtGrants>>
  BY DayOrder DEF IndInv, TypeInv, TypeOK, Tick, storeVars, grants
<1>2. clock < clock' /\ clock <= clock'
  BY <1>1
<1>3. /\ Day(clock) \in Hours /\ Day(clock') \in Hours
      /\ Day(clock) \in Nat /\ Day(clock') \in Nat /\ Day(clock) <= Day(clock')
  BY <1>1, <1>2, DayOrder
<1>4. Distinct' /\ GrantsWithinLimits'
  BY <1>1 DEF IndInv, Distinct, GrantsWithinLimits
<1>5. ASSUME NEW b \in Bucket, WellFormed(b)
      PROVE  WellFormed(b)'
  <2>1. b.hourWindow \in Nat /\ b.dayWindow \in Nat
    BY DEF Bucket
  <2>2. b.hourWindow <= clock' /\ b.dayWindow <= Day(clock')
    BY <1>1, <1>3, <1>5, <2>1 DEF WellFormed
  <2> QED
    BY <1>5, <2>2 DEF WellFormed
<1>6. (\A i \in 1..Len(heap) : WellFormed(heap[i]))'
  <2> SUFFICES ASSUME NEW i \in 1..Len(heap)
               PROVE  WellFormed(heap[i])'
    BY <1>1
  <2>1. PICK b \in Bucket : b = heap[i]
    BY ElementOfSeq DEF IndInv, TypeInv, TypeOK
  <2>2. WellFormed(b)
    BY <2>1 DEF IndInv
  <2>3. WellFormed(b)'
    BY <1>5, <2>2
  <2>4. heap'[i] = b
    BY <1>1, <2>1
  <2> QED
    BY <2>3, <2>4 DEF WellFormed
<1>7. ASSUME NEW p \in Property
      PROVE  Future(p)'
  <2>1. \A h \in Hours : (h > clock' => h > clock) /\ (h > Day(clock') => h > Day(clock))
    <3> TAKE h \in Hours
    <3>1. h \in Nat
      BY DayOrder
    <3> QED
      BY <1>1, <1>3, <3>1
  <2> QED
    BY <1>1, <2>1 DEF IndInv, Future
<1>8. ASSUME NEW p \in Property
      PROVE  Accounted(p)'
  <2>1. hourGrants[p][clock'] = 0
    BY <1>1, <1>2 DEF IndInv, Future
  <2>2. CASE buckets[p] = 0
    <3>1. Granted(p, 0, 0, 0)
      BY <2>2 DEF IndInv, Accounted
    <3>2. dayGrants[p][Day(clock')] = 0 /\ rtGrants[p][Day(clock')] = 0
      <4>1. CASE Day(clock') = Day(clock)
        BY <3>1, <4>1 DEF Granted
      <4>2. CASE Day(clock') > Day(clock)
        BY <1>3, <4>2 DEF IndInv, Future
      <4> QED
        BY <1>3, <4>1, <4>2
    <3> QED
      BY <1>1, <2>1, <2>2, <3>2 DEF Accounted, Granted
  <2>3. CASE buckets[p] # 0
    <3>1. PICK b \in Bucket : b = heap[buckets[p]] /\ WellFormed(b)
      BY <2>3, TheBucket
    <3>2. b.hourWindow \in Nat /\ b.dayWindow \in Nat
      BY DEF Bucket
    <3>3. /\ Granted(p, Roll(b, clock).hourly, Roll(b, clock).daily, Roll(b, clock).realtime)
      BY <2>3, <3>1 DEF IndInv, Accounted
    <3>4. /\ Roll(b, clock).daily = IF Day(clock) > b.dayWindow THEN 0 ELSE b.daily
          /\ Roll(b, clock).realtime = IF Day(clock) > b.dayWindow THEN 0 ELSE b.realtime
      BY <1>1, <3>1, RollProps DEF WellFormed
    <3>5. /\ Roll(b, clock').hourly = IF clock' > b.hourWindow THEN 0 ELSE b.hourly
          /\ Roll(b, clock').daily = IF Day(clock') > b.dayWindow THEN 0 ELSE b.daily
          /\ Roll(b, clock').realtime = IF Day(clock') > b.dayWindow THEN 0 ELSE b.realtime
      <4>1. b.hourWindow <= clock' /\ b.dayWindow <= Day(clock')
        BY <1>1, <1>3, <3>1, <3>2 DEF WellFormed
      <4> QED
        BY <1>1, <4>1, RollProps
    <3>6. Roll(b, clock').hourly = 0
      <4>1. clock' > b.hourWindow
        BY <1>1, <3>1, <3>2 DEF WellFormed
      <4> QED
        BY <3>5, <4>1
    <3>7. /\ dayGrants[p][Day(clock')] = Roll(b, clock').daily
          /\ rtGrants[p][Day(clock')] = Roll(b, clock').realtime
      <4>1. CASE Day(clock') = Day(clock)
        BY <3>3, <3>4, <3>5, <4>1 DEF Granted
      <4>2. CASE Day(clock') > Day(clock)
        <5>1. Day(clock') > b.dayWindow
          BY <1>3, <3>1, <3>2, <4>2 DEF WellFormed
        <5> QED
          BY <1>3, <3>5, <4>2, <5>1 DEF IndInv, Future
      <4> QED
        BY <1>3, <4>1, <4>2
    <3>8. buckets' = buckets /\ heap' = heap /\ heap'[buckets'[p]] = b
      BY <1>1, <3>1
    <3> QED
      BY <1>1, <2>1, <2>3, <3>6, <3>7, <3>8 DEF Accounted, Granted
  <2> QED
    BY <2>2, <2>3
<1> QED
  BY <1>4, <1>6, <1>7, <1>8 DEF IndInv

LEMMA NextInd == IndInv /\ [Next]_vars => IndInv'
<1> SUFFICES ASSUME IndInv, [Next]_vars
             PROVE  IndInv'
  OBVIOUS
<1>1. TypeInv /\ TypeInv'
  BY NextType DEF IndInv
<1>2. CASE Tick
  BY <1>1, <1>2, TickInd
<1>3. ASSUME NEW t \in Thread, NEW p \in Property, NEW k \in Kind, Lookup(t, p, k)
      PROVE  IndInv'
  BY <1>1, <1>3, SameStoreInd DEF Lookup, storeVars
<1>4. ASSUME NEW t \in Thread, Serve(t)
      PROVE  IndInv'
  <2>1. CASE LookAgain(t)
    BY <1>1, <2>1, SameStoreInd DEF LookAgain
  <2>2. CASE Reply(t) \/ Panic(t)
    BY <1>1, <2>2, SameStoreInd DEF Reply, Panic, storeVars
  <2>3. CASE RefuseReport(t) \/ RefuseRealtime(t) \/ HourlySpent(t)
    BY <1>1, <2>3, RefusalsRoll, RollOnlyInd
  <2> QED
    BY <1>1, <1>4, <2>1, <2>2, <2>3, CreateBucketInd, SpendReportInd, SpendRealtimeInd
    DEF Serve
<1>5. CASE UNCHANGED vars
  BY <1>1, <1>5, SameStoreInd DEF vars, storeVars
<1> QED
  BY <1>2, <1>3, <1>4, <1>5, RequestParts DEF Next

LEMMA AlwaysInd == Spec => []IndInv
  BY InitInd, NextInd, PTL DEF Spec

-----------------------------------------------------------------------------
(* What follows *)

\* However many requests race for a property's first bucket, they spend from
\* the same one, and no two properties share one.
THEOREM BucketsAreUnique == Spec => []OneBucketPerProperty
<1>1. IndInv => OneBucketPerProperty
  BY DEF IndInv, TypeInv, RefInv, Distinct, OneBucketPerProperty
<1> QED
  BY AlwaysInd, <1>1, PTL

\* No clock hour grants a property more than its hourly limit and no clock day
\* more than its daily limits, for all limits, costs and interleavings.
THEOREM LimitsHold == Spec => []GrantsWithinLimits
<1>1. IndInv => GrantsWithinLimits
  BY DEF IndInv
<1> QED
  BY AlwaysInd, <1>1, PTL

\* An hour's count is always part of its day's count.
THEOREM HoursAreWithinDays == Spec => []HourWithinDay
<1>1. IndInv => HourWithinDay
  <2> SUFFICES ASSUME IndInv, NEW i \in 1..Len(heap)
               PROVE  /\ heap[i].hourly <= heap[i].daily
                      /\ heap[i].dayWindow >= Day(heap[i].hourWindow)
    BY DEF HourWithinDay
  <2>1. heap[i] \in Bucket /\ WellFormed(heap[i])
    BY ElementOfSeq DEF IndInv, TypeInv, TypeOK
  <2> QED
    BY <2>1 DEF WellFormed
<1> QED
  BY AlwaysInd, <1>1, PTL

-----------------------------------------------------------------------------
(* Refinement of TokenBudget *)

Props == [t \in Thread |-> IF Under(t) THEN prop[t] ELSE "none"]
Budgets == [t \in Thread |-> IF Under(t) THEN Needs(kind[t]) ELSE "none"]
Verdicts == [t \in Thread |-> Verdict(at[t])]

\* Two functions that differ at one place only.
LEMMA ExceptAt ==
  ASSUME NEW S, NEW f, NEW g, NEW t \in S, NEW v,
         f = [u \in S |-> f[u]], g = [u \in S |-> g[u]],
         g[t] = v, \A u \in S : u # t => g[u] = f[u]
  PROVE  g = [f EXCEPT ![t] = v]
<1>1. g = [u \in S |-> IF u = t THEN v ELSE f[u]]
  OBVIOUS
<1>2. [f EXCEPT ![t] = v] = [u \in S |-> IF u = t THEN v ELSE f[u]]
  OBVIOUS
<1> QED
  BY <1>1, <1>2

\* A step of one request, seen from outside: what it is for and what it has been
\* told may change, and nobody else's.
LEMMA RequestMoves ==
  ASSUME NEW t \in Thread,
         \A u \in Thread : u # t => at'[u] = at[u] /\ prop'[u] = prop[u] /\ kind'[u] = kind[u]
  PROVE  /\ Props' = [Props EXCEPT ![t] = Props'[t]]
         /\ Budgets' = [Budgets EXCEPT ![t] = Budgets'[t]]
         /\ Verdicts' = [Verdicts EXCEPT ![t] = Verdicts'[t]]
<1> DEFINE p == Props  pp == Props'  b == Budgets  bb == Budgets'
           v == Verdicts  vv == Verdicts'
<1>1. /\ p = [u \in Thread |-> p[u]] /\ pp = [u \in Thread |-> pp[u]]
      /\ b = [u \in Thread |-> b[u]] /\ bb = [u \in Thread |-> bb[u]]
      /\ v = [u \in Thread |-> v[u]] /\ vv = [u \in Thread |-> vv[u]]
  BY DEF Props, Budgets, Verdicts
<1>2. \A u \in Thread : u # t => pp[u] = p[u] /\ bb[u] = b[u] /\ vv[u] = v[u]
  BY DEF Props, Budgets, Verdicts, Under
<1>3. PICK x, y, z : x = pp[t] /\ y = bb[t] /\ z = vv[t]
  OBVIOUS
<1> HIDE DEF p, pp, b, bb, v, vv
<1>4. pp = [p EXCEPT ![t] = x] /\ bb = [b EXCEPT ![t] = y] /\ vv = [v EXCEPT ![t] = z]
  BY <1>1, <1>2, <1>3, ExceptAt
<1>5. /\ pp = [p EXCEPT ![t] = pp[t]] /\ bb = [b EXCEPT ![t] = bb[t]]
      /\ vv = [v EXCEPT ![t] = vv[t]]
  BY <1>3, <1>4
<1> QED
  BY <1>5 DEF p, pp, b, bb, v, vv

\* A request that goes on is still for the same property and the same tokens.
LEMMA GoesOn ==
  ASSUME TypeInv, NEW t \in Thread, Under(t), NEW place,
         at' = [at EXCEPT ![t] = place], place \notin {"idle", "cut"},
         UNCHANGED <<prop, kind>>
  PROVE  /\ Props' = Props /\ Budgets' = Budgets
         /\ Verdicts' = [Verdicts EXCEPT ![t] = Verdict(place)]
         /\ Verdict(place) = Verdict(at[t]) => Verdicts' = Verdicts
<1>1. /\ at'[t] = place /\ \A u \in Thread : u # t => at'[u] = at[u]
  BY DEF TypeInv, TypeOK
<1>2. Verdicts' = [Verdicts EXCEPT ![t] = Verdicts'[t]] /\ Verdicts'[t] = Verdict(place)
  BY <1>1, RequestMoves DEF Verdicts
<1>3. \A u \in Thread : Under(u)' <=> Under(u)
  BY <1>1 DEF Under
<1>4. Props' = Props /\ Budgets' = Budgets
  BY <1>3 DEF Props, Budgets
<1>5. ASSUME Verdict(place) = Verdict(at[t])
      PROVE  Verdicts' = Verdicts
  BY <1>1, <1>5 DEF Verdicts
<1> QED
  BY <1>2, <1>4, <1>5

\* The verdict at each place of a request.
LEMMA VerdictValues ==
  /\ Verdict("idle") = "none" /\ Verdict("missed") = "none" /\ Verdict("cut") = "none"
  /\ Verdict("creating") = "none" /\ Verdict("ready") = "none"
  /\ Verdict("granted") = "granted"
  /\ Verdict("refused") = "refused" /\ Verdict("denied") = "refused"
  BY DEF Verdict

LEMMA BudgetStart == Init => Budget!BudgetInit
  BY DEF Init, None, Hours, Verdict, Under, Budget!BudgetInit, Budget!Zero

\* A step that grants nothing and tells no request anything new.
LEMMA Unseen ==
  ASSUME UNCHANGED <<clock, hourGrants, dayGrants, rtGrants, Props, Budgets, Verdicts>>
  PROVE  UNCHANGED Budget!budgetVars
  BY DEF Budget!budgetVars, Props, Budgets, Verdicts

\* What a request that holds a bucket looks like from outside.
LEMMA SeenInHand ==
  ASSUME TypeInv, NEW t \in Thread, HasBucket(t)
  PROVE  Under(t) /\ Props[t] = prop[t] /\ Budgets[t] = Needs(kind[t])
  BY DEF HasBucket, Under, Props, Budgets

LEMMA GrantReportStep ==
  ASSUME IndInv, NEW t \in Thread, SpendReport(t)
  PROVE  Budget!GrantCore(t)
<1>0. TypeInv
  BY DEF IndInv
<1>1. /\ HasBucket(t) /\ at' = [at EXCEPT ![t] = "granted"] /\ at[t] = "ready"
      /\ kind[t] # "realtime" /\ UNCHANGED <<prop, kind>>
  BY DEF SpendReport, HasBucket
<1>2. PICK p \in Property, b \in Bucket :
        /\ p = prop[t] /\ b = Roll(heap[ref[t]], clock)
        /\ ref[t] = buckets[p] /\ buckets[p] # 0
        /\ WellFormed(b) /\ b.hourWindow = clock /\ b.dayWindow = Day(clock)
        /\ Granted(p, b.hourly, b.daily, b.realtime)
  BY <1>1, RolledInHand
<1>3. /\ UNCHANGED <<clock, rtGrants>> /\ ~Exhausted(b, TokenCost)
      /\ hourGrants' = [hourGrants EXCEPT ![p][clock] = @ + TokenCost]
      /\ dayGrants' = [dayGrants EXCEPT ![p][Day(clock)] = @ + TokenCost]
  BY <1>2, Zenon DEF SpendReport
<1>4. /\ hourGrants[p][clock] + TokenCost <= HourlyTokenLimit
      /\ dayGrants[p][Day(clock)] + TokenCost <= DailyTokenLimit
  <2>1. b.hourly \in Nat /\ b.daily \in Nat
    BY DEF Bucket
  <2> QED
    BY <1>2, <1>3, <2>1, CostNat, QuotaAssumption DEF Granted, Exhausted
<1>5. Props[t] = p /\ Budgets[t] = "core" /\ Under(t)
  BY <1>0, <1>1, <1>2, SeenInHand DEF Needs
<1>6. /\ Verdicts[t] = "none" /\ Verdicts' = [Verdicts EXCEPT ![t] = "granted"]
      /\ Props' = Props /\ Budgets' = Budgets
  <2>1. /\ Props' = Props /\ Budgets' = Budgets
        /\ Verdicts' = [Verdicts EXCEPT ![t] = Verdict("granted")]
    BY <1>0, <1>1, <1>5, GoesOn
  <2>2. Verdict("granted") = "granted"
    BY VerdictValues
  <2>3. Verdicts[t] = Verdict("ready")
    BY <1>1 DEF Verdicts
  <2> QED
    BY <2>1, <2>2, <2>3, VerdictValues
<1> QED
  BY <1>3, <1>4, <1>5, <1>6
  DEF Budget!GrantCore, Budget!CoreFits, Budget!Today, Day, Verdicts, Props, Budgets

LEMMA GrantRealtimeStep ==
  ASSUME IndInv, NEW t \in Thread, SpendRealtime(t)
  PROVE  Budget!GrantRealtime(t)
<1>0. TypeInv
  BY DEF IndInv
<1>1. /\ HasBucket(t) /\ at' = [at EXCEPT ![t] = "granted"] /\ at[t] = "ready"
      /\ kind[t] = "realtime" /\ UNCHANGED <<prop, kind>>
  BY DEF SpendRealtime, HasBucket
<1>2. PICK p \in Property, b \in Bucket :
        /\ p = prop[t] /\ b = Roll(heap[ref[t]], clock)
        /\ ref[t] = buckets[p] /\ buckets[p] # 0
        /\ WellFormed(b) /\ b.hourWindow = clock /\ b.dayWindow = Day(clock)
        /\ Granted(p, b.hourly, b.daily, b.realtime)
  BY <1>1, RolledInHand
<1>3. /\ UNCHANGED <<clock, hourGrants, dayGrants>>
      /\ b.realtime + 1 <= RealtimeDailyLimit
      /\ rtGrants' = [rtGrants EXCEPT ![p][Day(clock)] = @ + 1]
  BY <1>2, Zenon DEF SpendRealtime
<1>4. rtGrants[p][Day(clock)] < RealtimeDailyLimit
  <2>1. b.realtime \in Nat
    BY DEF Bucket
  <2> QED
    BY <1>2, <1>3, <2>1, QuotaAssumption DEF Granted
<1>5. Props[t] = p /\ Budgets[t] = "realtime" /\ Under(t)
  BY <1>0, <1>1, <1>2, SeenInHand DEF Needs
<1>6. /\ Verdicts[t] = "none" /\ Verdicts' = [Verdicts EXCEPT ![t] = "granted"]
      /\ Props' = Props /\ Budgets' = Budgets
  <2>1. /\ Props' = Props /\ Budgets' = Budgets
        /\ Verdicts' = [Verdicts EXCEPT ![t] = Verdict("granted")]
    BY <1>0, <1>1, <1>5, GoesOn
  <2>2. Verdict("granted") = "granted"
    BY VerdictValues
  <2>3. Verdicts[t] = Verdict("ready")
    BY <1>1 DEF Verdicts
  <2> QED
    BY <2>1, <2>2, <2>3, VerdictValues
<1> QED
  BY <1>3, <1>4, <1>5, <1>6
  DEF Budget!GrantRealtime, Budget!RealtimeFits, Budget!Today, Day, Verdicts, Props, Budgets

\* A refusal looks at the meters of the request's own property and kind only.
LEMMA RefuseStep ==
  ASSUME IndInv, NEW t \in Thread, RefuseReport(t) \/ RefuseRealtime(t)
  PROVE  Budget!Refuse(t)
<1>0. TypeInv
  BY DEF IndInv
<1>1. HasBucket(t) /\ at[t] = "ready" /\ UNCHANGED <<prop, kind>>
  BY DEF RefuseReport, RefuseRealtime, HasBucket
<1>2. PICK p \in Property, b \in Bucket :
        /\ p = prop[t] /\ b = Roll(heap[ref[t]], clock)
        /\ ref[t] = buckets[p] /\ buckets[p] # 0
        /\ WellFormed(b) /\ b.hourWindow = clock /\ b.dayWindow = Day(clock)
        /\ Granted(p, b.hourly, b.daily, b.realtime)
  BY <1>1, RolledInHand
<1>3. /\ UNCHANGED <<clock, hourGrants, dayGrants, rtGrants>>
      /\ \/ kind[t] # "realtime" /\ Exhausted(b, TokenCost)
         \/ kind[t] = "realtime" /\ b.realtime + 1 > RealtimeDailyLimit
  BY <1>2, Zenon DEF RefuseReport, RefuseRealtime, grants
<1>4. /\ Exhausted(b, TokenCost) =>
           ~(/\ hourGrants[p][clock] + TokenCost <= HourlyTokenLimit
             /\ dayGrants[p][Day(clock)] + TokenCost <= DailyTokenLimit)
      /\ b.realtime + 1 > RealtimeDailyLimit => ~(rtGrants[p][Day(clock)] < RealtimeDailyLimit)
  <2>1. b.hourly \in Nat /\ b.daily \in Nat /\ b.realtime \in Nat
    BY DEF Bucket
  <2> QED
    BY <1>2, <2>1, CostNat, QuotaAssumption DEF Granted, Exhausted
<1>5. /\ Props[t] = p /\ Under(t)
      /\ Budgets[t] = IF kind[t] = "realtime" THEN "realtime" ELSE "core"
  BY <1>0, <1>1, <1>2, SeenInHand DEF Needs
<1>6. PICK place \in {"refused", "denied"} : at' = [at EXCEPT ![t] = place]
  BY DEF RefuseReport, RefuseRealtime
<1>7. /\ Verdicts[t] = "none" /\ Verdicts' = [Verdicts EXCEPT ![t] = "refused"]
      /\ Props' = Props /\ Budgets' = Budgets
  <2>1. /\ Props' = Props /\ Budgets' = Budgets
        /\ Verdicts' = [Verdicts EXCEPT ![t] = Verdict(place)]
    BY <1>0, <1>1, <1>5, <1>6, GoesOn
  <2>2. Verdict(place) = "refused"
    BY <1>6, VerdictValues
  <2>3. Verdicts[t] = Verdict("ready")
    BY <1>1 DEF Verdicts
  <2> QED
    BY <2>1, <2>2, <2>3, VerdictValues
<1>8. \/ Budgets[t] = "core" /\ ~(/\ hourGrants[p][clock] + TokenCost <= HourlyTokenLimit
                                  /\ dayGrants[p][Day(clock)] + TokenCost <= DailyTokenLimit)
      \/ Budgets[t] = "realtime" /\ ~(rtGrants[p][Day(clock)] < RealtimeDailyLimit)
  BY <1>3, <1>4, <1>5
<1> QED
  BY <1>3, <1>5, <1>7, <1>8
  DEF Budget!Refuse, Budget!CoreFits, Budget!RealtimeFits, Budget!Today, Day,
      Verdicts, Props, Budgets

\* A request that is taken up.
LEMMA OpenStep ==
  ASSUME TypeInv, NEW t \in Thread, NEW p \in Property, NEW k \in Kind, Lookup(t, p, k)
  PROVE  \E b \in {"core", "realtime"} : Budget!Open(t, p, b)
<1>1. PICK place \in {"ready", "missed"} : at' = [at EXCEPT ![t] = place]
  BY DEF Lookup
<1>2. /\ ~Under(t) /\ UNCHANGED <<clock, hourGrants, dayGrants, rtGrants>>
      /\ prop' = [prop EXCEPT ![t] = p] /\ kind' = [kind EXCEPT ![t] = k]
  BY DEF Lookup, grants
<1>3. /\ at'[t] = place /\ prop'[t] = p /\ kind'[t] = k
      /\ \A u \in Thread : u # t => at'[u] = at[u] /\ prop'[u] = prop[u] /\ kind'[u] = kind[u]
  BY <1>1, <1>2 DEF TypeInv, TypeOK
<1>4. /\ Props'[t] = p /\ Budgets'[t] = Needs(k) /\ Verdicts'[t] = "none"
      /\ Verdicts[t] = "none" /\ Budgets[t] = "none"
  BY <1>2, <1>3, VerdictValues DEF Props, Budgets, Verdicts, Under
<1>5. /\ Props' = [Props EXCEPT ![t] = p] /\ Budgets' = [Budgets EXCEPT ![t] = Needs(k)]
      /\ Verdicts' = [Verdicts EXCEPT ![t] = "none"]
  BY <1>3, <1>4, RequestMoves
<1>6. Verdicts' = Verdicts
  BY <1>4, <1>5 DEF Verdicts
<1>7. Needs(k) \in {"core", "realtime"}
  BY DEF Needs
<1> QED
  BY <1>2, <1>4, <1>5, <1>6, <1>7 DEF Budget!Open, Props, Budgets, Verdicts

\* A request that ends, with an answer or without.
LEMMA CloseStep ==
  ASSUME TypeInv, NEW t \in Thread, Reply(t) \/ Panic(t)
  PROVE  Budget!Close(t)
<1>1. PICK place \in {"idle", "cut"} : at' = [at EXCEPT ![t] = place]
  BY DEF Reply, Panic
<1>2. /\ at[t] \in {"granted", "denied"}
      /\ UNCHANGED <<clock, hourGrants, dayGrants, rtGrants>>
  BY DEF Reply, Panic, grants
<1>3. /\ at'[t] = place
      /\ \A u \in Thread : u # t => at'[u] = at[u] /\ prop'[u] = prop[u] /\ kind'[u] = kind[u]
  BY <1>1 DEF Reply, Panic, TypeInv, TypeOK
<1>4. /\ Props'[t] = "none" /\ Budgets'[t] = "none" /\ Verdicts'[t] = "none"
      /\ Verdicts[t] # "none"
  BY <1>2, <1>3, VerdictValues DEF Props, Budgets, Verdicts, Under
<1>5. /\ Props' = [Props EXCEPT ![t] = "none"] /\ Budgets' = [Budgets EXCEPT ![t] = "none"]
      /\ Verdicts' = [Verdicts EXCEPT ![t] = "none"]
  BY <1>3, <1>4, RequestMoves
<1> QED
  BY <1>2, <1>4, <1>5 DEF Budget!Close, Props, Budgets, Verdicts

LEMMA BudgetStep ==
  ASSUME IndInv, [Next]_vars
  PROVE  [Budget!BudgetNext]_(Budget!budgetVars)
<1>0. TypeInv
  BY DEF IndInv
<1>1. CASE Tick
  <2>1. Verdicts' = Verdicts /\ Props' = Props /\ Budgets' = Budgets
    BY <1>1 DEF Tick, threadVars, Verdicts, Props, Budgets, Under
  <2> QED
    BY <1>1, <2>1
    DEF Tick, grants, Budget!Tick, Budget!BudgetNext, Verdicts, Props, Budgets
<1>2. ASSUME NEW t \in Thread, NEW p \in Property, NEW k \in Kind, Lookup(t, p, k)
      PROVE  Budget!BudgetNext
  BY <1>0, <1>2, OpenStep DEF Budget!BudgetNext
<1>3. ASSUME NEW t \in Thread, LookAgain(t)
      PROVE  UNCHANGED Budget!budgetVars
  <2>1. PICK place \in {"ready", "creating"} : at' = [at EXCEPT ![t] = place]
    BY <1>3 DEF LookAgain
  <2>2. Under(t) /\ Verdict(place) = Verdict(at[t]) /\ UNCHANGED <<prop, kind>>
    BY <1>3, VerdictValues DEF LookAgain, Under
  <2>3. Verdicts' = Verdicts /\ Props' = Props /\ Budgets' = Budgets
    BY <1>0, <2>1, <2>2, GoesOn
  <2> QED
    BY <1>3, <2>3, Unseen DEF LookAgain, grants
<1>4. ASSUME NEW t \in Thread, CreateBucket(t)
      PROVE  UNCHANGED Budget!budgetVars
  <2>1. /\ at[t] = "creating" /\ at' = [at EXCEPT ![t] = "ready"]
        /\ UNCHANGED <<prop, kind>>
    BY <1>4 DEF CreateBucket
  <2>2. Under(t) /\ Verdict("ready") = Verdict(at[t])
    BY <2>1, VerdictValues DEF Under
  <2>3. Verdicts' = Verdicts /\ Props' = Props /\ Budgets' = Budgets
    BY <1>0, <2>1, <2>2, GoesOn
  <2> QED
    BY <1>4, <2>3, Unseen DEF CreateBucket, grants
<1>5. ASSUME NEW t \in Thread, HourlySpent(t)
      PROVE  UNCHANGED Budget!budgetVars
  <2>1. /\ at[t] = "refused" /\ at' = [at EXCEPT ![t] = "denied"]
        /\ UNCHANGED <<prop, kind>>
    BY <1>5 DEF HourlySpent
  <2>2. Under(t) /\ Verdict("denied") = Verdict(at[t])
    BY <2>1, VerdictValues DEF Under
  <2>3. Verdicts' = Verdicts /\ Props' = Props /\ Budgets' = Budgets
    BY <1>0, <2>1, <2>2, GoesOn
  <2> QED
    BY <1>5, <2>3, Unseen DEF HourlySpent, grants
<1>6. CASE UNCHANGED vars
  BY <1>6, Unseen DEF vars, threadVars, grants, Verdicts, Props, Budgets, Under
<1>7. ASSUME NEW t \in Thread, Serve(t)
      PROVE  [Budget!BudgetNext]_(Budget!budgetVars)
  BY <1>0, <1>3, <1>4, <1>5, <1>7, CloseStep, GrantReportStep, GrantRealtimeStep, RefuseStep
  DEF Serve, Budget!BudgetNext
<1> QED
  BY <1>1, <1>2, <1>6, <1>7, RequestParts DEF Next

\* The store, with its lazily rolled buckets and its two-step lookup, grants and
\* refuses as if every meter were cleared at the very hour: it refuses a request
\* only when what is left, in the present hour and day, of the property's tokens
\* of the kind the request needs does not cover it.
THEOREM StoreImplementsBudget == Spec => ImplementsBudget
  BY BudgetStart, BudgetStep, AlwaysInd, PTL
  DEF Spec, ImplementsBudget, Budget!BudgetSpec
=============================================================================
