------------------------- MODULE HotPipelineProofs -------------------------
(***************************************************************************)
(* Proofs about HotPipeline, for every number of brands, cities, workers,  *)
(* ticks and faults and for every cap, batch and chunk.  All four          *)
(* invariants follow from one inductive invariant, IInv, with a part for   *)
(* each hazard: who works on a city (Alone), where a call is in its split  *)
(* (Places), how far splits are filled (Filled), how the child tables      *)
(* follow (Within, and Exact while nothing has failed), and what the calls *)
(* under way still owe the total (Account).                                *)
(*                                                                         *)
(* What is owed is a sum over the workers, so the first section is about   *)
(* sums over finite sets.  Its lemmas need induction, which is derived     *)
(* from the library's theorem on least elements (WFMin).                   *)
(***************************************************************************)
EXTENDS HotPipeline, Integers, FiniteSetTheorems, WellFoundedInduction, TLAPS

-----------------------------------------------------------------------------
(* Sums *)

\* Induction: a set that holds 0 and the successor of each of its numbers holds
\* every natural number.
LEMMA NaturalInduction ==
  ASSUME NEW S, 0 \in S, \A n \in Nat : n \in S => n + 1 \in S
  PROVE  Nat \subseteq S
PROOF
<1> DEFINE T == Nat \ S
           R == OpToRel(<, Nat)
<1> SUFFICES ASSUME T # {} PROVE FALSE
  OBVIOUS
<1>1. PICK x \in T : \A y \in T : ~ (<<y, x>> \in R)
  <2>1. T \subseteq Nat
    OBVIOUS
  <2> HIDE DEF T
  <2> QED
    BY <2>1, NatLessThanWellFounded, WFMin
<1>2. x \in Nat /\ x # 0
  OBVIOUS
<1>3. x - 1 \in Nat /\ x - 1 < x /\ x - 1 + 1 = x
  BY <1>2
<1>4. x - 1 \notin S
  BY <1>3
<1>5. <<x - 1, x>> \in R
  BY <1>2, <1>3 DEF OpToRel
<1> QED
  BY <1>1, <1>3, <1>4, <1>5

\* The partial sums of the first n numbers of f.
PartialSums(p, f, n) ==
  /\ p \in [0..n -> Nat] /\ p[0] = 0
  /\ \A i \in 1..n : p[i] = p[i - 1] + f[i]

\* The sum of the first n numbers of f.
SumTo(f, n) == (CHOOSE p : PartialSums(p, f, n))[n]

\* Every list of numbers has its partial sums.
LEMMA PartialSumsExist ==
  ASSUME NEW n \in Nat, NEW f \in [1..n -> Nat]
  PROVE  \E p : PartialSums(p, f, n)
PROOF
<1> DEFINE S == {m \in Nat : m <= n => \E p : PartialSums(p, f, m)}
<1>1. 0 \in S
  <2>1. PartialSums([i \in 0..0 |-> 0], f, 0)
    BY DEF PartialSums
  <2> QED
    BY <2>1
<1>2. ASSUME NEW m \in Nat, m \in S PROVE m + 1 \in S
  <2> SUFFICES ASSUME m + 1 <= n PROVE \E p : PartialSums(p, f, m + 1)
    OBVIOUS
  <2>1. PICK p : PartialSums(p, f, m)
    BY <1>2
  <2> DEFINE q == [i \in 0..m + 1 |-> IF i = m + 1 THEN p[m] + f[m + 1] ELSE p[i]]
  <2>2. p[m] \in Nat /\ f[m + 1] \in Nat
    BY <2>1 DEF PartialSums
  <2>3. q \in [0..m + 1 -> Nat] /\ q[0] = 0
    BY <2>1, <2>2 DEF PartialSums
  <2>4. ASSUME NEW i \in 1..m + 1 PROVE q[i] = q[i - 1] + f[i]
    <3>1. CASE i = m + 1
      <4>1. i - 1 = m /\ m \in 0..m + 1 /\ m # m + 1
        BY <3>1
      <4>2. q[i] = p[m] + f[m + 1] /\ q[m] = p[m]
        BY <3>1, <4>1
      <4> QED
        BY <3>1, <4>1, <4>2
    <3>2. CASE i # m + 1
      <4>1. i \in 1..m /\ i - 1 \in 0..m /\ i - 1 # m + 1
        BY <3>2
      <4>2. q[i] = p[i] /\ q[i - 1] = p[i - 1]
        BY <3>2, <4>1
      <4> QED
        BY <2>1, <4>1, <4>2 DEF PartialSums
    <3> QED
      BY <3>1, <3>2
  <2>5. PartialSums(q, f, m + 1)
    BY <2>3, <2>4 DEF PartialSums
  <2> QED
    BY <2>5
<1>3. n \in S
  <2> HIDE DEF S
  <2> QED
    BY <1>1, <1>2, NaturalInduction
<1> QED
  BY <1>3

\* SumTo is the last of the partial sums.
LEMMA SumToPartial ==
  ASSUME NEW n \in Nat, NEW f \in [1..n -> Nat]
  PROVE  \E p : PartialSums(p, f, n) /\ SumTo(f, n) = p[n]
BY PartialSumsExist DEF SumTo

\* Partial sums of two lists that differ in one place only differ from there on.
LEMMA PartialChange ==
  ASSUME NEW n \in Nat, NEW f, NEW g, NEW p, NEW q, NEW c \in 1..n,
         \A i \in 1..n : f[i] \in Nat /\ g[i] \in Nat /\ (i # c => f[i] = g[i]),
         PartialSums(p, f, n), PartialSums(q, g, n)
  PROVE  q[n] + f[c] = p[n] + g[c]
PROOF
<1> DEFINE P(m) == /\ m < c => p[m] = q[m]
                   /\ ~(m < c) => q[m] + f[c] = p[m] + g[c]
           S == {m \in Nat : m <= n => P(m)}
<1>1. 0 \in S
  BY DEF PartialSums
<1>2. ASSUME NEW m \in Nat, m \in S PROVE m + 1 \in S
  <2> SUFFICES ASSUME m + 1 <= n PROVE P(m + 1)
    OBVIOUS
  <2>1. P(m) /\ m + 1 \in 1..n /\ m + 1 - 1 = m
    BY <1>2
  <2>2. /\ p[m] \in Nat /\ q[m] \in Nat /\ f[c] \in Nat /\ g[c] \in Nat
        /\ f[m + 1] \in Nat /\ g[m + 1] \in Nat
    BY DEF PartialSums
  <2>3. p[m + 1] = p[m] + f[m + 1] /\ q[m + 1] = q[m] + g[m + 1]
    BY <2>1 DEF PartialSums
  <2>4. m + 1 # c => f[m + 1] = g[m + 1]
    BY <2>1
  <2> QED
    BY <2>1, <2>2, <2>3, <2>4
<1>3. n \in S
  <2> HIDE DEF S
  <2> QED
    BY <1>1, <1>2, NaturalInduction
<1> QED
  BY <1>3

\* Sums of two lists that differ in one place differ by as much.
LEMMA SumToChange ==
  ASSUME NEW n \in Nat, NEW f \in [1..n -> Nat], NEW g \in [1..n -> Nat],
         NEW c \in 1..n, \A i \in 1..n : i # c => f[i] = g[i]
  PROVE  SumTo(g, n) + f[c] = SumTo(f, n) + g[c]
PROOF
<1>1. PICK p : PartialSums(p, f, n) /\ SumTo(f, n) = p[n]
  BY SumToPartial
<1>2. PICK q : PartialSums(q, g, n) /\ SumTo(g, n) = q[n]
  BY SumToPartial
<1>3. \A i \in 1..n : f[i] \in Nat /\ g[i] \in Nat /\ (i # c => f[i] = g[i])
  OBVIOUS
<1>4. q[n] + f[c] = p[n] + g[c]
  BY <1>1, <1>2, <1>3, PartialChange, SMTT(30)
<1> QED
  BY <1>1, <1>2, <1>4

\* Nothing but zeros adds up to zero.
LEMMA SumToZero ==
  ASSUME NEW n \in Nat, NEW f \in [1..n -> Nat], \A i \in 1..n : f[i] = 0
  PROVE  SumTo(f, n) = 0
PROOF
<1>1. PICK p : PartialSums(p, f, n) /\ SumTo(f, n) = p[n]
  BY SumToPartial
<1> DEFINE S == {m \in Nat : m <= n => p[m] = 0}
<1>2. 0 \in S
  BY <1>1 DEF PartialSums
<1>3. ASSUME NEW m \in Nat, m \in S PROVE m + 1 \in S
  <2> SUFFICES ASSUME m + 1 <= n PROVE p[m + 1] = 0
    OBVIOUS
  <2>1. m + 1 \in 1..n /\ m + 1 - 1 = m /\ p[m] = 0
    BY <1>3
  <2>2. p[m + 1] = p[m] + f[m + 1]
    BY <1>1, <2>1 DEF PartialSums
  <2> QED
    BY <2>1, <2>2
<1>4. n \in S
  <2> HIDE DEF S
  <2> QED
    BY <1>2, <1>3, NaturalInduction
<1> QED
  BY <1>1, <1>4

\* An order of the elements of a finite set, and the sum of a function over it.
InOrder(S) == CHOOSE e : e \in Bijection(1..Cardinality(S), S)

\* The sum of f over S.
SumOver(f, S) ==
  SumTo([i \in 1..Cardinality(S) |-> f[InOrder(S)[i]]], Cardinality(S))

\* InOrder lists every element once.
LEMMA InOrderProperties ==
  ASSUME NEW S, IsFiniteSet(S)
  PROVE  /\ Cardinality(S) \in Nat
         /\ \A i \in 1..Cardinality(S) : InOrder(S)[i] \in S
         /\ \A i, j \in 1..Cardinality(S) : InOrder(S)[i] = InOrder(S)[j] => i = j
         /\ \A x \in S : \E i \in 1..Cardinality(S) : InOrder(S)[i] = x
PROOF
<1>1. Cardinality(S) \in Nat /\ ExistsBijection(1..Cardinality(S), S)
  BY FS_CardinalityType
<1>2. InOrder(S) \in Bijection(1..Cardinality(S), S)
  BY <1>1 DEF InOrder, ExistsBijection
<1> QED
  BY <1>1, <1>2 DEF Bijection, Injection, Surjection, IsInjective

\* Functions that differ in one place have sums that differ by as much.
LEMMA SumOverChange ==
  ASSUME NEW S, IsFiniteSet(S), NEW f \in [S -> Nat], NEW g \in [S -> Nat],
         NEW x \in S, \A y \in S : y # x => f[y] = g[y]
  PROVE  SumOver(g, S) + f[x] = SumOver(f, S) + g[x]
PROOF
<1> DEFINE n == Cardinality(S)
           ff == [i \in 1..n |-> f[InOrder(S)[i]]]
           gg == [i \in 1..n |-> g[InOrder(S)[i]]]
<1>1. PICK c \in 1..n : InOrder(S)[c] = x
  BY InOrderProperties
<1>2. n \in Nat /\ ff \in [1..n -> Nat] /\ gg \in [1..n -> Nat]
  BY InOrderProperties
<1>3. \A i \in 1..n : i # c => ff[i] = gg[i]
  BY <1>1, InOrderProperties
<1>4. ff[c] = f[x] /\ gg[c] = g[x]
  BY <1>1
<1>5. SumTo(gg, n) + ff[c] = SumTo(ff, n) + gg[c]
  <2> HIDE DEF n, ff, gg
  <2> QED
    BY <1>2, <1>3, SumToChange
<1> QED
  BY <1>4, <1>5 DEF SumOver

\* A function that is zero everywhere has sum zero.
LEMMA SumOverZero ==
  ASSUME NEW S, IsFiniteSet(S), NEW f \in [S -> Nat], \A x \in S : f[x] = 0
  PROVE  SumOver(f, S) = 0
PROOF
<1> DEFINE n == Cardinality(S)
           ff == [i \in 1..n |-> f[InOrder(S)[i]]]
<1>1. n \in Nat /\ ff \in [1..n -> Nat] /\ \A i \in 1..n : ff[i] = 0
  BY InOrderProperties
<1>2. SumTo(ff, n) = 0
  <2> HIDE DEF n, ff
  <2> QED
    BY <1>1, SumToZero
<1> QED
  BY <1>2 DEF SumOver

\* A sum of natural numbers is one.
LEMMA SumOverType ==
  ASSUME NEW S, IsFiniteSet(S), NEW f \in [S -> Nat]
  PROVE  SumOver(f, S) \in Nat
PROOF
<1> DEFINE n == Cardinality(S)
           ff == [i \in 1..n |-> f[InOrder(S)[i]]]
<1>1. n \in Nat /\ ff \in [1..n -> Nat]
  BY InOrderProperties
<1>2. SumTo(ff, n) \in Nat
  <2> HIDE DEF n, ff
  <2>1. PICK p : PartialSums(p, ff, n) /\ SumTo(ff, n) = p[n]
    BY <1>1, SumToPartial
  <2> QED
    BY <1>1, <2>1 DEF PartialSums
<1> QED
  BY <1>2 DEF SumOver

-----------------------------------------------------------------------------
(* The inductive invariant *)

\* The child tables, by their places in Child.
Kind == 1..3

\* Before a call has inserted anything, and while its rows are on their way.
Early == {"probing", "counting", "creating"}
Filling(w) == at[w] \in {"inserting", "cascading"}

\* The variables have their types.
Types ==
  /\ orders \in [Shard -> Seq(Nat)]
  /\ tables \subseteq Shard \X Kind \X Nat
  /\ covered \in [Shard -> [Kind -> Seq(Nat)]]
  /\ main \in {"waiting", "ticking", "stopped"}
  /\ queue \in [Brand -> Seq(City)]
  /\ adrift \in [Shard -> Seq(Nat)] /\ overcount \in Nat
  /\ total \in Nat /\ inserted \in Nat /\ ticks \in Nat /\ faults \in Nat
  /\ at \in [Worker -> Busy \union {"off", "ready"}]
  /\ city \in [Worker -> City] /\ split \in [Worker -> Nat \ {0}]
  /\ ddl \in [Worker -> Nat] /\ kind \in [Worker -> Nat]
  /\ left \in [Worker -> 0..Count] /\ ids \in [Worker -> 0..Count]
  /\ misread \in BOOLEAN

\* A city is in a channel once, and with a worker or in the channel.
Alone ==
  /\ main # "ticking" => \A w \in Worker : at[w] = "off"
  /\ \A b \in Brand : \A i, j \in 1..Len(queue[b]) : queue[b][i] = queue[b][j] => i = j
  /\ \A w \in Worker : at[w] \in Busy =>
        \A i \in 1..Len(queue[w[1]]) : queue[w[1]][i] # city[w]
  /\ \A v, w \in Worker :
       v # w /\ at[v] \in Busy /\ at[w] \in Busy => ShardOf(v) # ShardOf(w)

\* The rows of a worker's split, and the number of its city's splits.
Rows(w) == orders[ShardOf(w)][split[w]]
Last(w) == Len(orders[ShardOf(w)])

\* Where a call is: its split exists, except while it is being created, and
\* the order_ids in hand and the orders still to insert are of one batch.
Place(w) ==
  /\ at[w] \in Early => ids[w] = 0 /\ left[w] = Count
  /\ at[w] \in Busy => ids[w] + left[w] <= Count
  /\ at[w] \in Busy => split[w] <= Last(w) + 1
  /\ at[w] \in Busy \ {"creating"} => split[w] <= Last(w)
  /\ at[w] = "creating" => ddl[w] \in 0..3 /\ (ddl[w] > 0 => split[w] <= Last(w))
  /\ at[w] = "cascading" => kind[w] \in Kind

\* The same for all calls; the three child counts go with every split.
Places ==
  /\ \A s \in Shard : Len(orders[s]) > 0 /\ \A k \in Kind : Len(covered[s][k]) = Len(orders[s])
  /\ \A s \in Shard : Len(adrift[s]) = Len(orders[s])
  /\ \A w \in Worker : Place(w)

\* With every answer read right, a call is at the last split and leaves it less
\* than a batch above its cap.
Room(w) ==
  /\ at[w] = "counting" => split[w] = Last(w)
  /\ at[w] = "creating" /\ ddl[w] = 0 =>
       split[w] = Last(w) + 1 /\ orders[ShardOf(w)][Last(w)] >= SplitRowCap
  /\ at[w] = "creating" /\ ddl[w] > 0 => split[w] = Last(w) /\ Rows(w) < SplitRowCap
  /\ at[w] = "inserting" => Rows(w) + left[w] < SplitRowCap + Count

\* Full splits come before the last one.
Filled ==
  misread \/
    /\ \A s \in Shard : \A n \in 1..Len(orders[s]) :
         /\ orders[s][n] < SplitRowCap + Count
         /\ n < Len(orders[s]) => orders[s][n] >= SplitRowCap
    /\ \A w \in Worker : Room(w)

\* Child table k will still get rows for the order_ids in w's hand.
Due(w, k) == Filling(w) /\ (at[w] = "cascading" => kind[w] <= k)

\* The order_ids that an answer to an INSERT into split n has named.
Named(s, n) == orders[s][n] + adrift[s][n]

\* The rows of a child table, with those still to come, are within those.
Within ==
  /\ \A s \in Shard, k \in Kind : \A n \in 1..Len(orders[s]) :
       /\ covered[s][k][n] <= Named(s, n)
       /\ covered[s][k][n] > 0 => <<s, k, n>> \in tables
  /\ \A w \in Worker, k \in Kind :
       Due(w, k) => covered[ShardOf(w)][k][split[w]] + ids[w] <= Named(ShardOf(w), split[w])

\* w is going to create child table k of its split.
Making(w, k) == at[w] = "creating" /\ ddl[w] <= k

\* Without a fault nothing is missing but what a worker is about to add.
Exact ==
  faults = 0 =>
    /\ misread = FALSE
    /\ \A s \in Shard, k \in Kind : \A n \in 1..Len(orders[s]) :
         \/ <<s, k, n>> \in tables
         \/ \E w \in Worker : Making(w, k) /\ ShardOf(w) = s /\ split[w] = n
    /\ \A s \in Shard, k \in 1..2 : \A n \in 1..Len(orders[s]) :
         \/ covered[s][k][n] = orders[s][n]
         \/ \E w \in Worker : Filling(w) /\ ShardOf(w) = s /\ split[w] = n
    /\ \A w \in Worker, k \in 1..2 :
         Filling(w) =>
           IF at[w] = "cascading" /\ k < kind[w]
           THEN covered[ShardOf(w)][k][split[w]] = Rows(w)
           ELSE covered[ShardOf(w)][k][split[w]] + ids[w] = Rows(w)

\* What the calls under way will report.
Owed == [w \in Worker |-> IF at[w] \in Busy THEN ids[w] ELSE 0]

\* The total and what is owed to it are orders inserted, or rolled back after
\* their order_ids were read.
Account ==
  /\ total + SumOver(Owed, Worker) <= inserted + overcount
  /\ faults = 0 => total + SumOver(Owed, Worker) = inserted

\* The inductive invariant.
IInv == Types /\ Alone /\ Places /\ Filled /\ Within /\ Exact /\ Account

-----------------------------------------------------------------------------
\* The child tables by their numbers.
LEMMA KindFacts ==
  DOMAIN Child = Kind /\ Len(Child) = 3
BY DEF Child, Kind

\* There are finitely many goroutines.
LEMMA WorkerFinite ==
  IsFiniteSet(Worker)
PROOF
<1>1. IsFiniteSet(1..Workers)
  BY HotAssumption, FS_Interval
<1>2. IsFiniteSet(Brand)
  BY HotAssumption
<1> QED
  BY <1>1, <1>2, FS_Product DEF Worker

-----------------------------------------------------------------------------
(* The initial state and the process as a whole *)

\* The first splits are empty and nobody works.
LEMMA InitIInv ==
  Init => IInv
PROOF
<1> SUFFICES ASSUME Init PROVE IInv
  OBVIOUS
<1>1. Types
  <2>1. <<0>> \in Seq(Nat) /\ << >> \in Seq(City)
    OBVIOUS
  <2>2. 1 \in City
    BY HotAssumption DEF City
  <2>3. tables \subseteq Shard \X Kind \X Nat
    BY KindFacts DEF Init
  <2>4. /\ orders \in [Shard -> Seq(Nat)] /\ covered \in [Shard -> [Kind -> Seq(Nat)]]
        /\ adrift \in [Shard -> Seq(Nat)]
    BY <2>1, KindFacts DEF Init
  <2>5. /\ main = "waiting" /\ queue \in [Brand -> Seq(City)] /\ misread = FALSE
        /\ at \in [Worker -> Busy \union {"off", "ready"}] /\ city \in [Worker -> City]
    BY <2>1, <2>2 DEF Init
  <2>6. /\ split \in [Worker -> Nat \ {0}] /\ ddl \in [Worker -> Nat] /\ kind \in [Worker -> Nat]
        /\ left \in [Worker -> 0..Count] /\ ids \in [Worker -> 0..Count]
        /\ total = 0 /\ inserted = 0 /\ overcount = 0 /\ ticks = 0 /\ faults = 0
    BY HotAssumption DEF Init
  <2> QED
    BY <2>3, <2>4, <2>5, <2>6 DEF Types
<1>2. Alone
  BY DEF Init, Alone, Busy
<1>3. Places
  BY HotAssumption, KindFacts DEF Init, Places, Place, Early, Busy, Kind
<1>4. Filled
  BY HotAssumption DEF Init, Filled, Room
<1>5. Within
  BY HotAssumption, KindFacts DEF Init, Within, Named, Due, Filling, Kind
<1>6. Exact
  BY HotAssumption, KindFacts DEF Init, Exact, Filling, Making, Kind
<1>7. Account
  <2>1. Owed \in [Worker -> Nat] /\ \A w \in Worker : Owed[w] = 0
    BY DEF Init, Owed, Busy
  <2>2. SumOver(Owed, Worker) = 0
    <3> HIDE DEF Owed
    <3> QED
      BY <2>1, WorkerFinite, SumOverZero
  <2> QED
    BY <2>2 DEF Init, Account
<1> QED
  BY <1>1, <1>2, <1>3, <1>4, <1>5, <1>6, <1>7 DEF IInv

\* Every channel is filled anew, and every worker starts.
LEMMA TickKeeps ==
  ASSUME IInv, Tick
  PROVE  IInv'
PROOF
<1> USE HotAssumption DEF Tick, dbVars
<1>0. Types /\ Alone /\ Places /\ Filled /\ Within /\ Exact /\ Account
  BY DEF IInv
<1>1. Types'
  BY <1>0 DEF Types, Busy, City
<1>2. Alone'
  <2>1. main' = "ticking"
    OBVIOUS
  <2>2. \A b \in Brand : \A i, j \in 1..Len(queue'[b]) : queue'[b][i] = queue'[b][j] => i = j
    BY DEF City
  <2>3. \A w \in Worker : at'[w] = "ready"
    OBVIOUS
  <2> QED
    BY <2>1, <2>2, <2>3 DEF Alone, Busy
<1>3. Places'
  BY <1>0 DEF Places, Place, Early, Busy
<1>4. Filled'
  BY <1>0 DEF Filled, Room
<1>5. Within'
  BY <1>0 DEF Within, Named, Due, Filling
<1>6. Exact'
  BY <1>0 DEF Exact, Filling, Making, Alone
<1>7. Account'
  <2>1. Owed' \in [Worker -> Nat] /\ \A w \in Worker : Owed'[w] = 0
    BY <1>0 DEF Owed, Busy
  <2>2. SumOver(Owed', Worker) = 0
    <3> HIDE DEF Owed
    <3> QED
      BY <2>1, WorkerFinite, SumOverZero
  <2>3. SumOver(Owed, Worker)' = SumOver(Owed', Worker)
    BY DEF SumOver, SumTo, PartialSums, InOrder
  <2> QED
    BY <2>2, <2>3 DEF Account
<1> QED
  BY <1>1, <1>2, <1>3, <1>4, <1>5, <1>6, <1>7 DEF IInv


\* The end of a tick and of the process touch no worker.
LEMMA EndTickKeeps ==
  ASSUME IInv, EndTick \/ Stop
  PROVE  IInv'
PROOF
<1> USE DEF EndTick, Stop, dbVars, workerVars, history, tally
<1>0. Types /\ Alone /\ Places /\ Filled /\ Within /\ Exact /\ Account
  BY DEF IInv
<1>1. Types'
  BY <1>0 DEF Types
<1>2. Alone'
  BY <1>0 DEF Alone, ShardOf
<1>3. Places'
  BY <1>0 DEF Places, Place, Last, ShardOf
<1>4. Filled'
  BY <1>0 DEF Filled, Room, Last, Rows, ShardOf
<1>5. Within'
  BY <1>0 DEF Within, Named, Due, Filling, Rows, ShardOf
<1>6. Exact'
  BY <1>0, SMTT(30) DEF Exact, Filling, Making, Rows, ShardOf
<1>7. Account'
  BY <1>0 DEF Account, Owed
<1> QED
  BY <1>1, <1>2, <1>3, <1>4, <1>5, <1>6, <1>7 DEF IInv

\* A killed process leaves the tables as they are, and owes nothing.
LEMMA CrashKeeps ==
  ASSUME IInv, Crash
  PROVE  IInv'
PROOF
<1> USE DEF Crash, Fault, dbVars, tally
<1>0. Types /\ Alone /\ Places /\ Filled /\ Within /\ Exact /\ Account
  BY DEF IInv
<1>1. Types'
  BY <1>0 DEF Types
<1>2. Alone'
  BY <1>0 DEF Alone, Busy
<1>3. Places'
  BY <1>0 DEF Places, Place, Busy, Early
<1>4. Filled'
  BY <1>0 DEF Filled, Room
<1>5. Within'
  BY <1>0 DEF Within, Named, Due, Filling
<1>6. Exact'
  BY <1>0 DEF Exact, Types
<1>7. Account'
  <2>1. Owed' \in [Worker -> Nat] /\ \A w \in Worker : Owed'[w] = 0
    BY <1>0 DEF Owed, Busy
  <2>2. SumOver(Owed', Worker) = 0
    <3> HIDE DEF Owed
    <3> QED
      BY <2>1, WorkerFinite, SumOverZero
  <2>3. Owed \in [Worker -> Nat]
    BY <1>0 DEF Owed, Types
  <2>4. SumOver(Owed, Worker) \in Nat
    <3> HIDE DEF Owed
    <3> QED
      BY <2>3, WorkerFinite, SumOverType
  <2> QED
    BY <1>0, <2>2, <2>4 DEF Account, Types
<1> QED
  BY <1>1, <1>2, <1>3, <1>4, <1>5, <1>6, <1>7 DEF IInv

-----------------------------------------------------------------------------
(* Steps of a worker *)

\* The tables a worker's city stands for.
LEMMA ShardOfWorker ==
  ASSUME Types, NEW w \in Worker
  PROVE  /\ w[1] \in Brand /\ city[w] \in City /\ ShardOf(w) \in Shard
         /\ orders[ShardOf(w)] \in Seq(Nat) /\ Len(orders[ShardOf(w)]) \in Nat
         /\ \A k \in Kind : covered[ShardOf(w)][k] \in Seq(Nat)
BY DEF Types, Worker, Shard, ShardOf

\* A step of one worker changes what the calls owe by what its own owes.
LEMMA OwedByOne ==
  ASSUME Types, Types', NEW w \in Worker,
         \A v \in Worker : v # w => Owed'[v] = Owed[v]
  PROVE  /\ SumOver(Owed, Worker) \in Nat /\ SumOver(Owed', Worker) \in Nat
         /\ SumOver(Owed', Worker) + Owed[w] = SumOver(Owed, Worker) + Owed'[w]
         /\ Owed[w] \in Nat /\ Owed'[w] \in Nat
PROOF
<1>1. Owed \in [Worker -> Nat] /\ Owed' \in [Worker -> Nat]
  BY DEF Owed, Types
<1> HIDE DEF Owed
<1> QED
  BY <1>1, WorkerFinite, SumOverChange, SumOverType

\* A city leaves the channel for one worker.
LEMMA TakeCityKeeps ==
  ASSUME IInv, NEW w \in Worker, TakeCity(w)
  PROVE  IInv'
PROOF
<1> USE DEF TakeCity, Move, dbVars, history, tally
<1>0. Types /\ Alone /\ Places /\ Filled /\ Within /\ Exact /\ Account
  BY DEF IInv
<1>1. w[1] \in Brand /\ queue[w[1]] \in Seq(City) /\ queue[w[1]] # << >>
  BY <1>0, ShardOfWorker DEF Types
<1>2. /\ Head(queue[w[1]]) = queue[w[1]][1] /\ Head(queue[w[1]]) \in City
      /\ Tail(queue[w[1]]) \in Seq(City) /\ Len(queue[w[1]]) \in Nat \ {0}
      /\ Len(Tail(queue[w[1]])) = Len(queue[w[1]]) - 1
      /\ \A i \in 1..Len(queue[w[1]]) - 1 : Tail(queue[w[1]])[i] = queue[w[1]][i + 1]
  BY <1>1
<1>3. Types'
  BY <1>0, <1>1, <1>2, HotAssumption, SMTT(30) DEF Types, Busy
<1>4. \A v \in Worker : v # w =>
        /\ at'[v] = at[v] /\ city'[v] = city[v] /\ split'[v] = split[v] /\ ddl'[v] = ddl[v]
        /\ left'[v] = left[v] /\ ids'[v] = ids[v] /\ kind'[v] = kind[v]
        /\ ShardOf(v)' = ShardOf(v)
  BY <1>0 DEF Types, ShardOf
<1>5. /\ at[w] = "ready" /\ at'[w] = "probing" /\ city'[w] = queue[w[1]][1]
      /\ split'[w] = 1 /\ left'[w] = Count /\ ids'[w] = 0
  BY <1>0, <1>2 DEF Types
<1>6. Alone'
  <2>1. main' = "ticking"
    BY <1>0, <1>5 DEF Alone, Types
  <2>2. ASSUME NEW b \in Brand, NEW i \in 1..Len(queue'[b])
        PROVE  /\ \A j \in 1..Len(queue'[b]) : queue'[b][i] = queue'[b][j] => i = j
               /\ b = w[1] => queue'[b][i] # queue[b][1]
               /\ \E j \in 1..Len(queue[b]) : queue'[b][i] = queue[b][j]
    <3>1. CASE b = w[1]
      <4>1. queue'[b] = Tail(queue[b])
        BY <1>0, <3>1 DEF Types
      <4>2. Len(queue'[b]) = Len(queue[b]) - 1 /\ Len(queue[b]) \in Nat
        BY <1>2, <3>1, <4>1
      <4>3. \A j \in 1..Len(queue'[b]) : j + 1 \in 1..Len(queue[b]) /\ queue'[b][j] = queue[b][j + 1]
        BY <1>2, <3>1, <4>1, <4>2
      <4>4. 1 \in 1..Len(queue[b]) /\ i \in Nat
        BY <1>2, <3>1
      <4>5. \A j, k \in 1..Len(queue[b]) : queue[b][j] = queue[b][k] => j = k
        BY <1>0 DEF Alone
      <4>6. \A j \in 1..Len(queue'[b]) : queue'[b][i] = queue'[b][j] => i = j
        <5> SUFFICES ASSUME NEW j \in 1..Len(queue'[b]), queue'[b][i] = queue'[b][j]
                     PROVE  i = j
          OBVIOUS
        <5>1. i + 1 \in 1..Len(queue[b]) /\ j + 1 \in 1..Len(queue[b])
          BY <4>3
        <5>2. queue[b][i + 1] = queue[b][j + 1]
          BY <4>3
        <5>3. i + 1 = j + 1
          BY <4>5, <5>1, <5>2
        <5>4. i \in Nat /\ j \in Nat
          BY <4>2
        <5> QED
          BY <5>3, <5>4
      <4>7. queue'[b][i] # queue[b][1]
        BY <4>2, <4>3, <4>4, <4>5
      <4> QED
        BY <4>3, <4>6, <4>7
    <3>2. CASE b # w[1]
      <4>1. queue'[b] = queue[b]
        BY <1>0, <3>2 DEF Types
      <4> QED
        BY <1>0, <3>2, <4>1 DEF Alone
    <3> QED
      BY <3>1, <3>2
  <2>3. ASSUME NEW v \in Worker, at'[v] \in Busy, NEW i \in 1..Len(queue'[v[1]])
        PROVE  queue'[v[1]][i] # city'[v]
    <3>0. v[1] \in Brand
      BY DEF Worker
    <3>1. CASE v = w
      <4>1. v[1] = w[1] => queue'[v[1]][i] # queue[v[1]][1]
        BY <2>2, <3>0, Zenon
      <4> QED
        BY <1>5, <3>1, <4>1, Zenon
    <3>2. CASE v # w
      BY <1>0, <1>4, <2>2, <2>3, <3>0, <3>2 DEF Alone
    <3> QED
      BY <3>1, <3>2
  <2>4. ASSUME NEW v \in Worker, v # w, at[v] \in Busy
        PROVE  ShardOf(v) # <<w[1], queue[w[1]][1]>>
    BY <1>0, <1>2, <2>4, SMTT(30) DEF Alone, ShardOf
  <2>5. ShardOf(w)' = <<w[1], queue[w[1]][1]>>
    BY <1>5 DEF ShardOf
  <2>6. \A u, v \in Worker :
          u # v /\ at'[u] \in Busy /\ at'[v] \in Busy => ShardOf(u)' # ShardOf(v)'
    BY <1>0, <1>4, <2>4, <2>5 DEF Alone
  <2> QED
    BY <2>1, <2>2, <2>3, <2>6 DEF Alone
<1>7. ShardOf(w)' \in Shard
  BY <1>3, ShardOfWorker DEF Types, Shard, ShardOf
<1>8. Places'
  BY <1>0, <1>3, <1>4, <1>5, <1>7, HotAssumption, SMTT(30) DEF Places, Place, Last, Early, Busy, Types
<1>9. Filled'
  BY <1>0, <1>4, <1>5 DEF Filled, Room, Last, Rows
<1>10. Within'
  BY <1>0, <1>4, <1>5 DEF Within, Named, Due, Filling, Rows
<1>11. Exact'
  BY <1>0, <1>4, <1>5 DEF Exact, Filling, Making, Rows
<1>12. Account'
  <2>1. \A v \in Worker : v # w => Owed'[v] = Owed[v]
    BY <1>4 DEF Owed
  <2>2. Owed[w] = 0 /\ Owed'[w] = 0
    BY <1>5 DEF Owed, Busy
  <2> HIDE DEF Owed, TakeCity
  <2>3. SumOver(Owed', Worker) = SumOver(Owed, Worker)
    BY <1>0, <1>3, <2>1, <2>2, OwedByOne
  <2> QED
    BY <1>0, <2>3 DEF Account, TakeCity
<1> QED
  BY <1>3, <1>6, <1>8, <1>9, <1>10, <1>11, <1>12 DEF IInv


\* An empty channel ends a worker.
LEMMA WorkerReturnsKeeps ==
  ASSUME IInv, NEW w \in Worker, WorkerReturns(w)
  PROVE  IInv'
PROOF
<1> USE DEF WorkerReturns, Move, dbVars, history, tally
<1>0. Types /\ Alone /\ Places /\ Filled /\ Within /\ Exact /\ Account
  BY DEF IInv
<1>1. Types'
  BY <1>0 DEF Types
<1>2. at[w] = "ready" /\ at'[w] = "off" /\ \A v \in Worker : v # w => at'[v] = at[v]
  BY <1>0 DEF Types
<1>3. \A v \in Worker : ShardOf(v)' = ShardOf(v)
  BY DEF ShardOf
<1>4. Alone'
  BY <1>0, <1>2, <1>3 DEF Alone, Busy
<1>5. Places'
  BY <1>0, <1>2, <1>3 DEF Places, Place, Last, Early, Busy
<1>6. Filled'
  BY <1>0, <1>2, <1>3 DEF Filled, Room, Last, Rows
<1>7. Within'
  BY <1>0, <1>2, <1>3 DEF Within, Named, Due, Filling, Rows
<1>8. Exact'
  BY <1>0, <1>2, <1>3 DEF Exact, Filling, Making, Rows
<1>9. Account'
  <2>1. Owed' = Owed
    BY <1>0, <1>2 DEF Owed, Busy
  <2> QED
    BY <1>0, <2>1 DEF Account
<1> QED
  BY <1>1, <1>4, <1>5, <1>6, <1>7, <1>8, <1>9 DEF IInv

\* A probe moves to the next split, or ends at the last one unless it fails.
LEMMA ProbeKeeps ==
  ASSUME IInv, NEW w \in Worker, Probe(w)
  PROVE  IInv'
PROOF
<1> DEFINE last == Len(orders[ShardOf(w)])
<1>0. Types /\ Alone /\ Places /\ Filled /\ Within /\ Exact /\ Account
  BY DEF IInv
<1>1. /\ UNCHANGED <<orders, tables, covered, adrift, main, queue, total, city, ddl, left, ids, kind,
                     inserted, overcount>>
      /\ at[w] = "probing" /\ last \in Nat /\ split[w] <= last /\ split[w] \in Nat \ {0}
  <2>1. /\ UNCHANGED <<orders, tables, covered, adrift, main, queue, total, city, ddl, left, ids, kind,
                       inserted, overcount>>
        /\ at[w] = "probing"
    BY DEF Probe, dbVars, tally
  <2>2. Place(w)
    BY <1>0 DEF Places
  <2>3. last \in Nat /\ split[w] \in Nat \ {0}
    BY <1>0, ShardOfWorker DEF Types
  <2> QED
    BY <2>1, <2>2, <2>3 DEF Place, Last, Busy
<1>2. \/ split[w] < last /\ split' = [split EXCEPT ![w] = @ + 1]
         /\ UNCHANGED <<at, faults, ticks, misread>>
      \/ split[w] = last /\ at' = [at EXCEPT ![w] = "counting"]
         /\ UNCHANGED <<split, faults, ticks, misread>>
      \/ /\ faults' = faults + 1 /\ UNCHANGED <<ticks, split>>
         /\ at' = [at EXCEPT ![w] = "counting"]
         /\ misread' = (misread \/ split[w] < last)
  BY DEF Probe, Fault, Move
<1>3. Types'
  <2>1. split' \in [Worker -> Nat \ {0}]
    BY <1>0, <1>2, SMTT(30) DEF Types
  <2>2. at' \in [Worker -> Busy \union {"off", "ready"}]
    BY <1>0, <1>2 DEF Types, Busy
  <2>3. misread' \in BOOLEAN
    BY <1>0, <1>2 DEF Types
  <2>4. faults' \in Nat /\ ticks' \in Nat
    BY <1>0, <1>2 DEF Types
  <2> QED
    BY <1>0, <1>1, <2>1, <2>2, <2>3, <2>4 DEF Types
<1>4. /\ \A v \in Worker : ShardOf(v)' = ShardOf(v)
      /\ \A v \in Worker : v # w => at'[v] = at[v] /\ split'[v] = split[v]
  BY <1>0, <1>1, <1>2 DEF Types, ShardOf
<1>5. /\ at'[w] \in {"probing", "counting"} /\ split'[w] <= last
      /\ faults' # 0 \/ (faults' = faults /\ misread' = misread)
      /\ misread' = FALSE => misread = FALSE /\ (at'[w] = "counting" => split'[w] = last)
  <2>1. at'[w] \in {"probing", "counting"} /\ split'[w] <= last
    BY <1>0, <1>1, <1>2 DEF Types
  <2>2. faults' # 0 \/ (faults' = faults /\ misread' = misread)
    BY <1>0, <1>2 DEF Types
  <2>3. misread' = FALSE => misread = FALSE
    BY <1>0, <1>2 DEF Types
  <2>4. ASSUME misread' = FALSE, at'[w] = "counting" PROVE split'[w] = last
    <3>1. split[w] < last /\ split' = [split EXCEPT ![w] = @ + 1] /\ at' = at => FALSE
      BY <1>1, <2>4
    <3>2. ~(split[w] < last) /\ split' = split => split'[w] = last
      BY <1>1
    <3> QED
      BY <1>2, <2>4, <3>1, <3>2
  <2> QED
    BY <2>1, <2>2, <2>3, <2>4
<1> HIDE DEF last
<1>6. Alone'
  <2>1. main' = main /\ queue' = queue /\ city' = city
    BY <1>1
  <2>2. \A v \in Worker : (at'[v] \in Busy <=> at[v] \in Busy) /\ (at'[v] = "off" <=> at[v] = "off")
    BY <1>1, <1>4, <1>5 DEF Busy
  <2> QED
    BY <1>0, <1>4, <2>1, <2>2 DEF Alone
<1>7. Places'
  <2>1. Place(w)'
    <3>1. ids'[w] = 0 /\ left'[w] = Count /\ Last(w)' = last
      BY <1>0, <1>1, <1>4 DEF Places, Place, Last, Early, last
    <3>2. split'[w] \in Nat
      BY <1>3 DEF Types
    <3> QED
      BY <1>1, <1>5, <3>1, <3>2, HotAssumption DEF Place, Early, Busy
  <2>2. \A v \in Worker : v # w => Place(v)'
    BY <1>0, <1>1, <1>4 DEF Places, Place, Last, Early, Busy
  <2> QED
    BY <1>0, <1>1, <2>1, <2>2 DEF Places
<1>8. Filled'
  <2>1. CASE misread' = FALSE
    BY <1>0, <1>1, <1>4, <1>5, <2>1 DEF Filled, Room, Last, Rows, last
  <2>2. CASE misread'
    BY <2>2 DEF Filled
  <2> QED
    BY <1>3, <2>1, <2>2 DEF Types
<1>9. Within'
  BY <1>0, <1>1, <1>4, <1>5 DEF Within, Named, Due, Filling, Rows
<1>10. Exact'
  BY <1>0, <1>1, <1>4, <1>5, SMTT(30) DEF Exact, Filling, Making, Rows
<1>11. Account'
  <2>1. Owed' = Owed
    BY <1>0, <1>1, <1>4, <1>5 DEF Owed, Busy
  <2> QED
    BY <1>0, <1>1, <1>5, <2>1 DEF Account
<1> QED
  BY <1>3, <1>6, <1>7, <1>8, <1>9, <1>10, <1>11 DEF IInv


\* A count finds the last split full, or sends its worker to insert.
LEMMA CountRowsKeeps ==
  ASSUME IInv, NEW w \in Worker, CountRows(w)
  PROVE  IInv'
PROOF
<1> DEFINE s == ShardOf(w)
<1>0. Types /\ Alone /\ Places /\ Filled /\ Within /\ Exact /\ Account
  BY DEF IInv
<1>1. /\ UNCHANGED <<orders, tables, covered, adrift, main, queue, total, city, left, ids, kind,
                     inserted, overcount, ticks>>
      /\ at[w] = "counting"
  BY DEF CountRows, dbVars, history, tally, Fault
<1>2. \/ /\ orders[s][split[w]] >= SplitRowCap /\ split' = [split EXCEPT ![w] = @ + 1]
         /\ ddl' = [ddl EXCEPT ![w] = 0] /\ at' = [at EXCEPT ![w] = "creating"]
         /\ UNCHANGED <<faults, misread>>
      \/ /\ orders[s][split[w]] < SplitRowCap /\ at' = [at EXCEPT ![w] = "inserting"]
         /\ UNCHANGED <<split, ddl, faults, misread>>
      \/ /\ faults' = faults + 1 /\ UNCHANGED <<split, ddl>>
         /\ at' = [at EXCEPT ![w] = "inserting"]
         /\ misread' = (misread \/ orders[s][split[w]] >= SplitRowCap)
  BY DEF CountRows, Fault, Move, history, tally
<1>3. /\ s \in Shard /\ orders[s] \in Seq(Nat) /\ Len(orders[s]) \in Nat
      /\ split[w] \in 1..Len(orders[s]) /\ orders[s][split[w]] \in Nat
      /\ ids[w] = 0 /\ left[w] = Count
  <2>1. s \in Shard /\ orders[s] \in Seq(Nat) /\ Len(orders[s]) \in Nat /\ split[w] \in Nat \ {0}
    BY <1>0, ShardOfWorker DEF Types
  <2>2. Place(w)
    BY <1>0 DEF Places
  <2>3. split[w] <= Len(orders[s]) /\ ids[w] = 0 /\ left[w] = Count
    BY <1>1, <2>2 DEF Place, Last, Busy, Early
  <2>4. split[w] \in 1..Len(orders[s])
    BY <2>1, <2>3
  <2> QED
    BY <2>1, <2>3, <2>4
<1> HIDE DEF s
<1>4. Types'
  <2>1. split' \in [Worker -> Nat \ {0}]
    <3>1. split' = [split EXCEPT ![w] = @ + 1] \/ split' = split
      BY <1>2, Zenon
    <3>2. split[w] + 1 \in Nat \ {0} /\ split \in [Worker -> Nat \ {0}]
      BY <1>0, <1>3 DEF Types
    <3> QED
      BY <3>1, <3>2
  <2>2. at' \in [Worker -> Busy \union {"off", "ready"}]
    BY <1>0, <1>2 DEF Types, Busy
  <2>3. misread' \in BOOLEAN
    BY <1>0, <1>2 DEF Types
  <2>4. faults' \in Nat /\ ddl' \in [Worker -> Nat]
    <3>1. /\ ddl' = [ddl EXCEPT ![w] = 0] \/ ddl' = ddl
          /\ faults' = faults + 1 \/ faults' = faults
      BY <1>2, Zenon
    <3> QED
      BY <1>0, <3>1 DEF Types
  <2> QED
    BY <1>0, <1>1, <2>1, <2>2, <2>3, <2>4 DEF Types
<1>5. /\ \A v \in Worker : ShardOf(v)' = ShardOf(v)
      /\ \A v \in Worker : v # w => at'[v] = at[v] /\ split'[v] = split[v] /\ ddl'[v] = ddl[v]
  BY <1>0, <1>1, <1>2 DEF Types, ShardOf
<1>6. \/ /\ at'[w] = "creating" /\ split'[w] = split[w] + 1 /\ ddl'[w] = 0
         /\ orders[s][split[w]] >= SplitRowCap
         /\ faults' = faults /\ misread' = misread
      \/ /\ at'[w] = "inserting" /\ split'[w] = split[w]
         /\ faults' # 0 \/ (faults' = faults /\ misread' = misread)
         /\ misread' = FALSE => misread = FALSE /\ orders[s][split[w]] < SplitRowCap
  <2>1. w \in DOMAIN split /\ w \in DOMAIN ddl /\ w \in DOMAIN at /\ faults \in Nat /\ misread \in BOOLEAN
    BY <1>0 DEF Types
  <2>2. CASE /\ orders[s][split[w]] >= SplitRowCap /\ split' = [split EXCEPT ![w] = @ + 1]
             /\ ddl' = [ddl EXCEPT ![w] = 0] /\ at' = [at EXCEPT ![w] = "creating"]
             /\ UNCHANGED <<faults, misread>>
    BY <2>1, <2>2
  <2>3. CASE /\ orders[s][split[w]] < SplitRowCap /\ at' = [at EXCEPT ![w] = "inserting"]
             /\ UNCHANGED <<split, ddl, faults, misread>>
    BY <2>1, <2>3
  <2>4. CASE /\ faults' = faults + 1 /\ UNCHANGED <<split, ddl>>
             /\ at' = [at EXCEPT ![w] = "inserting"]
             /\ misread' = (misread \/ orders[s][split[w]] >= SplitRowCap)
    <3>1. at'[w] = "inserting" /\ split'[w] = split[w] /\ faults' # 0
      BY <2>1, <2>4
    <3>2. misread' = FALSE => misread = FALSE /\ ~(orders[s][split[w]] >= SplitRowCap)
      BY <2>1, <2>4
    <3>3. ~(orders[s][split[w]] >= SplitRowCap) => orders[s][split[w]] < SplitRowCap
      BY <1>3, HotAssumption
    <3> QED
      BY <3>1, <3>2, <3>3
  <2> QED
    BY <1>2, <2>2, <2>3, <2>4, Zenon
<1>7. Alone'
  BY <1>0, <1>1, <1>5, <1>6 DEF Alone, Busy
<1>8. Places'
  <2>1. Place(w)'
    <3>1. ids'[w] = 0 /\ left'[w] = Count /\ Last(w)' = Len(orders[s])
      BY <1>0, <1>1, <1>3, <1>5 DEF Last, s
    <3> QED
      BY <1>3, <1>6, <3>1, HotAssumption, SMTT(30) DEF Place, Early, Busy
  <2>2. \A v \in Worker : v # w => Place(v)'
    BY <1>0, <1>1, <1>5 DEF Places, Place, Last, Early, Busy
  <2> QED
    BY <1>0, <1>1, <2>1, <2>2 DEF Places
<1>9. Filled'
  <2>1. CASE misread' = FALSE
    <3>1. misread = FALSE /\ Room(w)
      BY <1>0, <1>6, <2>1 DEF Filled
    <3>2. split[w] = Len(orders[s])
      BY <1>1, <3>1 DEF Room, Last, s
    <3>3. Room(w)'
      <4>1. CASE at'[w] = "creating"
        BY <1>1, <1>5, <1>6, <3>2, <4>1 DEF Room, Last, s
      <4>2. CASE at'[w] = "inserting"
        BY <1>1, <1>3, <1>5, <1>6, <2>1, <4>2, HotAssumption DEF Room, Rows, s
      <4> QED
        BY <1>6, <4>1, <4>2
    <3>4. \A v \in Worker : v # w => Room(v)'
      BY <1>0, <1>1, <1>5, <3>1 DEF Filled, Room, Last, Rows
    <3> QED
      BY <1>0, <1>1, <3>1, <3>3, <3>4 DEF Filled
  <2>2. CASE misread'
    BY <2>2 DEF Filled
  <2> QED
    BY <1>4, <2>1, <2>2 DEF Types
<1>10. Within'
  <2>1. \A t \in Shard, k \in Kind : \A n \in 1..Len(orders'[t]) :
          /\ covered'[t][k][n] <= Named(t, n)'
          /\ covered'[t][k][n] > 0 => <<t, k, n>> \in tables'
    BY <1>0, <1>1 DEF Within, Named
  <2>2. ASSUME NEW k \in Kind, at'[w] = "inserting"
        PROVE  covered'[s][k][split'[w]] + ids'[w] <= orders'[s][split'[w]] + adrift'[s][split'[w]]
    <3>1. covered[s][k][split[w]] \in Nat
      BY <1>0, <1>3 DEF Types, Places
    <3>2. covered[s][k][split[w]] <= Named(s, split[w])
      BY <1>0, <1>3 DEF Within, Named
    <3> QED
      BY <1>1, <1>3, <1>6, <2>2, <3>1, <3>2 DEF Named, s
  <2>3. \A k \in Kind : Due(w, k)' => covered'[ShardOf(w)'][k][split'[w]] + ids'[w] <= Named(ShardOf(w), split[w])'
    BY <1>5, <1>6, <2>2 DEF Due, Filling, Named, s
  <2>4. \A v \in Worker, k \in Kind : v # w /\ Due(v, k)' =>
          covered'[ShardOf(v)'][k][split'[v]] + ids'[v] <= Named(ShardOf(v), split[v])'
    BY <1>0, <1>1, <1>5 DEF Within, Named, Due, Filling, Rows
  <2> QED
    BY <2>1, <2>3, <2>4 DEF Within, Named
<1>11. Exact'
  <2> SUFFICES ASSUME faults' = 0 PROVE Exact'
    BY DEF Exact
  <2>1. faults = 0 /\ misread' = FALSE /\ misread = FALSE
    BY <1>0, <1>6 DEF Exact
  <2>2. \A t \in Shard, k \in Kind : \A n \in 1..Len(orders'[t]) :
          \/ <<t, k, n>> \in tables'
          \/ \E v \in Worker : Making(v, k)' /\ ShardOf(v)' = t /\ split'[v] = n
    <3> TAKE t \in Shard, k \in Kind
    <3> TAKE n \in 1..Len(orders'[t])
    <3>1. \/ <<t, k, n>> \in tables
          \/ \E v \in Worker : Making(v, k) /\ ShardOf(v) = t /\ split[v] = n
      BY <1>0, <1>1, <2>1 DEF Exact
    <3>2. ASSUME NEW v \in Worker, Making(v, k), ShardOf(v) = t, split[v] = n
          PROVE  Making(v, k)' /\ ShardOf(v)' = t /\ split'[v] = n
      BY <1>1, <1>5, <3>2 DEF Making
    <3> QED
      BY <1>1, <3>1, <3>2
  <2>3. \A t \in Shard, k \in 1..2 : \A n \in 1..Len(orders'[t]) :
          \/ covered'[t][k][n] = orders'[t][n]
          \/ \E v \in Worker : Filling(v)' /\ ShardOf(v)' = t /\ split'[v] = n
    BY <1>0, <1>1, <1>5, <2>1 DEF Exact, Filling
  <2>4. ASSUME NEW k \in 1..2
        PROVE  covered[s][k][split[w]] = orders[s][split[w]]
    <3>1. \/ covered[s][k][split[w]] = orders[s][split[w]]
          \/ \E v \in Worker : Filling(v) /\ ShardOf(v) = s /\ split[v] = split[w]
      BY <1>0, <1>3, <2>1, SMTT(30) DEF Exact
    <3>2. ASSUME NEW v \in Worker, Filling(v), ShardOf(v) = s PROVE FALSE
      BY <1>0, <1>1, <3>2 DEF Alone, Busy, Filling, s
    <3> QED
      BY <3>1, <3>2
  <2>5. \A k \in 1..2 : covered'[ShardOf(w)'][k][split[w]] + ids'[w] = orders'[ShardOf(w)'][split[w]]
    BY <1>1, <1>3, <1>5, <2>4, SMTT(30) DEF s
  <2>6. \A k \in 1..2 : Filling(w)' =>
           IF at'[w] = "cascading" /\ k < kind'[w]
           THEN covered'[ShardOf(w)'][k][split'[w]] = Rows(w)'
           ELSE covered'[ShardOf(w)'][k][split'[w]] + ids'[w] = Rows(w)'
    BY <1>6, <2>5 DEF Filling, Rows
  <2>7. \A v \in Worker, k \in 1..2 : v # w /\ Filling(v)' =>
           IF at'[v] = "cascading" /\ k < kind'[v]
           THEN covered'[ShardOf(v)'][k][split'[v]] = Rows(v)'
           ELSE covered'[ShardOf(v)'][k][split'[v]] + ids'[v] = Rows(v)'
    BY <1>0, <1>1, <1>5, <2>1 DEF Exact, Filling, Rows
  <2> QED
    BY <2>1, <2>2, <2>3, <2>6, <2>7 DEF Exact
<1>12. Account'
  <2>1. Owed' = Owed
    BY <1>0, <1>1, <1>5, <1>6 DEF Owed, Busy
  <2> QED
    BY <1>0, <1>1, <1>6, <2>1 DEF Account
<1> QED
  BY <1>4, <1>7, <1>8, <1>9, <1>10, <1>11, <1>12 DEF IInv

\* CREATE TABLE for the orders of a new split.
LEMMA CreateOrdersKeeps ==
  ASSUME IInv, NEW w \in Worker, CreateTable(w), ddl[w] = 0, split[w] > Last(w)
  PROVE  IInv'
PROOF
<1> DEFINE s == ShardOf(w)
<1>0. Types /\ Alone /\ Places /\ Filled /\ Within /\ Exact /\ Account
  BY DEF IInv
<1>1. /\ UNCHANGED <<tables, main, queue, total, city, split, left, ids, kind,
                     ticks, faults, inserted, overcount, misread>>
      /\ at[w] = "creating" /\ ddl' = [ddl EXCEPT ![w] = 1] /\ at' = [at EXCEPT ![w] = "creating"]
      /\ orders' = [orders EXCEPT ![s] = Append(orders[s], 0)]
      /\ covered' = [covered EXCEPT ![s] = [k \in Kind |-> Append(covered[s][k], 0)]]
      /\ adrift' = [adrift EXCEPT ![s] = Append(adrift[s], 0)]
  BY KindFacts DEF CreateTable, dbVars, history, tally, Move, Last
<1>2. /\ s \in Shard /\ orders[s] \in Seq(Nat) /\ Len(orders[s]) \in Nat \ {0}
      /\ split[w] = Len(orders[s]) + 1 /\ ids[w] = 0 /\ left[w] = Count
      /\ \A k \in Kind : covered[s][k] \in Seq(Nat) /\ Len(covered[s][k]) = Len(orders[s])
      /\ adrift[s] \in Seq(Nat) /\ Len(adrift[s]) = Len(orders[s])
  <2>1. s \in Shard /\ orders[s] \in Seq(Nat) /\ Len(orders[s]) \in Nat /\ split[w] \in Nat \ {0}
    BY <1>0, ShardOfWorker DEF Types
  <2>2. Place(w) /\ Len(orders[s]) > 0
    BY <1>0, <2>1 DEF Places
  <2>3. split[w] <= Len(orders[s]) + 1 /\ ids[w] = 0 /\ left[w] = Count
    BY <1>1, <2>2 DEF Place, Last, Busy, Early
  <2>4. split[w] = Len(orders[s]) + 1
    BY <2>1, <2>3 DEF Last
  <2>5. /\ \A k \in Kind : covered[s][k] \in Seq(Nat) /\ Len(covered[s][k]) = Len(orders[s])
        /\ adrift[s] \in Seq(Nat) /\ Len(adrift[s]) = Len(orders[s])
    BY <1>0, <2>1 DEF Types, Places
  <2> QED
    BY <2>1, <2>2, <2>3, <2>4, <2>5
<1> HIDE DEF s
<1>3. /\ orders'[s] = Append(orders[s], 0) /\ orders'[s] \in Seq(Nat)
      /\ \A k \in Kind : covered'[s][k] = Append(covered[s][k], 0) /\ covered'[s][k] \in Seq(Nat)
      /\ adrift'[s] = Append(adrift[s], 0) /\ adrift'[s] \in Seq(Nat)
      /\ \A t \in Shard : t # s =>
           orders'[t] = orders[t] /\ covered'[t] = covered[t] /\ adrift'[t] = adrift[t]
  BY <1>0, <1>1, <1>2 DEF Types
<1>4. /\ Len(orders'[s]) = Len(orders[s]) + 1
      /\ \A n \in 1..Len(orders[s]) : orders'[s][n] = orders[s][n]
      /\ orders'[s][Len(orders[s]) + 1] = 0
      /\ Len(adrift'[s]) = Len(orders[s]) + 1
      /\ \A n \in 1..Len(orders[s]) : adrift'[s][n] = adrift[s][n]
      /\ adrift'[s][Len(orders[s]) + 1] = 0
  BY <1>2, <1>3
<1>5. ASSUME NEW k \in Kind
      PROVE  /\ Len(covered'[s][k]) = Len(orders[s]) + 1
             /\ \A n \in 1..Len(orders[s]) : covered'[s][k][n] = covered[s][k][n]
             /\ covered'[s][k][Len(orders[s]) + 1] = 0
  <2>1. /\ covered[s][k] \in Seq(Nat) /\ Len(covered[s][k]) = Len(orders[s])
        /\ covered'[s][k] = Append(covered[s][k], 0)
    BY <1>2, <1>3
  <2>2. \A q \in Seq(Nat) : /\ Len(Append(q, 0)) = Len(q) + 1
                            /\ \A n \in 1..Len(q) : Append(q, 0)[n] = q[n]
                            /\ Append(q, 0)[Len(q) + 1] = 0
    OBVIOUS
  <2> QED
    BY <2>1, <2>2
<1>6. Types'
  <2>1. orders' \in [Shard -> Seq(Nat)]
    BY <1>0, <1>1, <1>3 DEF Types
  <2>2. covered' \in [Shard -> [Kind -> Seq(Nat)]]
    <3>1. [k \in Kind |-> Append(covered[s][k], 0)] \in [Kind -> Seq(Nat)]
      BY <1>2
    <3> QED
      BY <1>0, <1>1, <3>1 DEF Types
  <2>3. at' \in [Worker -> Busy \union {"off", "ready"}] /\ ddl' \in [Worker -> Nat]
    BY <1>0, <1>1 DEF Types, Busy
  <2>4. adrift' \in [Shard -> Seq(Nat)]
    BY <1>0, <1>1, <1>3 DEF Types
  <2> QED
    BY <1>0, <1>1, <2>1, <2>2, <2>3, <2>4 DEF Types
<1>7. /\ \A v \in Worker : ShardOf(v)' = ShardOf(v)
      /\ \A v \in Worker : at'[v] = at[v]
      /\ \A v \in Worker : v # w => ddl'[v] = ddl[v]
      /\ ddl'[w] = 1 /\ at'[w] = "creating"
  BY <1>0, <1>1 DEF Types, ShardOf
<1>8. \A v \in Worker : v # w /\ at[v] \in Busy =>
        /\ ShardOf(v) # s /\ ShardOf(v) \in Shard
        /\ orders'[ShardOf(v)] = orders[ShardOf(v)] /\ covered'[ShardOf(v)] = covered[ShardOf(v)]
        /\ adrift'[ShardOf(v)] = adrift[ShardOf(v)]
  <2>1. ASSUME NEW v \in Worker, v # w, at[v] \in Busy
        PROVE  ShardOf(v) # s /\ ShardOf(v) \in Shard
    BY <1>0, <1>1, <2>1, ShardOfWorker DEF Alone, Busy, s
  <2> QED
    BY <1>3, <2>1
<1>9. Alone'
  BY <1>0, <1>1, <1>7 DEF Alone
<1>10. Places'
  <2>1. Place(w)'
    BY <1>0, <1>1, <1>2, <1>4, <1>7, HotAssumption DEF Place, Last, Early, Busy, s
  <2>2. \A v \in Worker : v # w => Place(v)'
    BY <1>0, <1>1, <1>7, <1>8, ZenonT(30) DEF Places, Place, Last, Early, Busy
  <2>3. \A t \in Shard : /\ Len(orders'[t]) > 0 /\ Len(adrift'[t]) = Len(orders'[t])
                         /\ \A k \in Kind : Len(covered'[t][k]) = Len(orders'[t])
    <3> TAKE t \in Shard
    <3>1. CASE t = s
      BY <1>2, <1>4, <1>5, <3>1
    <3>2. CASE t # s
      BY <1>0, <1>3, <3>2 DEF Places
    <3> QED
      BY <3>1, <3>2
  <2> QED
    BY <2>1, <2>2, <2>3 DEF Places
<1>11. Filled'
  <2>1. CASE misread = FALSE
    <3>1. Room(w) /\ orders[s][Len(orders[s])] >= SplitRowCap
      BY <1>0, <1>1, <2>1 DEF Filled, Room, Last, s
    <3>2. Room(w)'
      BY <1>1, <1>2, <1>4, <1>7, HotAssumption DEF Room, Last, Rows, s
    <3>3. ASSUME NEW v \in Worker, v # w PROVE Room(v)'
      <4>1. Room(v)
        BY <1>0, <2>1 DEF Filled
      <4>2. /\ split'[v] = split[v] /\ left'[v] = left[v] /\ ddl'[v] = ddl[v] /\ at'[v] = at[v]
            /\ at[v] \in Busy => orders'[ShardOf(v)'] = orders[ShardOf(v)]
        BY <1>1, <1>7, <1>8, <3>3
      <4> QED
        BY <4>1, <4>2 DEF Room, Last, Rows, Busy
    <3>4. ASSUME NEW t \in Shard, NEW n \in 1..Len(orders'[t])
          PROVE  /\ orders'[t][n] < SplitRowCap + Count
                 /\ n < Len(orders'[t]) => orders'[t][n] >= SplitRowCap
      <4>1. CASE t # s
        BY <1>0, <1>3, <2>1, <4>1 DEF Filled
      <4>2. CASE t = s /\ n = Len(orders[s]) + 1
        BY <1>2, <1>4, <4>2, HotAssumption
      <4>3. CASE t = s /\ n # Len(orders[s]) + 1
        <5>1. n \in 1..Len(orders[s]) /\ orders'[t][n] = orders[s][n]
          <6>1. n \in 1..Len(orders[s])
            BY <1>2, <1>4, <4>3
          <6> QED
            BY <1>4, <4>3, <6>1
        <5>2. orders[s][n] < SplitRowCap + Count /\ (n < Len(orders[s]) => orders[s][n] >= SplitRowCap)
          BY <1>0, <1>2, <2>1, <5>1 DEF Filled
        <5>3. n = Len(orders[s]) \/ n < Len(orders[s])
          BY <1>2, <5>1
        <5> QED
          BY <3>1, <5>1, <5>2, <5>3
      <4> QED
        BY <4>1, <4>2, <4>3
    <3> QED
      BY <3>2, <3>3, <3>4 DEF Filled
  <2>2. CASE misread
    BY <1>1, <2>2 DEF Filled
  <2> QED
    BY <1>0, <2>1, <2>2 DEF Types
<1>12. Within'
  <2>1. ASSUME NEW t \in Shard, NEW k \in Kind, NEW n \in 1..Len(orders'[t])
        PROVE  /\ covered'[t][k][n] <= Named(t, n)'
               /\ covered'[t][k][n] > 0 => <<t, k, n>> \in tables'
    <3>1. CASE t # s
      BY <1>0, <1>1, <1>3, <3>1 DEF Within, Named
    <3>2. CASE t = s /\ n = Len(orders[s]) + 1
      BY <1>2, <1>4, <1>5, <3>2 DEF Named
    <3>3. CASE t = s /\ n # Len(orders[s]) + 1
      <4>1. n \in 1..Len(orders[s])
        BY <1>2, <1>4, <3>3
      <4>2. /\ covered[s][k][n] <= Named(s, n)
            /\ covered[s][k][n] > 0 => <<s, k, n>> \in tables
        BY <1>0, <1>2, <4>1 DEF Within
      <4>3. /\ covered'[s][k][n] = covered[s][k][n] /\ orders'[s][n] = orders[s][n]
            /\ adrift'[s][n] = adrift[s][n]
        BY <1>4, <1>5, <4>1
      <4> QED
        BY <1>1, <3>3, <4>2, <4>3 DEF Named
    <3> QED
      BY <3>1, <3>2, <3>3
  <2>2. \A v \in Worker, k \in Kind :
          Due(v, k)' => covered'[ShardOf(v)'][k][split'[v]] + ids'[v] <= Named(ShardOf(v), split[v])'
    BY <1>0, <1>1, <1>7, <1>8, ZenonT(30) DEF Within, Named, Due, Filling, Busy
  <2> QED
    BY <2>1, <2>2 DEF Within, Named
<1>13. Exact'
  <2> SUFFICES ASSUME faults = 0 PROVE Exact'
    BY <1>1 DEF Exact
  <2>1. ASSUME NEW t \in Shard, NEW k \in Kind, NEW n \in 1..Len(orders'[t])
        PROVE  \/ <<t, k, n>> \in tables'
               \/ \E v \in Worker : Making(v, k)' /\ ShardOf(v)' = t /\ split'[v] = n
    <3>1. CASE t = s /\ n = Len(orders[s]) + 1
      <4>1. Making(w, k)' /\ ShardOf(w)' = t /\ split'[w] = n
        <5>1. ddl'[w] <= k
          BY <1>7 DEF Kind
        <5>2. ShardOf(w)' = t /\ split'[w] = n
          BY <1>1, <1>2, <1>7, <3>1 DEF s
        <5> QED
          BY <1>7, <5>1, <5>2 DEF Making
      <4> QED
        BY <4>1
    <3>2. CASE ~(t = s /\ n = Len(orders[s]) + 1)
      <4>1. n \in 1..Len(orders[t])
        BY <1>2, <1>3, <1>4, <3>2
      <4>2. \/ <<t, k, n>> \in tables
            \/ \E v \in Worker : Making(v, k) /\ ShardOf(v) = t /\ split[v] = n
        BY <1>0, <4>1 DEF Exact
      <4>3. ASSUME NEW v \in Worker, Making(v, k), ShardOf(v) = t, split[v] = n
            PROVE  Making(v, k)' /\ ShardOf(v)' = t /\ split'[v] = n
        <5>1. v # w
          BY <1>2, <3>2, <4>3 DEF s
        <5> QED
          BY <1>1, <1>7, <4>3, <5>1 DEF Making
      <4> QED
        BY <1>1, <4>2, <4>3
    <3> QED
      BY <3>1, <3>2
  <2>2. ASSUME NEW t \in Shard, NEW k \in 1..2, NEW n \in 1..Len(orders'[t])
        PROVE  \/ covered'[t][k][n] = orders'[t][n]
               \/ \E v \in Worker : Filling(v)' /\ ShardOf(v)' = t /\ split'[v] = n
    <3>0. k \in Kind
      BY DEF Kind
    <3>1. CASE t = s /\ n = Len(orders[s]) + 1
      BY <1>4, <1>5, <3>0, <3>1
    <3>2. CASE ~(t = s /\ n = Len(orders[s]) + 1)
      <4>1. /\ n \in 1..Len(orders[t])
            /\ covered'[t][k][n] = covered[t][k][n] /\ orders'[t][n] = orders[t][n]
        <5>1. CASE t # s
          BY <1>3, <5>1
        <5>2. CASE t = s
          <6>1. n \in 1..Len(orders[s])
            BY <1>2, <1>4, <3>2, <5>2
          <6> QED
            BY <1>4, <1>5, <3>0, <5>2, <6>1
        <5> QED
          BY <5>1, <5>2
      <4>2. \/ covered[t][k][n] = orders[t][n]
            \/ \E v \in Worker : Filling(v) /\ ShardOf(v) = t /\ split[v] = n
        BY <1>0, <4>1 DEF Exact
      <4> QED
        BY <1>1, <1>7, <4>1, <4>2 DEF Filling
    <3> QED
      BY <3>1, <3>2
  <2>3. \A v \in Worker, k \in 1..2 : Filling(v)' =>
           IF at'[v] = "cascading" /\ k < kind'[v]
           THEN covered'[ShardOf(v)'][k][split'[v]] = Rows(v)'
           ELSE covered'[ShardOf(v)'][k][split'[v]] + ids'[v] = Rows(v)'
    BY <1>0, <1>1, <1>7, <1>8 DEF Exact, Filling, Rows, Busy
  <2> QED
    BY <1>0, <1>1, <2>1, <2>2, <2>3 DEF Exact
<1>14. Account'
  <2>1. Owed' = Owed
    BY <1>1, <1>7 DEF Owed
  <2> QED
    BY <1>0, <1>1, <2>1 DEF Account
<1> QED
  BY <1>6, <1>9, <1>10, <1>11, <1>12, <1>13, <1>14 DEF IInv

\* CREATE TABLE for a child of a new split.
LEMMA CreateChildKeeps ==
  ASSUME IInv, NEW w \in Worker, CreateTable(w), ~(ddl[w] = 0 /\ split[w] > Last(w))
  PROVE  IInv'
PROOF
<1> DEFINE s == ShardOf(w)
<1>0. Types /\ Alone /\ Places /\ Filled /\ Within /\ Exact /\ Account
  BY DEF IInv
<1>1. /\ UNCHANGED <<orders, covered, adrift, main, queue, total, city, split, left, ids, kind,
                     ticks, faults, inserted, overcount, misread>>
      /\ at[w] = "creating" /\ ddl' = [ddl EXCEPT ![w] = @ + 1]
      /\ at' = [at EXCEPT ![w] = IF ddl[w] = 3 THEN "inserting" ELSE "creating"]
      /\ tables' = IF ddl[w] = 0 THEN tables ELSE tables \union {<<s, ddl[w], split[w]>>}
  BY KindFacts DEF CreateTable, dbVars, history, tally, Move, Last
<1>2. /\ s \in Shard /\ orders[s] \in Seq(Nat) /\ Len(orders[s]) \in Nat \ {0}
      /\ split[w] \in 1..Len(orders[s]) /\ ids[w] = 0 /\ left[w] = Count
      /\ ddl[w] \in 0..3 /\ orders[s][split[w]] \in Nat
  <2>1. s \in Shard /\ orders[s] \in Seq(Nat) /\ Len(orders[s]) \in Nat /\ split[w] \in Nat \ {0}
    BY <1>0, ShardOfWorker DEF Types
  <2>2. Place(w) /\ Len(orders[s]) > 0
    BY <1>0, <2>1 DEF Places
  <2>3. ids[w] = 0 /\ left[w] = Count /\ ddl[w] \in 0..3 /\ (ddl[w] > 0 => split[w] <= Len(orders[s]))
    BY <1>1, <2>2 DEF Place, Last, Busy, Early
  <2>4. split[w] <= Len(orders[s])
    BY <2>1, <2>3 DEF Last
  <2>5. split[w] \in 1..Len(orders[s])
    BY <2>1, <2>4
  <2> QED
    BY <2>1, <2>2, <2>3, <2>5
<1> HIDE DEF s
<1>3. /\ ddl'[w] = ddl[w] + 1
      /\ at'[w] = IF ddl[w] = 3 THEN "inserting" ELSE "creating"
      /\ \A v \in Worker : ShardOf(v)' = ShardOf(v)
      /\ \A v \in Worker : v # w => at'[v] = at[v] /\ ddl'[v] = ddl[v]
      /\ tables \subseteq tables'
  BY <1>0, <1>1 DEF Types, ShardOf
<1>4. Types'
  <2>1. tables' \subseteq Shard \X Kind \X Nat
    BY <1>0, <1>1, <1>2, SMTT(30) DEF Types, Kind
  <2>2. at' \in [Worker -> Busy \union {"off", "ready"}] /\ ddl' \in [Worker -> Nat]
    BY <1>0, <1>1 DEF Types, Busy
  <2> QED
    BY <1>0, <1>1, <2>1, <2>2 DEF Types
<1>5. Alone'
  BY <1>0, <1>1, <1>3 DEF Alone, Busy
<1>6. Places'
  <2>1. Place(w)'
    BY <1>0, <1>1, <1>2, <1>3, HotAssumption, SMTT(30) DEF Place, Last, Early, Busy, s
  <2>2. \A v \in Worker : v # w => Place(v)'
    BY <1>0, <1>1, <1>3 DEF Places, Place, Last, Early, Busy
  <2> QED
    BY <1>0, <1>1, <2>1, <2>2 DEF Places
<1>7. misread = FALSE => ddl[w] > 0 /\ split[w] = Len(orders[s]) /\ orders[s][split[w]] < SplitRowCap
  BY <1>0, <1>1, <1>2 DEF Filled, Room, Last, Rows, s
<1>8. Filled'
  <2>1. CASE misread = FALSE
    <3>1. Room(w)'
      BY <1>1, <1>2, <1>3, <1>7, <2>1, HotAssumption, SMTT(30) DEF Room, Last, Rows, s
    <3>2. \A v \in Worker : v # w => Room(v)'
      BY <1>0, <1>1, <1>3, <2>1 DEF Filled, Room, Last, Rows
    <3> QED
      BY <1>0, <1>1, <2>1, <3>1, <3>2 DEF Filled
  <2>2. CASE misread
    BY <1>1, <2>2 DEF Filled
  <2> QED
    BY <1>0, <2>1, <2>2 DEF Types
<1>9. Within'
  <2>1. \A t \in Shard, k \in Kind : \A n \in 1..Len(orders'[t]) :
          /\ covered'[t][k][n] <= Named(t, n)'
          /\ covered'[t][k][n] > 0 => <<t, k, n>> \in tables'
    BY <1>0, <1>1, <1>3 DEF Within, Named
  <2>2. ASSUME NEW k \in Kind
        PROVE  covered'[s][k][split'[w]] + ids'[w] <= orders'[s][split'[w]] + adrift'[s][split'[w]]
    <3>1. covered[s][k][split[w]] \in Nat
      BY <1>0, <1>2 DEF Types, Places
    <3>2. covered[s][k][split[w]] <= Named(s, split[w])
      BY <1>0, <1>2 DEF Within, Named
    <3> QED
      BY <1>1, <1>2, <3>1, <3>2 DEF Named, s
  <2>3. \A k \in Kind : covered'[ShardOf(w)'][k][split'[w]] + ids'[w] <= Named(ShardOf(w), split[w])'
    BY <1>3, <2>2 DEF Named, s
  <2>4. \A v \in Worker, k \in Kind : v # w /\ Due(v, k)' =>
          covered'[ShardOf(v)'][k][split'[v]] + ids'[v] <= Named(ShardOf(v), split[v])'
    BY <1>0, <1>1, <1>3 DEF Within, Named, Due, Filling, Rows
  <2> QED
    BY <2>1, <2>3, <2>4 DEF Within, Named
<1>10. Exact'
  <2> SUFFICES ASSUME faults = 0 PROVE Exact'
    BY <1>1 DEF Exact
  <2>1. misread = FALSE /\ ddl[w] \in Kind
    BY <1>0, <1>2, <1>7 DEF Exact, Kind
  <2>2. ASSUME NEW t \in Shard, NEW k \in Kind, NEW n \in 1..Len(orders'[t])
        PROVE  \/ <<t, k, n>> \in tables'
               \/ \E v \in Worker : Making(v, k)' /\ ShardOf(v)' = t /\ split'[v] = n
    <3>1. \/ <<t, k, n>> \in tables
          \/ \E v \in Worker : Making(v, k) /\ ShardOf(v) = t /\ split[v] = n
      BY <1>0, <1>1 DEF Exact
    <3>2. ASSUME NEW v \in Worker, v # w, Making(v, k), ShardOf(v) = t, split[v] = n
          PROVE  Making(v, k)' /\ ShardOf(v)' = t /\ split'[v] = n
      BY <1>1, <1>3, <3>2 DEF Making
    <3>3. ASSUME Making(w, k), ShardOf(w) = t, split[w] = n
          PROVE  <<t, k, n>> \in tables' \/ (Making(w, k)' /\ ShardOf(w)' = t /\ split'[w] = n)
      <4>1. CASE k = ddl[w]
        BY <1>1, <2>1, <3>3, <4>1 DEF s, Kind
      <4>2. CASE k # ddl[w]
        BY <1>1, <1>3, <2>1, <3>3, <4>2 DEF Making, Kind
      <4> QED
        BY <4>1, <4>2
    <3> QED
      BY <1>3, <3>1, <3>2, <3>3
  <2>3. ASSUME NEW t \in Shard, NEW k \in 1..2, NEW n \in 1..Len(orders'[t])
        PROVE  \/ covered'[t][k][n] = orders'[t][n]
               \/ \E v \in Worker : Filling(v)' /\ ShardOf(v)' = t /\ split'[v] = n
    <3>1. \/ covered[t][k][n] = orders[t][n]
          \/ \E v \in Worker : Filling(v) /\ ShardOf(v) = t /\ split[v] = n
      BY <1>0, <1>1 DEF Exact
    <3>2. ASSUME NEW v \in Worker, Filling(v), ShardOf(v) = t, split[v] = n
          PROVE  Filling(v)' /\ ShardOf(v)' = t /\ split'[v] = n
      BY <1>1, <1>3, <3>2 DEF Filling
    <3> QED
      BY <1>1, <3>1, <3>2
  <2>4. ASSUME NEW k \in 1..2
        PROVE  covered[s][k][split[w]] = orders[s][split[w]]
    <3>1. \/ covered[s][k][split[w]] = orders[s][split[w]]
          \/ \E v \in Worker : Filling(v) /\ ShardOf(v) = s /\ split[v] = split[w]
      BY <1>0, <1>2 DEF Exact
    <3>2. ASSUME NEW v \in Worker, Filling(v), ShardOf(v) = s PROVE FALSE
      BY <1>0, <1>1, <3>2 DEF Alone, Busy, Filling, s
    <3> QED
      BY <3>1, <3>2
  <2>5. \A k \in 1..2 : covered'[ShardOf(w)'][k][split'[w]] + ids'[w] = Rows(w)'
    <3> TAKE k \in 1..2
    <3>1. covered[s][k][split[w]] + ids[w] = orders[s][split[w]]
      BY <1>2, <2>4
    <3>2. ShardOf(w)' = s
      BY <1>3 DEF s
    <3> QED
      BY <1>1, <3>1, <3>2 DEF Rows
  <2>6. \A v \in Worker, k \in 1..2 : v # w /\ Filling(v)' =>
           IF at'[v] = "cascading" /\ k < kind'[v]
           THEN covered'[ShardOf(v)'][k][split'[v]] = Rows(v)'
           ELSE covered'[ShardOf(v)'][k][split'[v]] + ids'[v] = Rows(v)'
    BY <1>0, <1>1, <1>3 DEF Exact, Filling, Rows
  <2>7. at'[w] # "cascading"
    BY <1>3
  <2> QED
    BY <1>1, <2>1, <2>2, <2>3, <2>5, <2>6, <2>7 DEF Exact
<1>11. Account'
  <2>1. Owed' = Owed
    BY <1>1, <1>3 DEF Owed, Busy
  <2> QED
    BY <1>0, <1>1, <2>1 DEF Account
<1> QED
  BY <1>4, <1>5, <1>6, <1>8, <1>9, <1>10, <1>11 DEF IInv

\* Rows more in one split, and nothing else in any.
Grown(s, n, c) ==
  /\ orders' \in [Shard -> Seq(Nat)]
  /\ \A t \in Shard : Len(orders'[t]) = Len(orders[t]) /\ (t # s => orders'[t] = orders[t])
  /\ \A m \in 1..Len(orders[s]) : m # n => orders'[s][m] = orders[s][m]
  /\ orders'[s][n] = orders[s][n] + c

LEMMA RowsGrow ==
  ASSUME Types, NEW s \in Shard, NEW n \in 1..Len(orders[s]), NEW c \in Nat,
         orders' = [orders EXCEPT ![s][n] = @ + c]
  PROVE  Grown(s, n, c)
PROOF
<1>1. orders[s] \in Seq(Nat) /\ Len(orders[s]) \in Nat /\ orders[s][n] \in Nat
  BY DEF Types
<1> DEFINE q == [orders[s] EXCEPT ![n] = @ + c]
<1>2. q \in Seq(Nat) /\ Len(q) = Len(orders[s])
  BY <1>1
<1>3. q[n] = orders[s][n] + c /\ \A m \in 1..Len(orders[s]) : m # n => q[m] = orders[s][m]
  BY <1>1
<1>4. orders' = [orders EXCEPT ![s] = q]
  OBVIOUS
<1> HIDE DEF q
<1>5. orders'[s] = q /\ \A t \in Shard : t # s => orders'[t] = orders[t]
  BY <1>4 DEF Types
<1>6. orders' \in [Shard -> Seq(Nat)]
  BY <1>2, <1>4 DEF Types
<1> QED
  BY <1>2, <1>3, <1>5, <1>6 DEF Grown

\* A chunk is not empty, and not more than what is left.
LEMMA ChunkFits ==
  ASSUME Types, NEW w \in Worker, left[w] > 0
  PROVE  ChunkOf(w) \in 1..left[w] /\ left[w] \in Nat
BY HotAssumption DEF Types, ChunkOf

\* The order_ids of one split that are adrift grow, and nothing else of them.
Drifted(s, n, g) ==
  /\ adrift' \in [Shard -> Seq(Nat)]
  /\ \A t \in Shard : Len(adrift'[t]) = Len(adrift[t]) /\ (t # s => adrift'[t] = adrift[t])
  /\ \A m \in 1..Len(adrift[s]) : m # n => adrift'[s][m] = adrift[s][m]
  /\ adrift'[s][n] = adrift[s][n] + g

LEMMA IdsDrift ==
  ASSUME Types, NEW s \in Shard, NEW n \in 1..Len(adrift[s]), NEW g \in Nat,
         adrift' = [adrift EXCEPT ![s][n] = @ + g]
  PROVE  Drifted(s, n, g)
PROOF
<1>1. adrift[s] \in Seq(Nat) /\ Len(adrift[s]) \in Nat /\ adrift[s][n] \in Nat
  BY DEF Types
<1> DEFINE q == [adrift[s] EXCEPT ![n] = @ + g]
<1>2. q \in Seq(Nat) /\ Len(q) = Len(adrift[s])
  BY <1>1
<1>3. q[n] = adrift[s][n] + g /\ \A m \in 1..Len(adrift[s]) : m # n => q[m] = adrift[s][m]
  BY <1>1
<1>4. adrift' = [adrift EXCEPT ![s] = q]
  OBVIOUS
<1> HIDE DEF q
<1>5. adrift'[s] = q /\ \A t \in Shard : t # s => adrift'[t] = adrift[t]
  BY <1>4 DEF Types
<1>6. adrift' \in [Shard -> Seq(Nat)]
  BY <1>2, <1>4 DEF Types
<1> QED
  BY <1>2, <1>3, <1>5, <1>6 DEF Drifted

\* Nothing inserted and nothing adrift is no growth.
LEMMA NothingGrows ==
  ASSUME Types, Places, NEW s \in Shard, NEW n \in 1..Len(orders[s])
  PROVE  /\ orders' = orders => Grown(s, n, 0)
         /\ adrift' = adrift => Drifted(s, n, 0)
PROOF
<1>1. orders[s][n] \in Nat /\ adrift[s][n] \in Nat
  <2>1. orders[s] \in Seq(Nat) /\ adrift[s] \in Seq(Nat) /\ Len(adrift[s]) = Len(orders[s])
    BY DEF Types, Places
  <2> QED
    BY <2>1
<1>2. orders[s][n] + 0 = orders[s][n] /\ adrift[s][n] + 0 = adrift[s][n]
  BY <1>1
<1> QED
  BY <1>2 DEF Types, Grown, Drifted

\* Arithmetic of the two bounds that grow with an INSERT.
LEMMA AddSome ==
  ASSUME NEW a \in Nat, NEW b \in Nat, NEW r \in Nat, NEW g \in Nat, NEW c \in Nat,
         a + b <= r, g <= c
  PROVE  a + (b + g) <= r + c
OBVIOUS

\* The same for the sum of what is owed.
LEMMA AccountGrows ==
  ASSUME NEW x \in Nat, NEW y \in Nat, NEW i \in Nat, NEW g \in Nat, NEW c \in Nat,
         NEW a \in Nat, NEW b \in Nat, x + i = y + (i + g), g <= c, a + y <= b
  PROVE  a + x <= b + c
OBVIOUS

\* And without a fault.
LEMMA AccountMatches ==
  ASSUME NEW x \in Nat, NEW y \in Nat, NEW i \in Nat, NEW g \in Nat,
         NEW a \in Nat, NEW b \in Nat, x + i = y + (i + g), a + y = b
  PROVE  a + x = b + g
OBVIOUS

\* And when a call that fails owes nothing any more.
LEMMA AccountShrinks ==
  ASSUME NEW x \in Nat, NEW y \in Nat, NEW a \in Nat, NEW b \in Nat, NEW d \in Nat, NEW o \in Nat,
         a + y <= b + o, x <= y, b <= d
  PROVE  a + x <= d + o
OBVIOUS

\* An INSERT whose answer is read to its end, or breaks off with the orders
\* inserted or rolled back.
LEMMA InsertChunkKeeps ==
  ASSUME IInv, NEW w \in Worker, InsertChunk(w)
  PROVE  IInv'
PROOF
<1> DEFINE s == ShardOf(w)
           n == split[w]
           c == ChunkOf(w)
<1>0. Types /\ Alone /\ Places /\ Filled /\ Within /\ Exact /\ Account
  BY DEF IInv
<1>1. /\ UNCHANGED <<tables, covered, main, queue, total, at, city, split, ddl, kind, misread, ticks>>
      /\ at[w] = "inserting" /\ left[w] > 0
      /\ left' = [left EXCEPT ![w] = @ - c]
  BY DEF InsertChunk, Fault
<1>2. PICK read \in 0..c :
        /\ ids' = [ids EXCEPT ![w] = @ + read]
        /\ \/ faults' = faults + 1
           \/ faults' = faults /\ read = c /\ InsertRows(w)
        /\ InsertRows(w) \/ RollBack(w, read)
  <2>1. c \in 0..c
    BY <1>0, <1>1, ChunkFits
  <2>2. \/ InsertRows(w) /\ ids' = [ids EXCEPT ![w] = @ + c] /\ faults' = faults
        \/ faults' = faults + 1 /\ \E read \in 0..c :
             ids' = [ids EXCEPT ![w] = @ + read] /\ (InsertRows(w) \/ RollBack(w, read))
    BY DEF InsertChunk, Fault
  <2> HIDE DEF c
  <2> QED
    BY <2>1, <2>2
<1>3. /\ s \in Shard /\ orders[s] \in Seq(Nat) /\ Len(orders[s]) \in Nat
      /\ n \in 1..Len(orders[s]) /\ orders[s][n] \in Nat
      /\ c \in Nat /\ c \in 1..left[w] /\ left[w] \in Nat /\ ids[w] \in Nat /\ ids[w] + left[w] <= Count
  <2>1. s \in Shard /\ orders[s] \in Seq(Nat) /\ Len(orders[s]) \in Nat /\ n \in Nat \ {0} /\ ids[w] \in Nat
    BY <1>0, ShardOfWorker, SMTT(30) DEF Types
  <2>2. Place(w)
    BY <1>0 DEF Places
  <2>3. n <= Len(orders[s]) /\ ids[w] + left[w] <= Count
    BY <1>1, <2>2 DEF Place, Last, Busy
  <2>4. c \in 1..left[w] /\ left[w] \in Nat
    BY <1>0, <1>1, ChunkFits
  <2>5. n \in 1..Len(orders[s])
    BY <2>1, <2>3
  <2> QED
    BY <2>1, <2>3, <2>4, <2>5
<1> HIDE DEF s, n, c
<1>4. PICK made \in 0..c, lost \in 0..c :
        /\ Grown(s, n, made) /\ inserted' = inserted + made
        /\ Drifted(s, n, lost) /\ overcount' = overcount + lost
        /\ read <= made + lost
        /\ faults' = 0 => faults = 0 /\ read = c /\ made = c
  <2>0. /\ inserted \in Nat /\ overcount \in Nat /\ faults \in Nat
        /\ n \in 1..Len(adrift[s]) /\ 0 \in 0..c /\ c \in 0..c /\ read \in Nat
        /\ read <= c + 0 /\ read <= 0 + read
    BY <1>0, <1>3 DEF Types, Places
  <2>1. faults' = 0 => faults = 0 /\ read = c /\ InsertRows(w)
    BY <1>2, <2>0
  <2>2. CASE InsertRows(w)
    <3>1. Grown(s, n, c) /\ inserted' = inserted + c
      <4>1. orders' = [orders EXCEPT ![s][n] = @ + c] /\ inserted' = inserted + c
        BY <2>2 DEF InsertRows, s, n, c
      <4> QED
        BY <1>0, <1>3, <4>1, RowsGrow
    <3>2. Drifted(s, n, 0) /\ overcount' = overcount + 0
      <4>1. adrift' = adrift /\ overcount' = overcount
        BY <2>2 DEF InsertRows
      <4>2. adrift' = adrift => Drifted(s, n, 0)
        BY <1>0, <1>3, NothingGrows
      <4> QED
        BY <2>0, <4>1, <4>2
    <3> QED
      BY <2>0, <2>1, <3>1, <3>2
  <2>3. CASE RollBack(w, read) /\ ~InsertRows(w)
    <3>1. Grown(s, n, 0) /\ inserted' = inserted + 0
      <4>1. orders' = orders /\ inserted' = inserted
        BY <2>3 DEF RollBack
      <4>2. orders' = orders => Grown(s, n, 0)
        BY <1>0, <1>3, NothingGrows
      <4> QED
        BY <2>0, <4>1, <4>2
    <3>2. Drifted(s, n, read) /\ overcount' = overcount + read
      <4>1. adrift' = [adrift EXCEPT ![s][n] = @ + read] /\ overcount' = overcount + read
        BY <2>3 DEF RollBack, s, n
      <4> QED
        BY <1>0, <1>3, <2>0, <4>1, IdsDrift
    <3> QED
      BY <2>0, <2>1, <2>3, <3>1, <3>2
  <2> QED
    BY <1>2, <2>2, <2>3
<1>5. /\ ids' = [ids EXCEPT ![w] = ids[w] + read]
      /\ made \in Nat /\ made <= c /\ lost \in Nat /\ read \in Nat /\ read <= c
  BY <1>2, <1>3
<1>6. /\ ids'[w] = ids[w] + read /\ left'[w] = left[w] - c /\ ids'[w] \in 0..Count /\ left'[w] \in 0..Count
      /\ ids'[w] + left'[w] <= Count
      /\ \A v \in Worker : v # w => ids'[v] = ids[v] /\ left'[v] = left[v]
      /\ \A v \in Worker : ShardOf(v)' = ShardOf(v)
  <2>1. ids'[w] = ids[w] + read /\ left'[w] = left[w] - c
    BY <1>0, <1>1, <1>5 DEF Types
  <2>2. \A i, l, k, g \in Nat : i + l <= Count /\ k <= l /\ g <= k =>
          i + g \in 0..Count /\ l - k \in 0..Count /\ i + g + (l - k) <= Count
    BY HotAssumption
  <2>3. ids[w] + read \in 0..Count /\ left[w] - c \in 0..Count /\ ids[w] + read + (left[w] - c) <= Count
    <3>1. read \in Nat /\ read <= c /\ c <= left[w]
      BY <1>3
    <3> QED
      BY <1>3, <2>2, <3>1
  <2>4. \A v \in Worker : v # w => ids'[v] = ids[v] /\ left'[v] = left[v]
    BY <1>0, <1>1, <1>5 DEF Types
  <2>5. \A v \in Worker : ShardOf(v)' = ShardOf(v)
    BY <1>1 DEF ShardOf
  <2> QED
    BY <2>1, <2>3, <2>4, <2>5
<1>7. Types'
  <2>1. ids' \in [Worker -> 0..Count] /\ left' \in [Worker -> 0..Count]
    BY <1>0, <1>1, <1>5, <1>6 DEF Types
  <2>2. faults' \in Nat /\ inserted' \in Nat /\ overcount' \in Nat
    BY <1>0, <1>2, <1>4, <1>5 DEF Types
  <2> QED
    BY <1>0, <1>1, <1>4, <2>1, <2>2 DEF Types, Grown, Drifted
<1>8. \A v \in Worker : v # w /\ at[v] \in Busy =>
        /\ ShardOf(v) # s /\ ShardOf(v) \in Shard /\ orders'[ShardOf(v)] = orders[ShardOf(v)]
        /\ adrift'[ShardOf(v)] = adrift[ShardOf(v)]
  <2>1. ASSUME NEW v \in Worker, v # w, at[v] \in Busy
        PROVE  ShardOf(v) # s /\ ShardOf(v) \in Shard
    BY <1>0, <1>1, <2>1, ShardOfWorker DEF Alone, Busy, s
  <2> QED
    BY <1>4, <2>1 DEF Grown, Drifted
<1>9. Alone'
  BY <1>0, <1>1, <1>6 DEF Alone
<1>10. Places'
  <2>1. Place(w)'
    <3>1. Last(w)' = Len(orders[s])
      BY <1>3, <1>4, <1>6 DEF Last, Grown, s
    <3> QED
      BY <1>1, <1>3, <1>6, <3>1, SMTT(30) DEF Place, Early, n
  <2>2. ASSUME NEW v \in Worker, v # w PROVE Place(v)'
    <3>1. Place(v)
      BY <1>0 DEF Places
    <3>2. /\ ids'[v] = ids[v] /\ left'[v] = left[v] /\ at'[v] = at[v] /\ split'[v] = split[v]
          /\ ddl'[v] = ddl[v] /\ kind'[v] = kind[v]
          /\ at[v] \in Busy => Last(v)' = Last(v)
      BY <1>1, <1>6, <1>8, <2>2 DEF Last
    <3> QED
      BY <3>1, <3>2 DEF Place, Early, Busy
  <2> QED
    BY <1>0, <1>1, <1>4, <2>1, <2>2 DEF Places, Grown, Drifted
<1>11. Filled'
  <2>1. CASE misread = FALSE
    <3>1. orders[s][n] + left[w] < SplitRowCap + Count
      BY <1>0, <1>1, <2>1 DEF Filled, Room, Rows, s, n
    <3>2. Room(w)'
      <4>1. orders'[s][n] + left'[w] < SplitRowCap + Count
        <5>1. orders'[s][n] = orders[s][n] + made /\ left'[w] = left[w] - c
          BY <1>4, <1>6 DEF Grown
        <5>2. \A o, m, l, d, b \in Nat : m <= d /\ o + l < b => o + m + (l - d) < b
          OBVIOUS
        <5>3. SplitRowCap + Count \in Nat
          BY HotAssumption
        <5>4. orders[s][n] + made + (left[w] - c) < SplitRowCap + Count
          BY <1>3, <1>5, <3>1, <5>2, <5>3
        <5> QED
          BY <5>1, <5>4
      <4> QED
        BY <1>1, <1>6, <4>1 DEF Room, Rows, s, n
    <3>3. ASSUME NEW v \in Worker, v # w PROVE Room(v)'
      <4>1. Room(v)
        BY <1>0, <2>1 DEF Filled
      <4>2. /\ split'[v] = split[v] /\ left'[v] = left[v] /\ ddl'[v] = ddl[v] /\ at'[v] = at[v]
            /\ at[v] \in Busy => orders'[ShardOf(v)'] = orders[ShardOf(v)]
        BY <1>1, <1>6, <1>8, <3>3
      <4> QED
        BY <4>1, <4>2 DEF Room, Last, Rows, Busy
    <3>4. ASSUME NEW t \in Shard, NEW m \in 1..Len(orders'[t])
          PROVE  /\ orders'[t][m] < SplitRowCap + Count
                 /\ m < Len(orders'[t]) => orders'[t][m] >= SplitRowCap
      <4>1. /\ m \in 1..Len(orders[t]) /\ orders[t][m] < SplitRowCap + Count
            /\ m < Len(orders'[t]) => orders[t][m] >= SplitRowCap
        BY <1>0, <1>4, <2>1 DEF Filled, Grown
      <4>2. CASE t = s /\ m = n
        <5>1. orders'[t][m] = orders[s][n] + made /\ made <= left[w]
          <6>1. made <= left[w]
            BY <1>3, <1>5
          <6> QED
            BY <1>4, <4>2, <6>1 DEF Grown
        <5> DEFINE old == orders[s][n]
                   new == orders'[t][m]
        <5>2. /\ new = old + made /\ made <= left[w] /\ old + left[w] < SplitRowCap + Count
              /\ m < Len(orders'[t]) => old >= SplitRowCap
          BY <3>1, <4>1, <4>2, <5>1
        <5>3. /\ old \in Nat /\ made \in Nat /\ left[w] \in Nat
              /\ SplitRowCap \in Nat /\ Count \in Nat
          BY <1>3, <1>5, HotAssumption
        <5> HIDE DEF old, new
        <5>4. new < SplitRowCap + Count /\ (m < Len(orders'[t]) => new >= SplitRowCap)
          BY <5>2, <5>3
        <5> QED
          BY <5>4 DEF new
      <4>3. CASE ~(t = s /\ m = n)
        BY <1>4, <4>1, <4>3 DEF Grown
      <4> QED
        BY <4>2, <4>3
    <3> QED
      BY <3>2, <3>3, <3>4 DEF Filled
  <2>2. CASE misread
    BY <1>1, <2>2 DEF Filled
  <2> QED
    BY <1>0, <2>1, <2>2 DEF Types
<1>12. Within'
  <2>0. ASSUME NEW t \in Shard, NEW m \in 1..Len(orders[t])
        PROVE  /\ Named(t, m) \in Nat
               /\ t = s /\ m = n => Named(t, m)' = Named(t, m) + (made + lost)
               /\ ~(t = s /\ m = n) => Named(t, m)' = Named(t, m)
    <3>1. /\ orders[t] \in Seq(Nat) /\ adrift[t] \in Seq(Nat) /\ Len(adrift[t]) = Len(orders[t])
          /\ m \in 1..Len(adrift[t])
      BY <1>0 DEF Types, Places
    <3>2. orders[t][m] \in Nat /\ adrift[t][m] \in Nat
      BY <3>1, SMTT(30)
    <3>3. CASE t = s /\ m = n
      <4>1. orders'[t][m] = orders[t][m] + made /\ adrift'[t][m] = adrift[t][m] + lost
        BY <1>4, <3>3 DEF Grown, Drifted
      <4> DEFINE o == orders[t][m]
                 a == adrift[t][m]
      <4>2. /\ orders'[t][m] = o + made /\ adrift'[t][m] = a + lost /\ o \in Nat /\ a \in Nat
            /\ Named(t, m) = o + a /\ Named(t, m)' = orders'[t][m] + adrift'[t][m]
        BY <3>2, <4>1 DEF Named
      <4> HIDE DEF o, a
      <4>3. o + made + (a + lost) = o + a + (made + lost) /\ o + a \in Nat
        BY <1>5, <4>2
      <4> QED
        BY <3>3, <4>2, <4>3
    <3>4. CASE ~(t = s /\ m = n)
      <4>1. orders'[t][m] = orders[t][m] /\ adrift'[t][m] = adrift[t][m]
        BY <1>4, <3>1, <3>4 DEF Grown, Drifted
      <4> QED
        BY <3>2, <3>4, <4>1 DEF Named
    <3> QED
      BY <3>3, <3>4
  <2>1. ASSUME NEW t \in Shard, NEW k \in Kind, NEW m \in 1..Len(orders'[t])
        PROVE  /\ covered'[t][k][m] <= Named(t, m)'
               /\ covered'[t][k][m] > 0 => <<t, k, m>> \in tables'
    <3>1. /\ m \in 1..Len(orders[t]) /\ covered[t][k][m] <= Named(t, m)
          /\ covered[t][k][m] > 0 => <<t, k, m>> \in tables
      BY <1>0, <1>4 DEF Within, Grown
    <3>2. covered[t][k][m] \in Nat
      BY <1>0, <3>1, SMTT(30) DEF Types, Places
    <3>3. Named(t, m)' = Named(t, m) + (made + lost) \/ Named(t, m)' = Named(t, m)
      BY <2>0, <3>1
    <3>4. Named(t, m) \in Nat
      BY <2>0, <3>1
    <3> DEFINE old == Named(t, m)
               new == Named(t, m)'
    <3>5. /\ old \in Nat /\ covered[t][k][m] <= old
          /\ new = old + (made + lost) \/ new = old
      BY <3>1, <3>3, <3>4
    <3> HIDE DEF old, new
    <3>6. covered[t][k][m] <= new
      BY <1>5, <3>2, <3>5
    <3> QED
      BY <1>1, <3>1, <3>6 DEF new
  <2>2. ASSUME NEW k \in Kind
        PROVE  covered'[ShardOf(w)'][k][split'[w]] + ids'[w] <= Named(ShardOf(w), split[w])'
    <3>1. covered[s][k][n] \in Nat
      BY <1>0, <1>3, SMTT(30) DEF Types, Places
    <3>2. covered[s][k][n] + ids[w] <= Named(s, n)
      BY <1>0, <1>1 DEF Within, Due, Filling, s, n
    <3>3. /\ Named(s, n) \in Nat
          /\ orders'[s][n] + adrift'[s][n] = Named(s, n) + (made + lost)
      BY <1>3, <2>0 DEF Named
    <3>4. covered[s][k][n] + (ids[w] + read) <= Named(s, n) + (made + lost)
      <4>1. read \in Nat /\ read <= made + lost /\ made + lost \in Nat /\ ids[w] \in Nat
        BY <1>3, <1>4, <1>5
      <4> QED
        BY <3>1, <3>2, <3>3, <4>1, AddSome
    <3>5. Named(ShardOf(w), split[w])' = orders'[s][n] + adrift'[s][n]
      BY <1>1, <1>6 DEF Named, s, n
    <3>6. covered'[ShardOf(w)'][k][split'[w]] = covered[s][k][n] /\ ids'[w] = ids[w] + read
      BY <1>1, <1>6 DEF s, n
    <3> QED
      BY <3>3, <3>4, <3>5, <3>6
  <2>3. \A v \in Worker, k \in Kind : v # w /\ Due(v, k)' =>
          covered'[ShardOf(v)'][k][split'[v]] + ids'[v] <= Named(ShardOf(v), split[v])'
    BY <1>0, <1>1, <1>6, <1>8 DEF Within, Named, Due, Filling, Busy
  <2> QED
    BY <2>1, <2>2, <2>3 DEF Within
<1>13. Exact'
  <2> SUFFICES ASSUME faults' = 0 PROVE Exact'
    BY DEF Exact
  <2>1. misread = FALSE /\ faults = 0 /\ read = c /\ made = c
    BY <1>0, <1>4 DEF Exact
  <2>2. ASSUME NEW t \in Shard, NEW k \in Kind, NEW m \in 1..Len(orders'[t])
        PROVE  \/ <<t, k, m>> \in tables'
               \/ \E v \in Worker : Making(v, k)' /\ ShardOf(v)' = t /\ split'[v] = m
    <3>1. \/ <<t, k, m>> \in tables
          \/ \E v \in Worker : Making(v, k) /\ ShardOf(v) = t /\ split[v] = m
      <4>1. m \in 1..Len(orders[t])
        BY <1>4 DEF Grown
      <4> QED
        BY <1>0, <2>1, <4>1 DEF Exact
    <3> QED
      BY <1>1, <1>6, <3>1 DEF Making
  <2>3. ASSUME NEW t \in Shard, NEW k \in 1..2, NEW m \in 1..Len(orders'[t])
        PROVE  \/ covered'[t][k][m] = orders'[t][m]
               \/ \E v \in Worker : Filling(v)' /\ ShardOf(v)' = t /\ split'[v] = m
    <3>1. CASE t = s /\ m = n
      BY <1>1, <1>6, <3>1 DEF Filling, s, n
    <3>2. CASE ~(t = s /\ m = n)
      <4>1. \/ covered[t][k][m] = orders[t][m]
            \/ \E v \in Worker : Filling(v) /\ ShardOf(v) = t /\ split[v] = m
        <5>1. m \in 1..Len(orders[t])
          BY <1>4 DEF Grown
        <5> QED
          BY <1>0, <2>1, <5>1 DEF Exact
      <4>2. orders'[t][m] = orders[t][m]
        BY <1>4, <3>2 DEF Grown
      <4> QED
        BY <1>1, <1>6, <4>1, <4>2 DEF Filling
    <3> QED
      BY <3>1, <3>2
  <2>4. ASSUME NEW k \in 1..2
        PROVE  covered'[ShardOf(w)'][k][split'[w]] + ids'[w] = Rows(w)'
    <3>0. k \in Kind
      BY DEF Kind
    <3>1. covered[s][k][n] \in Nat
      BY <1>0, <1>3, <3>0, SMTT(30) DEF Types, Places
    <3>2. covered[s][k][n] + ids[w] = orders[s][n]
      BY <1>0, <1>1, <2>1 DEF Exact, Filling, Rows, s, n
    <3>3. covered[s][k][n] + (ids[w] + c) = orders[s][n] + c
      BY <1>3, <3>1, <3>2, SMTT(30)
    <3> QED
      BY <1>1, <1>4, <1>6, <2>1, <3>3 DEF Rows, Grown, s, n
  <2>5. \A v \in Worker, k \in 1..2 : v # w /\ Filling(v)' =>
           IF at'[v] = "cascading" /\ k < kind'[v]
           THEN covered'[ShardOf(v)'][k][split'[v]] = Rows(v)'
           ELSE covered'[ShardOf(v)'][k][split'[v]] + ids'[v] = Rows(v)'
    BY <1>0, <1>1, <1>6, <1>8, <2>1 DEF Exact, Filling, Rows, Busy
  <2>6. at'[w] # "cascading"
    BY <1>1
  <2> QED
    BY <1>1, <2>1, <2>2, <2>3, <2>4, <2>5, <2>6 DEF Exact
<1>14. Account'
  <2>1. \A v \in Worker : v # w => Owed'[v] = Owed[v]
    BY <1>1, <1>6 DEF Owed
  <2>2. Owed[w] = ids[w] /\ Owed'[w] = ids[w] + read
    BY <1>1, <1>6 DEF Owed, Busy
  <2> HIDE DEF Owed
  <2>3. /\ SumOver(Owed', Worker) \in Nat /\ SumOver(Owed, Worker) \in Nat
        /\ SumOver(Owed', Worker) + ids[w] = SumOver(Owed, Worker) + (ids[w] + read)
    BY <1>0, <1>7, <2>1, <2>2, OwedByOne
  <2>4. /\ total \in Nat /\ inserted + overcount \in Nat /\ inserted \in Nat /\ ids[w] \in Nat
        /\ total + SumOver(Owed, Worker) <= inserted + overcount
        /\ faults = 0 => total + SumOver(Owed, Worker) = inserted
    BY <1>0, <1>3 DEF Account, Types
  <2>5. inserted' + overcount' = inserted + overcount + (made + lost)
    BY <1>0, <1>4, <1>5 DEF Types
  <2>6. made + lost \in Nat /\ read <= made + lost
    BY <1>4, <1>5
  <2> DEFINE x == SumOver(Owed', Worker)
             y == SumOver(Owed, Worker)
             i == ids[w]
             b == inserted + overcount
             g == made + lost
  <2>7. /\ x \in Nat /\ y \in Nat /\ i \in Nat /\ b \in Nat /\ g \in Nat /\ read <= g
        /\ x + i = y + (i + read) /\ total + y <= b
        /\ inserted' + overcount' = b + g
        /\ faults = 0 => total + y = inserted
    BY <2>3, <2>4, <2>5, <2>6
  <2> HIDE DEF x, y, i, b, g
  <2>8. total + x <= b + g
    BY <1>5, <2>4, <2>7, AccountGrows
  <2>9. faults' = 0 => total + x = inserted'
    <3>1. SUFFICES ASSUME faults' = 0 PROVE total + x = inserted + read
      BY <1>4
    <3>2. total + y = inserted
      BY <1>4, <2>7, <3>1
    <3> QED
      BY <1>5, <2>4, <2>7, <3>2, AccountMatches
  <2> QED
    BY <1>1, <2>7, <2>8, <2>9 DEF Account, x
<1> QED
  BY <1>7, <1>9, <1>10, <1>11, <1>12, <1>13, <1>14 DEF IInv

\* The numbers of rows of a split and of its children.
LEMMA RowsAreNumbers ==
  ASSUME Types, Places, NEW s \in Shard, NEW k \in Kind, NEW n \in 1..Len(orders[s])
  PROVE  covered[s][k][n] \in Nat /\ orders[s][n] \in Nat /\ Named(s, n) \in Nat
PROOF
<1>1. covered[s][k] \in Seq(Nat) /\ orders[s] \in Seq(Nat) /\ adrift[s] \in Seq(Nat)
  BY DEF Types
<1>2. Len(covered[s][k]) = Len(orders[s]) /\ Len(adrift[s]) = Len(orders[s])
  BY DEF Places
<1>3. covered[s][k][n] \in Nat /\ orders[s][n] \in Nat /\ adrift[s][n] \in Nat
  BY <1>1, <1>2, SMTT(30)
<1> QED
  BY <1>3 DEF Named

\* Rows more in one child table, and nothing else in any.
ChildGrown(s, j, n, rows) ==
  /\ covered' \in [Shard -> [Kind -> Seq(Nat)]]
  /\ \A t \in Shard, k \in Kind : Len(covered'[t][k]) = Len(covered[t][k])
  /\ \A t \in Shard, k \in Kind : \A m \in 1..Len(orders[t]) :
       ~(t = s /\ k = j /\ m = n) => covered'[t][k][m] = covered[t][k][m]
  /\ covered'[s][j][n] = covered[s][j][n] + rows

\* Rows for a child table change that table of that split only.
LEMMA CoveredGrows ==
  ASSUME Types, Places, NEW s \in Shard, NEW j \in Kind, NEW n \in 1..Len(orders[s]),
         NEW rows \in Nat, covered' = [covered EXCEPT ![s][j][n] = @ + rows]
  PROVE  ChildGrown(s, j, n, rows)
PROOF
<1>1. /\ covered[s] \in [Kind -> Seq(Nat)] /\ covered[s][j] \in Seq(Nat)
      /\ Len(covered[s][j]) = Len(orders[s]) /\ covered[s][j][n] \in Nat
  BY RowsAreNumbers DEF Types, Places
<1> DEFINE q == [covered[s][j] EXCEPT ![n] = @ + rows]
           c == [covered[s] EXCEPT ![j] = q]
<1>2. q \in Seq(Nat) /\ Len(q) = Len(covered[s][j])
  BY <1>1
<1>3. /\ q[n] = covered[s][j][n] + rows
      /\ \A m \in 1..Len(orders[s]) : m # n => q[m] = covered[s][j][m]
  BY <1>1
<1>4. covered' = [covered EXCEPT ![s] = c]
  OBVIOUS
<1> HIDE DEF q
<1>5. c[j] = q /\ c \in [Kind -> Seq(Nat)] /\ \A k \in Kind : k # j => c[k] = covered[s][k]
  BY <1>1, <1>2
<1> HIDE DEF c
<1>6. covered'[s] = c /\ \A t \in Shard : t # s => covered'[t] = covered[t]
  BY <1>4 DEF Types
<1>7. covered' \in [Shard -> [Kind -> Seq(Nat)]]
  BY <1>4, <1>5 DEF Types
<1>8. \A t \in Shard, k \in Kind : Len(covered'[t][k]) = Len(covered[t][k])
  BY <1>2, <1>5, <1>6
<1>9. \A t \in Shard, k \in Kind : \A m \in 1..Len(orders[t]) :
        ~(t = s /\ k = j /\ m = n) => covered'[t][k][m] = covered[t][k][m]
  BY <1>3, <1>5, <1>6
<1> QED
  BY <1>3, <1>5, <1>6, <1>7, <1>8, <1>9 DEF ChildGrown

\* The batch is in; its children follow unless no order_id came back.
LEMMA OrdersDoneKeeps ==
  ASSUME IInv, NEW w \in Worker, OrdersDone(w)
  PROVE  IInv'
PROOF
<1> DEFINE s == ShardOf(w)
           n == split[w]
<1>0. Types /\ Alone /\ Places /\ Filled /\ Within /\ Exact /\ Account
  BY DEF IInv
<1>1. /\ UNCHANGED <<orders, tables, covered, adrift, main, queue, total, city, split, ddl, left, ids,
                     ticks, faults, inserted, overcount, misread>>
      /\ at[w] = "inserting" /\ left[w] = 0 /\ kind' = [kind EXCEPT ![w] = 1]
      /\ at' = [at EXCEPT ![w] = IF ids[w] = 0 THEN "reporting" ELSE "cascading"]
  BY DEF OrdersDone, Move, dbVars, history, tally
<1>2. /\ s \in Shard /\ n \in 1..Len(orders[s])
  <2>1. s \in Shard /\ Len(orders[s]) \in Nat /\ n \in Nat \ {0}
    BY <1>0, ShardOfWorker DEF Types
  <2>2. n <= Len(orders[s])
    BY <1>0, <1>1 DEF Places, Place, Last, Busy
  <2> QED
    BY <2>1, <2>2
<1> HIDE DEF s, n
<1>3. Types'
  BY <1>0, <1>1 DEF Types, Busy
<1>4. /\ at'[w] = IF ids[w] = 0 THEN "reporting" ELSE "cascading"
      /\ kind'[w] = 1
      /\ \A v \in Worker : v # w => at'[v] = at[v] /\ kind'[v] = kind[v]
      /\ \A v \in Worker : ShardOf(v)' = ShardOf(v)
  BY <1>0, <1>1 DEF Types, ShardOf
<1>5. Alone'
  <2>1. \A v \in Worker : (at'[v] \in Busy <=> at[v] \in Busy) /\ (at'[v] = "off" <=> at[v] = "off")
    BY <1>1, <1>4 DEF Busy
  <2> QED
    BY <1>0, <1>1, <1>4, <2>1 DEF Alone
<1>6. Places'
  BY <1>0, <1>1, <1>4 DEF Places, Place, Last, Early, Busy, Kind
<1>7. Filled'
  BY <1>0, <1>1, <1>4 DEF Filled, Room, Last, Rows
<1>8. Within'
  BY <1>0, <1>1, <1>4 DEF Within, Named, Due, Filling, Rows
<1>9. Exact'
  <2> SUFFICES ASSUME faults = 0 PROVE Exact'
    BY <1>1 DEF Exact
  <2>1. misread = FALSE
    BY <1>0 DEF Exact
  <2>2. ASSUME NEW t \in Shard, NEW k \in Kind, NEW m \in 1..Len(orders'[t])
        PROVE  \/ <<t, k, m>> \in tables'
               \/ \E v \in Worker : Making(v, k)' /\ ShardOf(v)' = t /\ split'[v] = m
    <3>1. \/ <<t, k, m>> \in tables
          \/ \E v \in Worker : Making(v, k) /\ ShardOf(v) = t /\ split[v] = m
      BY <1>0, <1>1 DEF Exact
    <3>2. ASSUME NEW v \in Worker, Making(v, k), ShardOf(v) = t, split[v] = m
          PROVE  Making(v, k)' /\ ShardOf(v)' = t /\ split'[v] = m
      BY <1>1, <1>4, <3>2 DEF Making
    <3> QED
      BY <1>1, <3>1, <3>2
  <2>3. ASSUME NEW k \in 1..2
        PROVE  covered[s][k][n] + ids[w] = orders[s][n]
    BY <1>0, <1>1 DEF Exact, Filling, Rows, s, n
  <2>4. ASSUME NEW t \in Shard, NEW k \in 1..2, NEW m \in 1..Len(orders'[t])
        PROVE  \/ covered'[t][k][m] = orders'[t][m]
               \/ \E v \in Worker : Filling(v)' /\ ShardOf(v)' = t /\ split'[v] = m
    <3>1. \/ covered[t][k][m] = orders[t][m]
          \/ \E v \in Worker : Filling(v) /\ ShardOf(v) = t /\ split[v] = m
      BY <1>0, <1>1 DEF Exact
    <3>2. ASSUME NEW v \in Worker, v # w, Filling(v), ShardOf(v) = t, split[v] = m
          PROVE  Filling(v)' /\ ShardOf(v)' = t /\ split'[v] = m
      BY <1>1, <1>4, <3>2 DEF Filling
    <3>3. ASSUME ShardOf(w) = t, split[w] = m
          PROVE  covered[t][k][m] = orders[t][m] \/ (Filling(w)' /\ ShardOf(w)' = t /\ split'[w] = m)
      <4>1. CASE ids[w] = 0
        <5>1. k \in Kind
          BY DEF Kind
        <5>2. covered[s][k][n] \in Nat
          BY <1>0, <1>2, <5>1, RowsAreNumbers
        <5>3. covered[s][k][n] = orders[s][n]
          BY <2>3, <4>1, <5>2
        <5> QED
          BY <3>3, <5>3 DEF s, n
      <4>2. CASE ids[w] # 0
        BY <1>1, <1>4, <3>3, <4>2 DEF Filling
      <4> QED
        BY <4>1, <4>2
    <3> QED
      BY <1>1, <3>1, <3>2, <3>3
  <2>5. \A v \in Worker, k \in 1..2 : v # w /\ Filling(v)' =>
           IF at'[v] = "cascading" /\ k < kind'[v]
           THEN covered'[ShardOf(v)'][k][split'[v]] = Rows(v)'
           ELSE covered'[ShardOf(v)'][k][split'[v]] + ids'[v] = Rows(v)'
    BY <1>0, <1>1, <1>4 DEF Exact, Filling, Rows
  <2>6. \A k \in 1..2 : ~(k < kind'[w]) /\ covered'[ShardOf(w)'][k][split'[w]] + ids'[w] = Rows(w)'
    BY <1>1, <1>4, <2>3 DEF Rows, s, n
  <2> QED
    BY <1>1, <2>1, <2>2, <2>4, <2>5, <2>6 DEF Exact
<1>10. Account'
  <2>1. Owed' = Owed
    BY <1>1, <1>4 DEF Owed, Busy
  <2> QED
    BY <1>0, <1>1, <2>1 DEF Account
<1> QED
  BY <1>3, <1>5, <1>6, <1>7, <1>8, <1>9, <1>10 DEF IInv

\* A call adds what it counted to the total and owes it no more.
LEMMA ReportKeeps ==
  ASSUME IInv, NEW w \in Worker, Report(w)
  PROVE  IInv'
PROOF
<1>0. Types /\ Alone /\ Places /\ Filled /\ Within /\ Exact /\ Account
  BY DEF IInv
<1>1. /\ UNCHANGED <<orders, tables, covered, adrift, main, queue, city, split, ddl, left, ids, kind,
                     ticks, faults, inserted, overcount, misread>>
      /\ at[w] = "reporting" /\ total' = total + ids[w]
      /\ at' = [at EXCEPT ![w] = "ready"]
  BY DEF Report, Move, dbVars, history, tally
<1>2. Types'
  BY <1>0, <1>1, SMTT(30) DEF Types, Busy
<1>3. /\ at'[w] = "ready"
      /\ \A v \in Worker : v # w => at'[v] = at[v]
      /\ \A v \in Worker : ShardOf(v)' = ShardOf(v)
  BY <1>0, <1>1 DEF Types, ShardOf
<1>4. Alone'
  <2>1. main' = main /\ queue' = queue /\ city' = city
    BY <1>1
  <2>2. at[w] \in Busy /\ at'[w] \notin Busy /\ at[w] # "off"
    BY <1>1, <1>3 DEF Busy
  <2> QED
    BY <1>0, <1>3, <2>1, <2>2 DEF Alone
<1>5. Places'
  BY <1>0, <1>1, <1>3 DEF Places, Place, Last, Early, Busy, Kind
<1>6. Filled'
  BY <1>0, <1>1, <1>3 DEF Filled, Room, Last, Rows
<1>7. Within'
  BY <1>0, <1>1, <1>3 DEF Within, Named, Due, Filling, Rows
<1>8. Exact'
  BY <1>0, <1>1, <1>3 DEF Exact, Filling, Making, Rows
<1>9. Account'
  <2>1. \A v \in Worker : v # w => Owed'[v] = Owed[v]
    BY <1>1, <1>3 DEF Owed
  <2>2. Owed[w] = ids[w] /\ Owed'[w] = 0 /\ ids[w] \in Nat /\ total \in Nat
    BY <1>0, <1>1, <1>3 DEF Owed, Busy, Types
  <2> DEFINE x == SumOver(Owed', Worker)
             y == SumOver(Owed, Worker)
  <2>3. x \in Nat /\ y \in Nat /\ x + ids[w] = y
    <3> HIDE DEF Owed
    <3> QED
      BY <1>0, <1>2, <2>1, <2>2, OwedByOne
  <2>4. total + y <= inserted + overcount /\ (faults = 0 => total + y = inserted)
    BY <1>0 DEF Account
  <2> HIDE DEF x, y, Owed
  <2>5. total + ids[w] + x = total + y
    BY <2>2, <2>3
  <2>6. total' + x <= inserted' + overcount' /\ (faults' = 0 => total' + x = inserted')
    BY <1>1, <2>4, <2>5, Zenon
  <2> QED
    BY <2>6 DEF Account, x
<1> QED
  BY <1>2, <1>4, <1>5, <1>6, <1>7, <1>8, <1>9 DEF IInv

\* One statement for one child table.
LEMMA CascadeKeeps ==
  ASSUME IInv, NEW w \in Worker, Cascade(w)
  PROVE  IInv'
PROOF
<1> DEFINE s == ShardOf(w)
           n == split[w]
           j == kind[w]
<1>0. Types /\ Alone /\ Places /\ Filled /\ Within /\ Exact /\ Account
  BY DEF IInv
<1>1. /\ UNCHANGED <<orders, tables, adrift, main, queue, total, city, split, ddl, left, ids,
                     inserted, overcount, misread, ticks>>
      /\ at[w] = "cascading" /\ kind' = [kind EXCEPT ![w] = j + 1]
      /\ at' = [at EXCEPT ![w] = IF j = 3 THEN "reporting" ELSE "cascading"]
  BY KindFacts DEF Cascade, Move, dbVars, history, tally, Fault
<1>2. PICK rows \in 0..ids[w] :
        /\ \/ <<s, j, n>> \in tables /\ rows = ids[w] /\ faults' = faults
           \/ <<s, j, n>> \in tables /\ j = 3 /\ faults' = faults
           \/ <<s, j, n>> \in tables /\ faults' = faults + 1
           \/ <<s, j, n>> \notin tables /\ rows = 0 /\ faults' = faults
        /\ covered' = [covered EXCEPT ![s][j][n] = @ + rows]
  BY KindFacts DEF Cascade, Fault
<1>3. /\ s \in Shard /\ n \in 1..Len(orders[s]) /\ j \in Kind /\ ids[w] \in Nat
      /\ rows \in Nat /\ rows <= ids[w]
  <2>1. s \in Shard /\ Len(orders[s]) \in Nat /\ n \in Nat \ {0} /\ ids[w] \in Nat
    BY <1>0, ShardOfWorker, SMTT(30) DEF Types
  <2>2. Place(w)
    BY <1>0 DEF Places
  <2>3. n <= Len(orders[s]) /\ j \in Kind
    BY <1>1, <2>2 DEF Place, Last, Busy
  <2> QED
    BY <2>1, <2>3
<1> HIDE DEF s, n, j
<1>4. /\ covered' \in [Shard -> [Kind -> Seq(Nat)]]
      /\ \A t \in Shard, k \in Kind : Len(covered'[t][k]) = Len(covered[t][k])
      /\ \A t \in Shard, k \in Kind : \A m \in 1..Len(orders[t]) :
           ~(t = s /\ k = j /\ m = n) => covered'[t][k][m] = covered[t][k][m]
      /\ covered'[s][j][n] = covered[s][j][n] + rows
  <2>1. covered' = [covered EXCEPT ![s][j][n] = @ + rows]
    BY <1>2
  <2>2. ChildGrown(s, j, n, rows)
    BY <1>0, <1>3, <2>1, CoveredGrows
  <2> QED
    BY <2>2 DEF ChildGrown
<1>5. /\ at'[w] = IF j = 3 THEN "reporting" ELSE "cascading"
      /\ kind'[w] = j + 1
      /\ \A v \in Worker : v # w => at'[v] = at[v] /\ kind'[v] = kind[v]
      /\ \A v \in Worker : ShardOf(v)' = ShardOf(v)
      /\ \A v \in Worker : (at'[v] \in Busy <=> at[v] \in Busy) /\ (at'[v] = "off" <=> at[v] = "off")
  BY <1>0, <1>1 DEF Types, ShardOf, Busy
<1>6. Types'
  <2>1. faults' \in Nat
    BY <1>0, <1>2 DEF Types
  <2>2. kind' \in [Worker -> Nat] /\ at' \in [Worker -> Busy \union {"off", "ready"}]
    BY <1>0, <1>1, <1>3, SMTT(30) DEF Types, Busy, Kind
  <2> QED
    BY <1>0, <1>1, <1>4, <2>1, <2>2 DEF Types
<1>7. Alone'
  <2>1. /\ \A v \in Worker : (at'[v] \in Busy <=> at[v] \in Busy) /\ (at'[v] = "off" <=> at[v] = "off")
        /\ \A v \in Worker : ShardOf(v)' = ShardOf(v)
        /\ main' = main /\ queue' = queue /\ city' = city
    BY <1>1, <1>5
  <2> QED
    BY <1>0, <2>1 DEF Alone
<1>8. Places'
  <2>1. \A t \in Shard : /\ Len(orders'[t]) > 0 /\ Len(adrift'[t]) = Len(orders'[t])
                         /\ \A k \in Kind : Len(covered'[t][k]) = Len(orders'[t])
    BY <1>0, <1>1, <1>4 DEF Places
  <2>2. Place(w)'
    BY <1>0, <1>1, <1>3, <1>5 DEF Places, Place, Last, Early, Busy, Kind
  <2>3. \A v \in Worker : v # w => Place(v)'
    BY <1>0, <1>1, <1>5 DEF Places, Place, Last, Early, Busy
  <2> QED
    BY <2>1, <2>2, <2>3 DEF Places
<1>9. Filled'
  BY <1>0, <1>1, <1>5 DEF Filled, Room, Last, Rows
<1>10. \A v \in Worker : v # w /\ at[v] \in Busy => ShardOf(v) # s /\ ShardOf(v) \in Shard
  BY <1>0, <1>1, ShardOfWorker DEF Alone, Busy, s
<1>11. \A v \in Worker : at[v] \in Busy \ {"creating"} => split[v] \in 1..Len(orders[ShardOf(v)])
  <2> TAKE v \in Worker
  <2>1. Place(v) /\ split[v] \in Nat \ {0} /\ Len(orders[ShardOf(v)]) \in Nat
    BY <1>0, ShardOfWorker DEF Places, Types
  <2> QED
    BY <2>1 DEF Place, Last
<1>12. Within'
  <2>1. ASSUME NEW t \in Shard, NEW k \in Kind, NEW m \in 1..Len(orders'[t])
        PROVE  /\ covered'[t][k][m] <= Named(t, m)'
               /\ covered'[t][k][m] > 0 => <<t, k, m>> \in tables'
    <3>1. /\ covered[t][k][m] <= Named(t, m) /\ m \in 1..Len(orders[t])
          /\ covered[t][k][m] > 0 => <<t, k, m>> \in tables
      BY <1>0, <1>1 DEF Within, Named
    <3>2. CASE t = s /\ k = j /\ m = n
      <4>1. covered[s][j][n] \in Nat /\ Named(s, n) \in Nat
        BY <1>0, <1>3, RowsAreNumbers
      <4>2. covered[s][j][n] + ids[w] <= Named(s, n)
        BY <1>0, <1>1, <1>3, SMTT(30) DEF Within, Due, Filling, Kind, s, n, j
      <4>3. covered'[s][j][n] <= Named(s, n)
        <5>1. covered'[s][j][n] = covered[s][j][n] + rows
          BY <1>4
        <5> QED
          BY <1>3, <4>1, <4>2, <5>1
      <4>4. covered'[s][j][n] > 0 => <<s, j, n>> \in tables
        <5>1. CASE <<s, j, n>> \in tables
          BY <5>1
        <5>2. CASE <<s, j, n>> \notin tables
          <6>1. rows = 0
            BY <1>2, <5>2
          <6> QED
            BY <1>4, <3>1, <3>2, <4>1, <6>1
        <5> QED
          BY <5>1, <5>2
      <4>5. Named(t, m)' = Named(t, m)
        BY <1>1 DEF Named
      <4> QED
        BY <1>1, <3>2, <4>3, <4>4, <4>5
    <3>3. CASE ~(t = s /\ k = j /\ m = n)
      BY <1>1, <1>4, <3>1, <3>3 DEF Named
    <3> QED
      BY <3>2, <3>3
  <2>2. ASSUME NEW k \in Kind, Due(w, k)'
        PROVE  covered'[ShardOf(w)'][k][split'[w]] + ids'[w] <= Named(ShardOf(w), split[w])'
    <3>1. k # j /\ Due(w, k)
      BY <1>1, <1>3, <1>5, <2>2 DEF Due, Filling, Kind, j
    <3>2. covered[s][k][n] + ids[w] <= Named(s, n)
      BY <1>0, <3>1 DEF Within, s, n
    <3>3. covered'[s][k][n] = covered[s][k][n]
      BY <1>3, <1>4, <3>1
    <3> QED
      BY <1>1, <1>5, <3>2, <3>3 DEF Named, s, n
  <2>3. ASSUME NEW v \in Worker, NEW k \in Kind, v # w, Due(v, k)'
        PROVE  covered'[ShardOf(v)'][k][split'[v]] + ids'[v] <= Named(ShardOf(v), split[v])'
    <3>1. Due(v, k) /\ at[v] \in Busy \ {"creating"}
      BY <1>5, <2>3 DEF Due, Filling, Busy
    <3>2. covered'[ShardOf(v)][k][split[v]] = covered[ShardOf(v)][k][split[v]]
      BY <1>4, <1>10, <1>11, <2>3, <3>1
    <3>3. covered[ShardOf(v)][k][split[v]] + ids[v] <= Named(ShardOf(v), split[v])
      BY <1>0, <3>1 DEF Within
    <3> QED
      BY <1>1, <1>5, <3>2, <3>3 DEF Named
  <2> QED
    BY <2>1, <2>2, <2>3 DEF Within, Named
<1>13. Exact'
  <2> SUFFICES ASSUME faults' = 0 PROVE Exact'
    BY DEF Exact
  <2>1. faults = 0 /\ faults' = faults /\ misread = FALSE
    <3>1. faults' # faults + 1
      BY <1>0 DEF Types
    <3>2. faults' = faults
      BY <1>2, <3>1
    <3> QED
      BY <1>0, <3>2 DEF Exact
  <2>2. ASSUME NEW t \in Shard, NEW k \in Kind, NEW m \in 1..Len(orders[t])
        PROVE  \/ <<t, k, m>> \in tables
               \/ \E v \in Worker : Making(v, k) /\ ShardOf(v) = t /\ split[v] = m
    BY <1>0, <2>1 DEF Exact
  <2>3. ASSUME NEW t \in Shard, NEW k \in Kind, NEW m \in 1..Len(orders'[t])
        PROVE  \/ <<t, k, m>> \in tables'
               \/ \E v \in Worker : Making(v, k)' /\ ShardOf(v)' = t /\ split'[v] = m
    <3>1. ASSUME NEW v \in Worker, Making(v, k), ShardOf(v) = t, split[v] = m
          PROVE  Making(v, k)' /\ ShardOf(v)' = t /\ split'[v] = m
      BY <1>1, <1>5, <3>1 DEF Making
    <3> QED
      BY <1>1, <2>2, <3>1
  <2>4. <<s, j, n>> \in tables
    <3>1. ASSUME NEW v \in Worker, Making(v, j), ShardOf(v) = s PROVE FALSE
      BY <1>1, <1>10, <3>1 DEF Making, Busy
    <3> QED
      BY <1>3, <2>2, <3>1
  <2>5. j \in 1..2 => rows = ids[w]
    BY <1>2, <2>1, <2>4
  <2>6. ASSUME NEW k \in 1..2
        PROVE  IF k < j THEN covered[s][k][n] = orders[s][n]
                        ELSE covered[s][k][n] + ids[w] = orders[s][n]
    BY <1>0, <1>1, <2>1 DEF Exact, Filling, Rows, s, n, j
  <2>7. ASSUME NEW k \in 1..2
        PROVE  IF k < j + 1 THEN covered'[s][k][n] = orders[s][n]
                            ELSE covered'[s][k][n] + ids[w] = orders[s][n]
    <3>0. k \in Kind
      BY DEF Kind
    <3>1. CASE k = j
      <4>1. covered[s][k][n] + ids[w] = orders[s][n] /\ covered'[s][k][n] = covered[s][k][n] + ids[w]
        BY <1>4, <2>5, <2>6, <3>1
      <4> QED
        BY <3>1, <4>1
    <3>2. CASE k # j
      <4>1. covered'[s][k][n] = covered[s][k][n]
        BY <1>3, <1>4, <3>0, <3>2
      <4>2. k < j + 1 <=> k < j
        BY <1>3, <3>2 DEF Kind
      <4> QED
        BY <2>6, <4>1, <4>2
    <3> QED
      BY <3>1, <3>2
  <2>8. ASSUME NEW t \in Shard, NEW k \in 1..2, NEW m \in 1..Len(orders'[t])
        PROVE  \/ covered'[t][k][m] = orders'[t][m]
               \/ \E v \in Worker : Filling(v)' /\ ShardOf(v)' = t /\ split'[v] = m
    <3>0. k \in Kind
      BY DEF Kind
    <3>1. CASE t = s /\ m = n
      <4>1. CASE j = 3
        BY <1>1, <2>7, <3>1, <4>1
      <4>2. CASE j # 3
        BY <1>1, <1>5, <3>1, <4>2 DEF Filling, s, n
      <4> QED
        BY <4>1, <4>2
    <3>2. CASE ~(t = s /\ m = n)
      <4>1. \/ covered[t][k][m] = orders[t][m]
            \/ \E v \in Worker : Filling(v) /\ ShardOf(v) = t /\ split[v] = m
        BY <1>0, <1>1, <2>1 DEF Exact
      <4>2. covered'[t][k][m] = covered[t][k][m]
        BY <1>1, <1>4, <3>0, <3>2
      <4>3. ASSUME NEW v \in Worker, Filling(v), ShardOf(v) = t, split[v] = m
            PROVE  Filling(v)' /\ ShardOf(v)' = t /\ split'[v] = m
        <5>1. v # w
          BY <3>2, <4>3 DEF s, n
        <5> QED
          BY <1>1, <1>5, <4>3, <5>1 DEF Filling
      <4> QED
        BY <1>1, <4>1, <4>2, <4>3
    <3> QED
      BY <3>1, <3>2
  <2>9. ASSUME NEW v \in Worker, NEW k \in 1..2, Filling(v)'
        PROVE  IF at'[v] = "cascading" /\ k < kind'[v]
               THEN covered'[ShardOf(v)'][k][split'[v]] = Rows(v)'
               ELSE covered'[ShardOf(v)'][k][split'[v]] + ids'[v] = Rows(v)'
    <3>0. k \in Kind
      BY DEF Kind
    <3>1. CASE v = w
      <4>1. at'[w] = "cascading" /\ kind'[w] = j + 1
        BY <1>5, <2>9, <3>1 DEF Filling
      <4> QED
        BY <1>1, <1>5, <2>7, <3>1, <4>1 DEF Rows, s, n
    <3>2. CASE v # w
      <4>1. Filling(v) /\ at[v] \in Busy \ {"creating"}
        BY <1>5, <2>9, <3>2 DEF Filling, Busy
      <4>2. covered'[ShardOf(v)][k][split[v]] = covered[ShardOf(v)][k][split[v]]
        BY <1>4, <1>10, <1>11, <3>0, <3>2, <4>1
      <4>3. IF at[v] = "cascading" /\ k < kind[v]
            THEN covered[ShardOf(v)][k][split[v]] = Rows(v)
            ELSE covered[ShardOf(v)][k][split[v]] + ids[v] = Rows(v)
        BY <1>0, <2>1, <4>1 DEF Exact
      <4> QED
        BY <1>1, <1>5, <3>2, <4>2, <4>3 DEF Rows
    <3> QED
      BY <3>1, <3>2
  <2> QED
    BY <1>1, <2>1, <2>3, <2>8, <2>9 DEF Exact
<1>14. Account'
  <2>1. Owed' = Owed
    BY <1>1, <1>5 DEF Owed
  <2>2. faults' = 0 => faults = 0
    BY <1>0, <1>2 DEF Types
  <2> QED
    BY <1>0, <1>1, <2>1, <2>2 DEF Account
<1> QED
  BY <1>6, <1>7, <1>8, <1>9, <1>12, <1>13, <1>14 DEF IInv

\* A CREATE or an INSERT that fails, or succeeds unheard, ends its call.
LEMMA CallFailsKeeps ==
  ASSUME IInv, NEW w \in Worker, CallFails(w)
  PROVE  IInv'
PROOF
<1> DEFINE s == ShardOf(w)
           n == split[w]
           c == ChunkOf(w)
<1>0. Types /\ Alone /\ Places /\ Filled /\ Within /\ Exact /\ Account
  BY DEF IInv
<1>1. /\ UNCHANGED <<tables, covered, adrift, overcount, main, queue, total, city, split, ddl, left, ids, kind,
                     misread, ticks>>
      /\ at[w] \in {"creating", "inserting"} /\ (at[w] = "inserting" => left[w] > 0)
      /\ at' = [at EXCEPT ![w] = "ready"] /\ faults' = faults + 1
  BY DEF CallFails, Move, Fault, InsertRows, tally
<1>2. \/ orders' = orders /\ inserted' = inserted
      \/ /\ at[w] = "inserting" /\ inserted' = inserted + c
         /\ orders' = [orders EXCEPT ![s][n] = @ + c]
  BY DEF CallFails, InsertRows, tally
<1> HIDE DEF s, n, c
<1>3. /\ at'[w] = "ready" /\ faults' # 0
      /\ \A v \in Worker : v # w => at'[v] = at[v]
      /\ \A v \in Worker : ShardOf(v)' = ShardOf(v)
      /\ at[w] \in Busy
  BY <1>0, <1>1 DEF Types, ShardOf, Busy
<1>4. s \in Shard /\ orders[s] \in Seq(Nat)
  BY <1>0, ShardOfWorker DEF s
<1>5. ASSUME at[w] = "inserting"
      PROVE  /\ n \in 1..Len(orders[s]) /\ orders[s][n] \in Nat
             /\ c \in Nat /\ c <= left[w] /\ left[w] \in Nat
  <2>1. Len(orders[s]) \in Nat /\ n \in Nat \ {0}
    BY <1>0, <1>4 DEF Types, n
  <2>2. Place(w)
    BY <1>0 DEF Places
  <2>3. n <= Len(orders[s])
    BY <1>5, <2>2 DEF Place, Last, Busy, s, n
  <2>4. c \in 1..left[w] /\ left[w] \in Nat
    BY <1>0, <1>1, <1>5, ChunkFits DEF c
  <2>5. n \in 1..Len(orders[s])
    BY <2>1, <2>3
  <2> QED
    BY <1>4, <2>4, <2>5
<1>6. (orders' = orders /\ inserted' = inserted)
      \/ (at[w] = "inserting" /\ inserted' = inserted + c /\ Grown(s, n, c))
  <2>1. CASE orders' = orders /\ inserted' = inserted
    BY <2>1
  <2>2. CASE /\ at[w] = "inserting" /\ inserted' = inserted + c
             /\ orders' = [orders EXCEPT ![s][n] = @ + c]
    BY <1>0, <1>4, <1>5, <2>2, RowsGrow
  <2> QED
    BY <1>2, <2>1, <2>2
<1>7. /\ inserted' \in Nat /\ inserted' >= inserted
      /\ orders' \in [Shard -> Seq(Nat)]
      /\ \A t \in Shard : Len(orders'[t]) = Len(orders[t]) /\ (t # s => orders'[t] = orders[t])
  <2>1. CASE orders' = orders /\ inserted' = inserted
    BY <1>0, <2>1 DEF Types
  <2>2. CASE at[w] = "inserting" /\ inserted' = inserted + c /\ Grown(s, n, c)
    <3>1. inserted' \in Nat /\ inserted' >= inserted
      BY <1>0, <1>5, <2>2, SMTT(30) DEF Types
    <3> QED
      BY <2>2, <3>1 DEF Grown
  <2> QED
    BY <1>6, <2>1, <2>2
<1>8. ASSUME NEW t \in Shard, NEW m \in 1..Len(orders[t])
      PROVE  /\ orders[t][m] \in Nat /\ orders'[t][m] \in Nat /\ orders'[t][m] >= orders[t][m]
             /\ orders'[t][m] # orders[t][m] =>
                  at[w] = "inserting" /\ t = s /\ m = n /\ orders'[t][m] = orders[s][n] + c
  <2>0. orders[t][m] \in Nat
    BY <1>0 DEF Types
  <2>1. CASE orders' = orders
    BY <2>0, <2>1
  <2>2. CASE at[w] = "inserting" /\ Grown(s, n, c)
    <3>1. CASE t = s /\ m = n
      BY <1>5, <2>0, <2>2, <3>1 DEF Grown
    <3>2. CASE ~(t = s /\ m = n)
      BY <2>0, <2>2, <3>2 DEF Grown
    <3> QED
      BY <3>1, <3>2
  <2> QED
    BY <1>6, <2>1, <2>2
<1>9. Types'
  BY <1>0, <1>1, <1>7, SMTT(30) DEF Types, Busy
<1>10. \A v \in Worker : v # w /\ at[v] \in Busy =>
        ShardOf(v) # s /\ ShardOf(v) \in Shard /\ orders'[ShardOf(v)] = orders[ShardOf(v)]
  <2>1. \A v \in Worker : v # w /\ at[v] \in Busy => ShardOf(v) # s /\ ShardOf(v) \in Shard
    BY <1>0, <1>3, ShardOfWorker DEF Alone, s
  <2> QED
    BY <1>7, <2>1
<1>11. Alone'
  <2>1. main = "ticking"
    BY <1>0, <1>3 DEF Alone, Busy
  <2>2. \A v \in Worker : at'[v] \in Busy => at[v] \in Busy
    BY <1>3 DEF Busy
  <2> QED
    BY <1>0, <1>1, <1>3, <2>1, <2>2 DEF Alone
<1>12. Places'
  <2>1. Place(w)'
    BY <1>3 DEF Place, Early, Busy
  <2>2. ASSUME NEW v \in Worker, v # w PROVE Place(v)'
    <3>1. Place(v)
      BY <1>0 DEF Places
    <3>2. at'[v] = at[v] /\ (at[v] \in Busy => Last(v)' = Last(v))
      BY <1>3, <1>10, <2>2 DEF Last
    <3> QED
      BY <1>1, <3>1, <3>2 DEF Place, Early, Busy
  <2> QED
    BY <1>0, <1>1, <1>7, <2>1, <2>2 DEF Places
<1>13. Filled'
  <2>1. CASE misread = FALSE
    <3>1. Room(w)'
      BY <1>3 DEF Room
    <3>2. ASSUME NEW v \in Worker, v # w PROVE Room(v)'
      <4>1. Room(v)
        BY <1>0, <2>1 DEF Filled
      <4>2. at'[v] = at[v] /\ (at[v] \in Busy => orders'[ShardOf(v)'] = orders[ShardOf(v)])
        BY <1>3, <1>10, <3>2
      <4> QED
        BY <1>1, <4>1, <4>2 DEF Room, Last, Rows, Busy
    <3>3. ASSUME NEW t \in Shard, NEW m \in 1..Len(orders'[t])
          PROVE  /\ orders'[t][m] < SplitRowCap + Count
                 /\ m < Len(orders'[t]) => orders'[t][m] >= SplitRowCap
      <4>1. /\ m \in 1..Len(orders[t]) /\ orders[t][m] < SplitRowCap + Count
            /\ m < Len(orders'[t]) => orders[t][m] >= SplitRowCap
        BY <1>0, <1>7, <2>1 DEF Filled
      <4>2. orders[t][m] \in Nat /\ orders'[t][m] \in Nat /\ orders'[t][m] >= orders[t][m]
        BY <1>8, <4>1
      <4>3. CASE orders'[t][m] = orders[t][m]
        BY <4>1, <4>3
      <4>4. CASE orders'[t][m] # orders[t][m]
        <5>1. at[w] = "inserting" /\ orders'[t][m] = orders[s][n] + c
          BY <1>8, <4>1, <4>4
        <5>2. orders[s][n] + left[w] < SplitRowCap + Count
          BY <1>0, <2>1, <5>1 DEF Filled, Room, Rows, s, n
        <5>3. orders'[t][m] < SplitRowCap + Count
          BY <1>5, <5>1, <5>2, HotAssumption
        <5>4. m < Len(orders'[t]) => orders'[t][m] >= SplitRowCap
          BY <4>1, <4>2, HotAssumption
        <5> QED
          BY <5>3, <5>4
      <4> QED
        BY <4>3, <4>4
    <3> QED
      BY <3>1, <3>2, <3>3 DEF Filled
  <2>2. CASE misread
    BY <1>1, <2>2 DEF Filled
  <2> QED
    BY <1>0, <2>1, <2>2 DEF Types
<1>14. Within'
  <2>1. ASSUME NEW t \in Shard, NEW k \in Kind, NEW m \in 1..Len(orders'[t])
        PROVE  /\ covered'[t][k][m] <= Named(t, m)'
               /\ covered'[t][k][m] > 0 => <<t, k, m>> \in tables'
    <3>1. m \in 1..Len(orders[t])
      BY <1>7
    <3>2. /\ covered[t][k][m] <= Named(t, m)
          /\ covered[t][k][m] > 0 => <<t, k, m>> \in tables
      BY <1>0, <3>1 DEF Within, Named
    <3>3. covered[t][k][m] \in Nat /\ adrift[t][m] \in Nat
      <4>1. adrift[t] \in Seq(Nat) /\ m \in 1..Len(adrift[t])
        BY <1>0, <3>1 DEF Types, Places
      <4> QED
        BY <1>0, <3>1, <4>1, RowsAreNumbers
    <3>4. orders[t][m] \in Nat /\ orders'[t][m] \in Nat /\ orders'[t][m] >= orders[t][m]
      BY <1>8, <3>1
    <3>5. covered[t][k][m] <= Named(t, m)'
      <4> DEFINE o == orders[t][m]
                 p == orders'[t][m]
                 a == adrift[t][m]
                 x == covered[t][k][m]
      <4>1. /\ o \in Nat /\ p \in Nat /\ a \in Nat /\ x \in Nat /\ p >= o /\ x <= o + a
            /\ Named(t, m)' = p + a
        BY <1>1, <3>2, <3>3, <3>4 DEF Named
      <4> HIDE DEF o, p, a, x
      <4>2. x <= p + a
        BY <4>1
      <4> QED
        BY <4>1, <4>2 DEF x
    <3> QED
      BY <1>1, <3>2, <3>5
  <2>2. ASSUME NEW v \in Worker, NEW k \in Kind, Due(v, k)'
        PROVE  covered'[ShardOf(v)'][k][split'[v]] + ids'[v] <= Named(ShardOf(v), split[v])'
    <3>1. v # w
      BY <1>3, <2>2 DEF Due, Filling
    <3>2. Due(v, k) /\ at[v] \in Busy
      BY <1>1, <1>3, <2>2, <3>1 DEF Due, Filling, Busy
    <3> QED
      BY <1>0, <1>1, <1>3, <1>10, <3>1, <3>2 DEF Within, Named
  <2> QED
    BY <2>1, <2>2 DEF Within, Named
<1>15. Exact'
  BY <1>3 DEF Exact
<1>16. Account'
  <2>1. \A v \in Worker : v # w => Owed'[v] = Owed[v]
    BY <1>1, <1>3 DEF Owed
  <2>2. Owed'[w] = 0
    BY <1>3 DEF Owed, Busy
  <2> DEFINE x == SumOver(Owed', Worker)
             y == SumOver(Owed, Worker)
             i == Owed[w]
  <2>3. x \in Nat /\ y \in Nat /\ i \in Nat /\ x + i = y
    <3> HIDE DEF Owed
    <3> QED
      BY <1>0, <1>9, <2>1, <2>2, OwedByOne
  <2>4. total + y <= inserted + overcount /\ total \in Nat /\ inserted \in Nat /\ overcount \in Nat
    BY <1>0 DEF Account, Types
  <2> HIDE DEF x, y, i, Owed
  <2>5. /\ overcount' = overcount /\ inserted' \in Nat /\ inserted <= inserted'
        /\ x \in Nat /\ y \in Nat /\ x <= y
    BY <1>0, <1>1, <1>7, <2>3, <2>4
  <2>6. total + x <= inserted' + overcount
    BY <2>4, <2>5, AccountShrinks
  <2>7. total' + x <= inserted' + overcount'
    BY <1>1, <2>5, <2>6
  <2> QED
    BY <1>3, <2>7 DEF Account, x
<1> QED
  BY <1>9, <1>11, <1>12, <1>13, <1>14, <1>15, <1>16 DEF IInv

\* The invariant reads nothing but the variables.
LEMMA StutterKeeps ==
  ASSUME IInv, UNCHANGED vars
  PROVE  IInv'
PROOF
<1> USE DEF vars, dbVars, workerVars, history, tally
<1>0. Types /\ Alone /\ Places /\ Filled /\ Within /\ Exact /\ Account
  BY DEF IInv
<1>1. Types'
  BY <1>0 DEF Types
<1>2. Alone'
  BY <1>0 DEF Alone, ShardOf
<1>3. Places'
  BY <1>0 DEF Places, Place, Last, ShardOf
<1>4. Filled'
  BY <1>0 DEF Filled, Room, Last, Rows, ShardOf
<1>5. Within'
  BY <1>0 DEF Within, Named, Due, Filling, Rows, ShardOf
<1>6. Exact'
  BY <1>0 DEF Exact, Filling, Making, Rows, ShardOf
<1>7. Account'
  BY <1>0 DEF Account, Owed
<1> QED
  BY <1>1, <1>2, <1>3, <1>4, <1>5, <1>6, <1>7 DEF IInv

-----------------------------------------------------------------------------
(* The invariant holds *)

\* Every step keeps the invariant.
LEMMA StepIInv ==
  IInv /\ [Next]_vars => IInv'
PROOF
<1> SUFFICES ASSUME IInv, [Next]_vars PROVE IInv'
  OBVIOUS
<1> HIDE DEF IInv
<1>1. CASE Tick
  BY <1>1, TickKeeps
<1>2. CASE EndTick \/ Stop
  BY <1>2, EndTickKeeps
<1>3. CASE Crash
  BY <1>3, CrashKeeps
<1>4. ASSUME NEW w \in Worker, Work(w) PROVE IInv'
  <2>1. CASE CreateTable(w)
    <3>1. CASE ddl[w] = 0 /\ split[w] > Last(w)
      BY <2>1, <3>1, CreateOrdersKeeps
    <3>2. CASE ~(ddl[w] = 0 /\ split[w] > Last(w))
      BY <2>1, <3>2, CreateChildKeeps
    <3> QED
      BY <3>1, <3>2
  <2>2. CASE TakeCity(w) \/ WorkerReturns(w) \/ Probe(w) \/ CountRows(w)
    BY <2>2, TakeCityKeeps, WorkerReturnsKeeps, ProbeKeeps, CountRowsKeeps
  <2>3. CASE InsertChunk(w) \/ OrdersDone(w) \/ Cascade(w)
    BY <2>3, InsertChunkKeeps, OrdersDoneKeeps, CascadeKeeps
  <2>4. CASE Report(w) \/ CallFails(w)
    BY <2>4, ReportKeeps, CallFailsKeeps
  <2> QED
    BY <1>4, <2>1, <2>2, <2>3, <2>4 DEF Work
<1>5. CASE UNCHANGED vars
  BY <1>5, StutterKeeps
<1> QED
  BY <1>1, <1>2, <1>3, <1>4, <1>5 DEF Next

\* The inductive invariant holds in every state of every behaviour.
LEMMA Invariance ==
  Spec => []IInv
BY InitIInv, StepIInv, PTL DEF Spec

-----------------------------------------------------------------------------
(* Theorems *)

\* For any number of brands, cities and workers no two goroutines ever work on
\* the same city's tables, whichever calls fail and wherever the process is
\* killed: the channel of runTick hands a city out once, and its wait group
\* does not let the next tick begin while one is at work.
THEOREM CitiesHaveOneWorker ==
  Spec => []OneWorkerPerCity
PROOF
<1>1. ASSUME IInv PROVE OneWorkerPerCity
  <2>1. Types /\ Alone /\ Places
    BY <1>1 DEF IInv
  <2>2. /\ \A s \in Shard, k \in Kind : covered[s][k] \in [1..Len(orders[s]) -> Nat]
        /\ \A s \in Shard : adrift[s] \in [1..Len(orders[s]) -> Nat]
    BY <2>1, SMTT(30) DEF Types, Places
  <2>3. TypeOK
    BY <2>1, <2>2, KindFacts DEF TypeOK, Types, Alone
  <2> QED
    BY <2>1, <2>3 DEF OneWorkerPerCity, Alone
<1> QED
  BY <1>1, Invariance, PTL

\* Whatever the cap, the batch and the chunk, a split of insertLiveOrders passes
\* its cap by less than a batch and is full before the next one gets a row,
\* unless a probe or a count that failed was taken for an answer.
THEOREM SplitsFill ==
  Spec => []SplitsFillInOrder
PROOF
<1>1. ASSUME IInv PROVE SplitsFillInOrder
  <2>1. \A s \in Shard : DOMAIN orders[s] = 1..Len(orders[s])
    BY <1>1 DEF IInv, Types
  <2>2. Filled
    BY <1>1 DEF IInv
  <2> QED
    BY <2>1, <2>2 DEF SplitsFillInOrder, Filled
<1> QED
  BY <1>1, Invariance, PTL

\* Under every failure, an answer that breaks off and an INSERT that succeeds
\* unheard included, a child table has rows only if it exists, and for no more
\* order_ids than its split holds orders and lost to an INSERT rolled back after
\* they were read (main.go:324, where rows.Err is not asked); and runTick's
\* total is above the orders inserted by no more than those of its tick.
THEOREM ChildrenStayWithinOrders ==
  Spec => []CascadeWithinOrders
PROOF
<1>1. ASSUME IInv PROVE CascadeWithinOrders
  <2>1. \A s \in Shard : DOMAIN orders[s] = 1..Len(orders[s])
    BY <1>1 DEF IInv, Types
  <2>2. Owed \in [Worker -> Nat] /\ total \in Nat /\ inserted + overcount \in Nat
    BY <1>1 DEF IInv, Types, Owed
  <2>3. SumOver(Owed, Worker) \in Nat
    <3> HIDE DEF Owed
    <3> QED
      BY <2>2, WorkerFinite, SumOverType
  <2>4. total <= inserted + overcount
    BY <1>1, <2>2, <2>3 DEF IInv, Account
  <2> QED
    BY <1>1, <2>1, <2>4, KindFacts DEF CascadeWithinOrders, IInv, Within, Named
<1> QED
  BY <1>1, Invariance, PTL

\* As long as nothing has failed, the end of a tick finds every order of every
\* split with its items and its status event, and a total that is exactly the
\* orders inserted, for any number of workers that add to it.
THEOREM QuietTicksCascade ==
  Spec => []TickCascades
PROOF
<1>1. ASSUME IInv, main = "waiting", faults = 0
      PROVE  /\ total = inserted
             /\ \A s \in Shard, k \in 1..2 : covered[s][k] = orders[s]
  <2>0. Types /\ Alone /\ Places /\ Exact /\ Account
    BY <1>1 DEF IInv
  <2>1. \A w \in Worker : at[w] = "off"
    BY <1>1, <2>0 DEF Alone
  <2>2. total = inserted
    <3>1. Owed \in [Worker -> Nat] /\ \A w \in Worker : Owed[w] = 0
      BY <2>0, <2>1 DEF Owed, Busy
    <3>2. SumOver(Owed, Worker) = 0
      <4> HIDE DEF Owed
      <4> QED
        BY <3>1, WorkerFinite, SumOverZero
    <3> QED
      BY <1>1, <2>0, <3>2 DEF Account, Types
  <2>3. ASSUME NEW s \in Shard, NEW k \in 1..2 PROVE covered[s][k] = orders[s]
    <3>1. k \in Kind
      BY DEF Kind
    <3>2. covered[s][k] \in Seq(Nat) /\ orders[s] \in Seq(Nat) /\ Len(covered[s][k]) = Len(orders[s])
      BY <2>0, <3>1 DEF Types, Places
    <3>3. \A n \in 1..Len(orders[s]) : covered[s][k][n] = orders[s][n]
      BY <1>1, <2>0, <2>1 DEF Exact, Filling
    <3>4. covered[s][k] \in [1..Len(orders[s]) -> Nat] /\ orders[s] \in [1..Len(orders[s]) -> Nat]
      BY <3>2, SMTT(30)
    <3> QED
      BY <3>3, <3>4
  <2> QED
    BY <2>2, <2>3
<1>2. IInv => TickCascades
  BY <1>1 DEF TickCascades
<1> QED
  BY <1>2, Invariance, PTL
=============================================================================
