-------------------------- MODULE CitySeederProofs --------------------------
(***************************************************************************)
(* Proofs about CitySeeder, for every target, cap and batch and for every  *)
(* number of runs and faults.                                              *)
(*                                                                         *)
(* The rows of a city are a fold over its splits.  The first part shows    *)
(* that the fold is the sum of their sizes, by induction over the splits;  *)
(* the induction is derived from WFMin.  The invariant then follows a run: *)
(* where its rows go (Places), which orders the child rows and its own     *)
(* list of ids name (Named) and which of those have no child row yet       *)
(* (Fresh), how full the splits are (Full), what the runs may still add    *)
(* (Growth), and, as long as nothing has failed, which tables exist        *)
(* (Tables) and which orders have their child rows (Given).                *)
(***************************************************************************)
EXTENDS CitySeeder, Integers, FiniteSetTheorems, SequenceTheorems,
        WellFoundedInduction, TLAPS

-----------------------------------------------------------------------------
(* Sums *)

\* Induction: a set that holds 0 and the successor of each of its numbers holds
\* every natural number.
LEMMA NaturalInduction ==
  ASSUME NEW S, 0 \in S, \A n \in Nat : n \in S => n + 1 \in S
  PROVE  Nat \subseteq S
PROOF
<1> DEFINE T == Nat \ S
           R == OpToRel(<, Nat)
<1> SUFFICES ASSUME T # {} PROVE FALSE
  OBVIOUS
<1>1. PICK x \in T : \A y \in T : ~ (<<y, x>> \in R)
  <2>1. T \subseteq Nat
    OBVIOUS
  <2> HIDE DEF T
  <2> QED
    BY <2>1, NatLessThanWellFounded, WFMin
<1>2. x \in Nat /\ x # 0
  OBVIOUS
<1>3. x - 1 \in Nat /\ x - 1 < x /\ x - 1 + 1 = x
  BY <1>2
<1>4. x - 1 \notin S
  BY <1>3
<1>5. <<x - 1, x>> \in R
  BY <1>2, <1>3 DEF OpToRel
<1> QED
  BY <1>1, <1>3, <1>4, <1>5

\* The partial sums of the first n numbers of f.
PartialSums(p, f, n) ==
  /\ p \in [0..n -> Nat] /\ p[0] = 0
  /\ \A i \in 1..n : p[i] = p[i - 1] + f[i]

\* The sum of the first n numbers of f.
SumTo(f, n) == (CHOOSE p : PartialSums(p, f, n))[n]

\* Every list of numbers has its partial sums.
LEMMA PartialSumsExist ==
  ASSUME NEW n \in Nat, NEW f \in [1..n -> Nat]
  PROVE  \E p : PartialSums(p, f, n)
PROOF
<1> DEFINE S == {m \in Nat : m <= n => \E p : PartialSums(p, f, m)}
<1>1. 0 \in S
  <2>1. PartialSums([i \in 0..0 |-> 0], f, 0)
    BY DEF PartialSums
  <2> QED
    BY <2>1
<1>2. ASSUME NEW m \in Nat, m \in S PROVE m + 1 \in S
  <2> SUFFICES ASSUME m + 1 <= n PROVE \E p : PartialSums(p, f, m + 1)
    OBVIOUS
  <2>1. PICK p : PartialSums(p, f, m)
    BY <1>2
  <2> DEFINE q == [i \in 0..m + 1 |-> IF i = m + 1 THEN p[m] + f[m + 1] ELSE p[i]]
  <2>2. p[m] \in Nat /\ f[m + 1] \in Nat
    BY <2>1 DEF PartialSums
  <2>3. q \in [0..m + 1 -> Nat] /\ q[0] = 0
    BY <2>1, <2>2 DEF PartialSums
  <2>4. ASSUME NEW i \in 1..m + 1 PROVE q[i] = q[i - 1] + f[i]
    <3>1. CASE i = m + 1
      <4>1. i - 1 = m /\ m \in 0..m + 1 /\ m # m + 1
        BY <3>1
      <4>2. q[i] = p[m] + f[m + 1] /\ q[m] = p[m]
        BY <3>1, <4>1
      <4> QED
        BY <3>1, <4>1, <4>2
    <3>2. CASE i # m + 1
      <4>1. i \in 1..m /\ i - 1 \in 0..m /\ i - 1 # m + 1
        BY <3>2
      <4>2. q[i] = p[i] /\ q[i - 1] = p[i - 1]
        BY <3>2, <4>1
      <4> QED
        BY <2>1, <4>1, <4>2 DEF PartialSums
    <3> QED
      BY <3>1, <3>2
  <2>5. PartialSums(q, f, m + 1)
    BY <2>3, <2>4 DEF PartialSums
  <2> QED
    BY <2>5
<1>3. n \in S
  <2> HIDE DEF S
  <2> QED
    BY <1>1, <1>2, NaturalInduction
<1> QED
  BY <1>3

\* SumTo is the last of the partial sums.
LEMMA SumToPartial ==
  ASSUME NEW n \in Nat, NEW f \in [1..n -> Nat]
  PROVE  \E p : PartialSums(p, f, n) /\ SumTo(f, n) = p[n]
BY PartialSumsExist DEF SumTo

\* List g is list f, but d more in place c.
MoreBy(f, g, n, c, d) ==
  \A i \in 1..n : f[i] \in Nat /\ g[i] = IF i = c THEN f[i] + d ELSE f[i]

\* Its partial sums are d more from there on.
LEMMA PartialChange ==
  ASSUME NEW n \in Nat, NEW f, NEW g, NEW p, NEW q, NEW c \in 1..n, NEW d \in Nat,
         MoreBy(f, g, n, c, d), PartialSums(p, f, n), PartialSums(q, g, n)
  PROVE  q[n] = p[n] + d
PROOF
<1> DEFINE P(m) == q[m] = IF m < c THEN p[m] ELSE p[m] + d
           S == {m \in Nat : m <= n => P(m)}
<1>1. 0 \in S
  BY DEF PartialSums
<1>2. ASSUME NEW m \in Nat, m \in S PROVE m + 1 \in S
  <2> SUFFICES ASSUME m + 1 <= n PROVE P(m + 1)
    OBVIOUS
  <2>1. P(m) /\ m + 1 \in 1..n /\ m + 1 - 1 = m
    BY <1>2
  <2>2. p[m] \in Nat /\ f[m + 1] \in Nat
    BY <2>1 DEF PartialSums, MoreBy
  <2>3. p[m + 1] = p[m] + f[m + 1] /\ q[m + 1] = q[m] + g[m + 1]
    <3>1. ASSUME NEW i \in 1..n PROVE p[i] = p[i - 1] + f[i] /\ q[i] = q[i - 1] + g[i]
      BY DEF PartialSums
    <3> QED
      BY <2>1, <3>1
  <2>4. g[m + 1] = IF m + 1 = c THEN f[m + 1] + d ELSE f[m + 1]
    BY <2>1 DEF MoreBy
  <2> QED
    BY <2>1, <2>2, <2>3, <2>4
<1>3. n \in S
  <2> HIDE DEF S
  <2> QED
    BY <1>1, <1>2, NaturalInduction
<1> QED
  BY <1>3

\* And so is its sum.
LEMMA SumToChange ==
  ASSUME NEW n \in Nat, NEW f \in [1..n -> Nat], NEW g \in [1..n -> Nat],
         NEW c \in 1..n, NEW d \in Nat, MoreBy(f, g, n, c, d)
  PROVE  SumTo(g, n) = SumTo(f, n) + d
PROOF
<1>1. PICK p : PartialSums(p, f, n) /\ SumTo(f, n) = p[n]
  BY SumToPartial
<1>2. PICK q : PartialSums(q, g, n) /\ SumTo(g, n) = q[n]
  BY SumToPartial
<1>3. q[n] = p[n] + d
  BY <1>1, <1>2, PartialChange
<1> QED
  BY <1>1, <1>2, <1>3

\* Equal lists have equal sums.
LEMMA PartialSame ==
  ASSUME NEW n \in Nat, NEW f, NEW g, NEW p, NEW q,
         \A i \in 1..n : f[i] \in Nat /\ f[i] = g[i],
         PartialSums(p, f, n), PartialSums(q, g, n)
  PROVE  p[n] = q[n]
PROOF
<1> DEFINE S == {m \in Nat : m <= n => p[m] = q[m]}
<1>1. 0 \in S
  BY DEF PartialSums
<1>2. ASSUME NEW m \in Nat, m \in S PROVE m + 1 \in S
  <2> SUFFICES ASSUME m + 1 <= n PROVE p[m + 1] = q[m + 1]
    OBVIOUS
  <2>1. p[m] = q[m] /\ m + 1 \in 1..n /\ m + 1 - 1 = m
    BY <1>2
  <2>2. p[m + 1] = p[m] + f[m + 1] /\ q[m + 1] = q[m] + g[m + 1]
    BY <2>1 DEF PartialSums
  <2> QED
    BY <2>1, <2>2
<1>3. n \in S
  <2> HIDE DEF S
  <2> QED
    BY <1>1, <1>2, NaturalInduction
<1> QED
  BY <1>3

\* A list with one more number has a sum that is greater by that number.
LEMMA SumToStep ==
  ASSUME NEW n \in Nat, NEW f \in [1..n -> Nat], NEW g \in [1..n + 1 -> Nat],
         \A i \in 1..n : f[i] = g[i]
  PROVE  SumTo(g, n + 1) = SumTo(f, n) + g[n + 1]
PROOF
<1>1. PICK p : PartialSums(p, f, n) /\ SumTo(f, n) = p[n]
  BY SumToPartial
<1>2. n + 1 \in Nat
  OBVIOUS
<1>3. PICK q : PartialSums(q, g, n + 1) /\ SumTo(g, n + 1) = q[n + 1]
  BY <1>2, SumToPartial
<1> DEFINE r == [i \in 0..n |-> q[i]]
<1>4. PartialSums(r, g, n)
  <2>1. \A i \in 1..n : i \in 1..n + 1 /\ i - 1 \in 0..n
    OBVIOUS
  <2>2. \A i \in 1..n : r[i] = r[i - 1] + g[i]
    BY <1>3, <2>1 DEF PartialSums
  <2>3. r \in [0..n -> Nat] /\ r[0] = 0
    BY <1>3 DEF PartialSums
  <2> QED
    BY <2>2, <2>3 DEF PartialSums
<1>5. p[n] = r[n]
  <2>1. \A i \in 1..n : f[i] \in Nat /\ f[i] = g[i]
    OBVIOUS
  <2> HIDE DEF r
  <2> QED
    BY <1>1, <1>4, <2>1, PartialSame
<1>6. n + 1 \in 1..n + 1 /\ n + 1 - 1 = n /\ r[n] = q[n]
  OBVIOUS
<1>7. q[n + 1] = q[n] + g[n + 1]
  <2> HIDE DEF r
  <2> QED
    BY <1>3, <1>6 DEF PartialSums
<1> QED
  BY <1>1, <1>3, <1>5, <1>6, <1>7

\* The sum of the empty list, and the type of a sum.
LEMMA SumToType ==
  ASSUME NEW n \in Nat, NEW f \in [1..n -> Nat]
  PROVE  SumTo(f, n) \in Nat /\ (n = 0 => SumTo(f, n) = 0)
BY SumToPartial DEF PartialSums

-----------------------------------------------------------------------------
(* The rows of a list of splits *)

\* The rows of the first n of them.
RowsUpTo(tables, n) == SumTo([i \in 1..n |-> Cardinality(tables[i])], n)

\* TotalRows of any list of splits.
SumOfSizes(tables) == FoldSeq(LAMBDA rows, sum : Cardinality(rows) + sum, 0, tables)

Pick(s) == CHOOSE x \in s : TRUE

\* t is the function that the fold computes over the subsets of S.
Folds(t, tables, S) ==
  t = [s \in SUBSET S |->
         IF s = {} THEN 0 ELSE Cardinality(tables[Pick(s)]) + t[s \ {Pick(s)}]]

\* t adds the sizes of any set of splits, in any order.
Adds(t, tables, S) ==
  /\ t[{}] = 0
  /\ \A s \in SUBSET S :
       t[s] \in Nat /\ \A x \in s : t[s] = Cardinality(tables[x]) + t[s \ {x}]

HaveSizes(tables, S) == \A x \in S : Cardinality(tables[x]) \in Nat

LEMMA TotalIsSum == TotalRows = SumOfSizes(orders)
BY DEF TotalRows, SumOfSizes

LEMMA SumIsFold ==
  ASSUME NEW tables
  PROVE  SumOfSizes(tables) =
           (CHOOSE t : Folds(t, tables, DOMAIN tables))[DOMAIN tables]
BY DEF SumOfSizes, FoldSeq, FoldFunction, FoldFunctionOnSet, MapThenFoldSet,
       Pick, Folds

\* Taking an element from a set of at most m + 1 leaves at most m.
LEMMA TakeOne ==
  ASSUME NEW S, IsFiniteSet(S), NEW s \in SUBSET S, NEW x \in s, NEW m \in Nat,
         Cardinality(s) <= m + 1
  PROVE  /\ Cardinality(s \ {x}) <= m /\ s \ {x} \in SUBSET S
         /\ Cardinality(s \ {x}) \in Nat
PROOF
<1>1. IsFiniteSet(s) /\ Cardinality(s) \in Nat
  BY FS_Subset, FS_CardinalityType
<1>2. Cardinality(s \ {x}) = Cardinality(s) - 1
  BY <1>1, FS_RemoveElement
<1>3. Cardinality(s \ {x}) \in Nat
  BY <1>1, FS_RemoveElement, FS_CardinalityType
<1> QED
  BY <1>1, <1>2, <1>3

\* The fold is defined: the function exists.
LEMMA FoldsExist ==
  ASSUME NEW S, IsFiniteSet(S), NEW tables, HaveSizes(tables, S)
  PROVE  \E t : Folds(t, tables, S)
PROOF
<1> USE DEF HaveSizes
<1> DEFINE D(m) == {s \in SUBSET S : Cardinality(s) <= m}
           Value(t, s) == IF s = {} THEN 0
                          ELSE Cardinality(tables[Pick(s)]) + t[s \ {Pick(s)}]
           Defined(t, m) == /\ t \in [D(m) -> Nat]
                            /\ \A s \in D(m) : t[s] = Value(t, s)
           T == {m \in Nat : \E t : Defined(t, m)}
<1>1. \A s \in SUBSET S : IsFiniteSet(s) /\ Cardinality(s) \in Nat
  BY FS_Subset, FS_CardinalityType
<1>2. \A s \in SUBSET S : s # {} => Pick(s) \in s
  BY DEF Pick
<1>3. 0 \in T
  <2>1. \A s \in D(0) : s = {}
    BY <1>1, FS_EmptySet
  <2>2. Defined([s \in D(0) |-> 0], 0)
    BY <2>1
  <2> QED
    BY <2>2
<1>4. ASSUME NEW m \in Nat, m \in T PROVE m + 1 \in T
  <2>1. PICK t : Defined(t, m)
    BY <1>4
  <2> DEFINE u == [s \in D(m + 1) |-> Value(t, s)]
  <2>2. \A s \in D(m + 1) : s # {} => s \ {Pick(s)} \in D(m)
    BY <1>2, TakeOne
  <2>3. \A s \in D(m) : s \in D(m + 1) /\ t[s] = Value(t, s) /\ t[s] \in Nat
    BY <1>1, <2>1
  <2>4. \A s \in D(m) : u[s] = t[s]
    <3> HIDE DEF Value, D
    <3> QED
      BY <2>3
  <2>5. \A s \in D(m + 1) : Value(t, s) \in Nat
    <3> HIDE DEF D
    <3> SUFFICES ASSUME NEW s \in D(m + 1), s # {}
                 PROVE  Cardinality(tables[Pick(s)]) + t[s \ {Pick(s)}] \in Nat
      OBVIOUS
    <3>1. Pick(s) \in S
      BY <1>2 DEF D
    <3>2. t[s \ {Pick(s)}] \in Nat
      BY <2>2, <2>3
    <3> QED
      BY <3>1, <3>2
  <2>6. \A s \in D(m + 1) : Value(u, s) = Value(t, s)
    <3> HIDE DEF u, D
    <3> QED
      BY <2>2, <2>4
  <2>7. u \in [D(m + 1) -> Nat] /\ \A s \in D(m + 1) : u[s] = Value(t, s)
    <3> HIDE DEF Value, D
    <3> QED
      BY <2>5
  <2>8. Defined(u, m + 1)
    <3> HIDE DEF u, Value, D
    <3> QED
      BY <2>6, <2>7
  <2>9. \E v : Defined(v, m + 1)
    <3> HIDE DEF Defined, u
    <3> QED
      BY <2>8
  <2> HIDE DEF Defined, u
  <2> QED
    BY <2>9
<1>5. Cardinality(S) \in Nat /\ D(Cardinality(S)) = SUBSET S
  <2>1. \A s \in SUBSET S : Cardinality(s) <= Cardinality(S)
    BY FS_Subset
  <2> QED
    BY <2>1, FS_CardinalityType
<1>6. Cardinality(S) \in T
  <2> HIDE DEF T
  <2> QED
    BY <1>3, <1>4, <1>5, NaturalInduction
<1>7. PICK t : Defined(t, Cardinality(S))
  BY <1>6
<1>8. t \in [SUBSET S -> Nat] /\ \A s \in SUBSET S : t[s] = Value(t, s)
  <2> HIDE DEF Value, D
  <2> QED
    BY <1>5, <1>7
<1>9. t = [s \in SUBSET S |-> Value(t, s)]
  <2> HIDE DEF Value
  <2> QED
    BY <1>8
<1> QED
  BY <1>9 DEF Folds

\* Whatever element is taken first, the fold adds it to the fold of the others.
LEMMA FoldTakesAny ==
  ASSUME NEW S, IsFiniteSet(S), NEW tables, HaveSizes(tables, S),
         NEW t, Folds(t, tables, S)
  PROVE  Adds(t, tables, S)
PROOF
<1> USE DEF HaveSizes
<1> DEFINE Good(s) == /\ t[s] \in Nat
                      /\ \A x \in s : t[s] = Cardinality(tables[x]) + t[s \ {x}]
           Small(m) == {s \in SUBSET S : Cardinality(s) <= m}
           T == {m \in Nat : \A s \in Small(m) : Good(s)}
<1>1. \A s \in SUBSET S : IsFiniteSet(s) /\ Cardinality(s) \in Nat
  BY FS_Subset, FS_CardinalityType
<1>2. \A s \in SUBSET S :
        t[s] = IF s = {} THEN 0 ELSE Cardinality(tables[Pick(s)]) + t[s \ {Pick(s)}]
  <2> DEFINE F == [s \in SUBSET S |->
                     IF s = {} THEN 0 ELSE Cardinality(tables[Pick(s)]) + t[s \ {Pick(s)}]]
  <2>1. t = F
    BY DEF Folds
  <2>2. \A s \in SUBSET S :
          F[s] = IF s = {} THEN 0 ELSE Cardinality(tables[Pick(s)]) + t[s \ {Pick(s)}]
    OBVIOUS
  <2> HIDE DEF F
  <2> QED
    BY <2>1, <2>2, Zenon
<1>3. t[{}] = 0
  BY <1>2
<1>4. Good({})
  BY <1>3
<1>5. 0 \in T
  <2>1. \A s \in Small(0) : s = {}
    BY <1>1, FS_EmptySet
  <2> HIDE DEF Good, Small
  <2> QED
    BY <1>4, <2>1
<1>6. ASSUME NEW m \in Nat, \A s \in Small(m) : Good(s),
             NEW s \in Small(m + 1), s # {}
      PROVE  Good(s)
  <2> DEFINE y == Pick(s)
  <2>1. y \in s /\ y \in S
    BY <1>6 DEF Pick
  <2>2. t[s] = Cardinality(tables[y]) + t[s \ {y}]
    BY <1>2, <1>6
  <2> HIDE DEF y
  <2>3. \A r \in Small(m + 1) : \A x \in r : r \ {x} \in Small(m) /\ x \in S
    BY TakeOne
  <2>4. \A r \in Small(m) : r \in Small(m + 1)
    BY <1>1
  <2>5. \A x \in s : Good(s \ {x})
    <3> HIDE DEF Good, Small
    <3> QED
      BY <1>6, <2>3
  <2>6. t[s] \in Nat
    <3>1. t[s \ {y}] \in Nat /\ Cardinality(tables[y]) \in Nat
      BY <2>1, <2>5
    <3> QED
      BY <2>2, <3>1
  <2>7. ASSUME NEW x \in s PROVE t[s] = Cardinality(tables[x]) + t[s \ {x}]
    <3>1. CASE x = y
      BY <2>2, <3>1
    <3>2. CASE x # y
      <4>1. x \in s \ {y} /\ y \in s \ {x} /\ (s \ {y}) \ {x} = (s \ {x}) \ {y}
        BY <2>1, <3>2
      <4> DEFINE rest == t[(s \ {x}) \ {y}]
      <4>2. t[s \ {y}] = Cardinality(tables[x]) + rest
        BY <2>1, <2>5, <4>1
      <4>3. t[s \ {x}] = Cardinality(tables[y]) + rest
        BY <2>5, <4>1
      <4>4. rest \in Nat
        <5> HIDE DEF Good, Small
        <5>1. s \ {x} \in Small(m + 1)
          BY <1>6, <2>3, <2>4
        <5>2. (s \ {x}) \ {y} \in Small(m)
          BY <2>3, <4>1, <5>1
        <5>3. Good((s \ {x}) \ {y})
          BY <1>6, <5>2
        <5> QED
          BY <5>3 DEF Good
      <4>5. Cardinality(tables[x]) \in Nat /\ Cardinality(tables[y]) \in Nat
        BY <2>1, <2>3
      <4> DEFINE withoutY == t[s \ {y}]
                 withoutX == t[s \ {x}]
                 lenX == Cardinality(tables[x])
                 lenY == Cardinality(tables[y])
      <4>6. t[s] = lenY + withoutY /\ withoutY = lenX + rest /\ withoutX = lenY + rest
        BY <2>2, <4>2, <4>3
      <4>7. lenX \in Nat /\ lenY \in Nat /\ rest \in Nat
        BY <4>4, <4>5
      <4>8. t[s] = lenX + withoutX
        <5> HIDE DEF rest, withoutX, withoutY, lenX, lenY
        <5> QED
          BY <4>6, <4>7
      <4> QED
        BY <4>8
    <3> QED
      BY <3>1, <3>2
  <2> QED
    BY <2>6, <2>7
<1>7. ASSUME NEW m \in Nat, m \in T PROVE m + 1 \in T
  <2> HIDE DEF Good, Small
  <2> SUFFICES ASSUME NEW s \in Small(m + 1) PROVE Good(s)
    OBVIOUS
  <2>1. \A r \in Small(m) : Good(r)
    BY <1>7
  <2> QED
    BY <1>4, <1>6, <2>1
<1>8. Cardinality(S) \in Nat /\ \A s \in SUBSET S : s \in Small(Cardinality(S))
  BY FS_Subset, FS_CardinalityType
<1>9. Cardinality(S) \in T
  <2> HIDE DEF T
  <2> QED
    BY <1>5, <1>7, <1>8, NaturalInduction
<1>10. \A s \in SUBSET S : Good(s)
  <2> HIDE DEF Good, Small
  <2> QED
    BY <1>8, <1>9
<1> QED
  BY <1>3, <1>10 DEF Adds

\* The fold of a list of splits is the sum of its sizes.
LEMMA SumOfSizesIsRows ==
  ASSUME NEW n \in Nat, NEW tables, DOMAIN tables = 1..n,
         \A i \in 1..n : Cardinality(tables[i]) \in Nat
  PROVE  SumOfSizes(tables) = RowsUpTo(tables, n)
PROOF
<1> DEFINE f == [i \in 1..n |-> Cardinality(tables[i])]
           t == CHOOSE u : Folds(u, tables, 1..n)
           p == [i \in 0..n |-> t[1..i]]
<1>0. HaveSizes(tables, 1..n)
  BY DEF HaveSizes
<1>1. IsFiniteSet(1..n)
  BY FS_Interval
<1>2. Folds(t, tables, 1..n)
  BY <1>0, <1>1, FoldsExist
<1>3. SumOfSizes(tables) = t[1..n]
  BY SumIsFold
<1> HIDE DEF t
<1>4. Adds(t, tables, 1..n)
  BY <1>0, <1>1, <1>2, FoldTakesAny
<1>5. PartialSums(p, f, n)
  <2>1. \A i \in 0..n : 1..i \in SUBSET (1..n)
    OBVIOUS
  <2>2. p \in [0..n -> Nat]
    BY <1>4, <2>1 DEF Adds
  <2>3. p[0] = 0
    BY <1>4 DEF Adds
  <2>4. ASSUME NEW i \in 1..n PROVE p[i] = p[i - 1] + f[i]
    <3>1. i \in 1..i /\ (1..i) \ {i} = 1..i - 1 /\ i - 1 \in 0..n /\ i \in 0..n
      OBVIOUS
    <3>2. t[1..i] = Cardinality(tables[i]) + t[(1..i) \ {i}]
      BY <1>4, <2>1, <3>1 DEF Adds
    <3>3. p[i] = t[1..i] /\ p[i - 1] = t[1..i - 1] /\ f[i] = Cardinality(tables[i])
      BY <3>1
    <3>4. t[1..i - 1] \in Nat /\ Cardinality(tables[i]) \in Nat
      BY <1>4, <2>1, <3>1 DEF Adds
    <3>5. t[1..i] = Cardinality(tables[i]) + t[1..i - 1]
      BY <3>1, <3>2
    <3> HIDE DEF p, f
    <3> DEFINE a == t[1..i - 1]
               b == Cardinality(tables[i])
    <3>6. p[i] = b + a /\ p[i - 1] = a /\ f[i] = b /\ a \in Nat /\ b \in Nat
      BY <3>3, <3>4, <3>5
    <3> HIDE DEF a, b
    <3> QED
      BY <3>6
  <2> HIDE DEF p, f
  <2> QED
    BY <2>2, <2>3, <2>4 DEF PartialSums
<1>6. f \in [1..n -> Nat]
  OBVIOUS
<1>7. p[n] = t[1..n]
  OBVIOUS
<1>8. p[n] = SumTo(f, n)
  <2> HIDE DEF p, f
  <2>1. PICK q : PartialSums(q, f, n) /\ SumTo(f, n) = q[n]
    BY <1>6, SumToPartial
  <2>2. \A i \in 1..n : f[i] \in Nat /\ f[i] = f[i]
    BY <1>6
  <2> QED
    BY <1>5, <2>1, <2>2, PartialSame
<1> QED
  BY <1>3, <1>7, <1>8 DEF RowsUpTo

\* Rows are counted one split after another.
LEMMA RowsUpToStep ==
  ASSUME NEW n \in Nat, NEW tables, \A i \in 1..n + 1 : Cardinality(tables[i]) \in Nat
  PROVE  RowsUpTo(tables, n + 1) = RowsUpTo(tables, n) + Cardinality(tables[n + 1])
PROOF
<1> DEFINE f == [i \in 1..n |-> Cardinality(tables[i])]
           g == [i \in 1..n + 1 |-> Cardinality(tables[i])]
<1>1. /\ f \in [1..n -> Nat] /\ g \in [1..n + 1 -> Nat]
      /\ \A i \in 1..n : f[i] = g[i]
  OBVIOUS
<1>2. g[n + 1] = Cardinality(tables[n + 1])
  OBVIOUS
<1>3. SumTo(g, n + 1) = SumTo(f, n) + g[n + 1]
  <2> HIDE DEF f, g
  <2> QED
    BY <1>1, SumToStep
<1> QED
  BY <1>2, <1>3 DEF RowsUpTo

LEMMA RowsUpToType ==
  ASSUME NEW n \in Nat, NEW tables, \A i \in 1..n : Cardinality(tables[i]) \in Nat
  PROVE  RowsUpTo(tables, n) \in Nat /\ (n = 0 => RowsUpTo(tables, n) = 0)
PROOF
<1> DEFINE f == [i \in 1..n |-> Cardinality(tables[i])]
<1>1. f \in [1..n -> Nat]
  OBVIOUS
<1>2. SumTo(f, n) \in Nat /\ (n = 0 => SumTo(f, n) = 0)
  <2> HIDE DEF f
  <2> QED
    BY <1>1, SumToType
<1> QED
  BY <1>2 DEF RowsUpTo

\* Rows put into one split are added to the total.
LEMMA RowsUpToGrow ==
  ASSUME NEW n \in Nat, NEW a, NEW b, NEW k \in 1..n, NEW d \in Nat,
         \A i \in 1..n : Cardinality(a[i]) \in Nat,
         \A i \in 1..n : i # k => Cardinality(b[i]) = Cardinality(a[i]),
         Cardinality(b[k]) = Cardinality(a[k]) + d
  PROVE  RowsUpTo(b, n) = RowsUpTo(a, n) + d
PROOF
<1> DEFINE f == [i \in 1..n |-> Cardinality(a[i])]
           g == [i \in 1..n |-> Cardinality(b[i])]
<1>1. f \in [1..n -> Nat] /\ g \in [1..n -> Nat]
  <2>1. \A i \in 1..n : Cardinality(b[i]) \in Nat
    OBVIOUS
  <2> QED
    BY <2>1
<1>2. MoreBy(f, g, n, k, d)
  BY DEF MoreBy
<1>3. SumTo(g, n) = SumTo(f, n) + d
  <2> HIDE DEF f, g
  <2> QED
    BY <1>1, <1>2, SumToChange
<1> QED
  BY <1>3 DEF RowsUpTo

LEMMA RowsUpToSame ==
  ASSUME NEW n \in Nat, NEW a, NEW b,
         \A i \in 1..n : Cardinality(b[i]) = Cardinality(a[i])
  PROVE  RowsUpTo(b, n) = RowsUpTo(a, n)
PROOF
<1>1. [i \in 1..n |-> Cardinality(b[i])] = [i \in 1..n |-> Cardinality(a[i])]
  OBVIOUS
<1> QED
  BY <1>1 DEF RowsUpTo


-----------------------------------------------------------------------------
(* The inductive invariant *)

\* Order i of split n has a row in the k-th child table.
Has(n, i, k) == \E c \in DOMAIN children[Child[k]] : c.of = n /\ c.id = i

Size(n) == Cardinality(orders[n])

\* The rows of the city.
Rows == RowsUpTo(orders, Len(orders))

\* The rows outside split 1.
Rest == Rows - Size(1)

Quiet == blind \intersect {"misread", "doubled", "cut"} = {}

Shaped ==
  /\ TypeOK
  /\ orders \in Seq(SUBSET Nat) /\ serial \in Seq(Nat)
  /\ Len(serial) = Len(orders) /\ Len(orders) > 0
  /\ DOMAIN splits = Range(Child) /\ DOMAIN children = Range(Child)
  /\ at # "new" => runs > 0

\* The split that rows go to exists, except before its tables are created.
Places ==
  /\ at = "counting" => split = 1 /\ splitRows = 0 /\ pending = 0 /\ ids = <<>>
  /\ at \in {"filling", "again", "sending"} => split <= Len(orders)
  /\ at \in {"filling", "again"} => (splitRows >= Cap => pending = 0)
  /\ at = "again" => pending > 0
  /\ at = "creating" =>
       /\ step \in 0..3 /\ (step > 0 => split <= Len(orders))
       /\ split > 1 /\ pending = 0 /\ splitRows = 0
  /\ at = "sending" => step \in 1..3

\* Child rows and the run's own list name orders that were given out.
Named ==
  /\ \A k \in 1..3 : \A c \in DOMAIN children[Child[k]] :
       /\ c.of <= c.in /\ c.id <= serial[c.of]
       /\ "cut" \in blind \/ c.id \in orders[c.of]
       /\ "readback" \in blind \/ children[Child[k]][c] = 1
  /\ \A i \in DOMAIN ids :
       /\ ids[i].of <= split /\ ids[i].id <= serial[ids[i].of]
       /\ "cut" \in blind \/ ids[i].id \in orders[ids[i].of]
  /\ "readback" \notin blind =>
       \A i, j \in DOMAIN ids : ids[i] = ids[j] => i = j

\* Orders whose turn is still to come have no child row, so none gets two.
Fresh ==
  "readback" \notin blind =>
    /\ at \in {"filling", "again", "creating"} =>
         \A i \in DOMAIN ids, k \in 1..3 : ~Has(ids[i].of, ids[i].id, k)
    /\ at = "sending" =>
         /\ \A i \in sending : ~Has(ids[i].of, ids[i].id, step)
         /\ \A i \in DOMAIN ids, k \in 1..3 :
              k > step => ~Has(ids[i].of, ids[i].id, k)

\* The run never believes the split in hand to hold more than it does.
Full ==
  "cut" \notin blind =>
    /\ \A n \in 1..Len(orders) : n < Len(orders) => Size(n) >= Cap
    /\ at \in {"filling", "again"} => splitRows <= Size(split)
    /\ at = "creating" /\ split > Len(orders) => Size(Len(orders)) >= Cap

\* Each run owes no more than what split 1 lacks of the target.  A run that is
\* still in split 1 finds later splits filled only if it adds nothing there.
Growth ==
  Quiet =>
    /\ Size(1) <= Target /\ (Rest > 0 => Size(1) >= Cap)
    /\ Rest <= runs * (Target - Size(1))
    /\ at = "counting" => Rest <= (runs - 1) * (Target - Size(1))
    /\ at \in {"filling", "again", "creating"} =>
         /\ Rest + pending + left <= runs * (Target - Size(1))
         /\ split = 1 =>
              splitRows = Size(1) /\ Size(1) + pending + left <= Target

\* Without a failure every table is there for the rows that go to it.
Tables ==
  faults = 0 =>
    /\ at \notin {"again", "skipped"}
    /\ at \in {"filling", "sending"} => \A k \in 1..3 : split <= splits[Child[k]]
    /\ at = "creating" => \A k \in 1..3 : k < step => split <= splits[Child[k]]

\* The run still has to give order i of split n its row in the k-th child table.
Waits(n, i, k) ==
  \E j \in DOMAIN ids :
    /\ ids[j].of = n /\ ids[j].id = i
    /\ \/ at \in {"filling", "creating"}
       \/ at = "sending" /\ (k > step \/ (k = step /\ j \in sending))

\* Without a failure every order has its rows or waits for them.
Given ==
  faults = 0 =>
    \A n \in 1..Len(orders), k \in 1..2 : \A i \in orders[n] :
      Has(n, i, k) \/ Waits(n, i, k)

IInv ==
  /\ Shaped /\ Places /\ Named /\ Fresh
  /\ Full /\ Growth /\ Tables /\ Given

-----------------------------------------------------------------------------
(* Facts about the tables *)

LEMMA ChildFacts ==
  /\ DOMAIN Child = 1..3 /\ Len(Child) = 3
  /\ Range(Child) = {Child[k] : k \in 1..3}
  /\ \A j, k \in 1..3 : Child[j] = Child[k] => j = k
BY DEF Child, Range

\* The list of splits is a sequence, and every split a finite set of ids.
LEMMA SplitFacts ==
  ASSUME Shaped
  PROVE  /\ Len(orders) \in Nat \ {0} /\ DOMAIN orders = 1..Len(orders)
         /\ DOMAIN serial = 1..Len(orders) /\ 1 \in 1..Len(orders)
         /\ split \in Nat \ {0} /\ split <= Len(orders) + 1
         /\ \A n \in 1..Len(orders) :
              /\ serial[n] \in Nat /\ orders[n] \subseteq 1..serial[n]
              /\ IsFiniteSet(orders[n]) /\ Size(n) \in Nat
PROOF
<1>0. /\ orders \in Seq(SUBSET Nat) /\ serial \in Seq(Nat)
      /\ Len(serial) = Len(orders) /\ Len(orders) > 0
  BY DEF Shaped
<1>1. /\ Len(orders) \in Nat \ {0} /\ DOMAIN orders = 1..Len(orders)
      /\ DOMAIN serial = 1..Len(orders) /\ split \in 1..Len(orders) + 1
      /\ \A n \in 1..Len(orders) : serial[n] \in Nat /\ orders[n] \subseteq 1..serial[n]
  <2>1. /\ Len(orders) \in Nat \ {0} /\ DOMAIN orders = 1..Len(orders)
        /\ DOMAIN serial = 1..Len(orders) /\ \A n \in 1..Len(orders) : serial[n] \in Nat
    BY <1>0
  <2>2. split \in 1..Len(orders) + 1 /\ \A n \in DOMAIN orders : orders[n] \subseteq 1..serial[n]
    BY DEF Shaped, TypeOK
  <2> QED
    BY <2>1, <2>2
<1>2. ASSUME NEW n \in 1..Len(orders)
      PROVE  IsFiniteSet(orders[n]) /\ Size(n) \in Nat
  <2>1. IsFiniteSet(1..serial[n])
    BY <1>1, FS_Interval
  <2> QED
    BY <1>1, <2>1, FS_Subset, FS_CardinalityType DEF Size
<1> QED
  BY <1>1, <1>2

LEMMA RowsIsTotal ==
  ASSUME Shaped
  PROVE  TotalRows = Rows /\ Rows \in Nat /\ Rest \in Int
PROOF
<1> DEFINE n == Len(orders)
<1>1. n \in Nat /\ DOMAIN orders = 1..n /\ \A i \in 1..n : Cardinality(orders[i]) \in Nat
  BY SplitFacts DEF Size
<1>2. SumOfSizes(orders) = RowsUpTo(orders, n)
  <2> HIDE DEF n
  <2> QED
    BY <1>1, SumOfSizesIsRows, SMTT(30)
<1>3. RowsUpTo(orders, n) \in Nat
  <2> HIDE DEF n
  <2> QED
    BY <1>1, RowsUpToType
<1>4. Rows \in Nat /\ Size(1) \in Nat
  BY <1>3, SplitFacts DEF Rows
<1> QED
  BY <1>2, <1>4, TotalIsSum DEF Rows, Rest

\* What the runs may add to a city that lacks x orders.
LEMMA Products ==
  ASSUME NEW r \in Nat, NEW x \in Nat
  PROVE  /\ r * x \in Nat /\ (r + 1) * x = r * x + x
         /\ r > 0 => x <= r * x /\ (r - 1) * x + x = r * x
BY SMTT(30)

LEMMA InitIInv ==
  ASSUME Init
  PROVE  IInv
PROOF
<1> USE DEF Init
<1>1. /\ orders \in Seq(SUBSET Nat) /\ Len(orders) = 1 /\ orders[1] = {}
      /\ serial \in Seq(Nat) /\ Len(serial) = 1 /\ serial[1] = 0
      /\ DOMAIN orders = 1..1 /\ DOMAIN serial = 1..1
  OBVIOUS
<1>2. \A k \in 1..3 : Child[k] \in Range(Child) /\ DOMAIN children[Child[k]] = {}
  BY ChildFacts DEF EmptyBag, SetToBag
<1>3. Shaped
  <2>1. \A k \in Range(Child) : splits[k] = 1 /\ DOMAIN children[k] = {}
    BY DEF EmptyBag, SetToBag
  <2>2. ids \in Seq([of : DOMAIN orders, id : Nat \ {0}]) /\ sending \subseteq DOMAIN ids
    OBVIOUS
  <2>3. step \in 0..Len(Child) + 1
    BY ChildFacts
  <2>4. /\ at \in Resting \union Busy /\ left \in 0..Target /\ pending \in 0..Batch
        /\ runs \in 0..MaxRuns /\ faults \in 0..MaxFaults /\ blind \subseteq BlindSpots
    BY CityAssumption DEF Resting
  <2>5. split \in 1..Len(orders) + 1 /\ splitRows \in Nat
    BY <1>1
  <2>6. TypeOK
    BY <1>1, <2>1, <2>2, <2>3, <2>4, <2>5 DEF TypeOK
  <2> QED
    BY <1>1, <2>6 DEF Shaped
<1>4. Size(1) = 0
  BY <1>1, FS_EmptySet DEF Size
<1>5. Rows = 0
  <2>1. RowsUpTo(orders, 0 + 1) = RowsUpTo(orders, 0) + Cardinality(orders[0 + 1])
    <3>1. 0 \in Nat /\ \A i \in 1..0 + 1 : Cardinality(orders[i]) \in Nat
      BY <1>1, <1>4 DEF Size
    <3> HIDE DEF Init
    <3> QED
      BY <3>1, RowsUpToStep
  <2>2. RowsUpTo(orders, 0) = 0
    BY RowsUpToType
  <2>3. Cardinality(orders[0 + 1]) = 0
    BY <1>4 DEF Size
  <2> QED
    BY <1>1, <2>1, <2>2, <2>3 DEF Rows
<1>6. Places /\ Fresh /\ Full /\ Tables
  BY <1>1 DEF Places, Fresh, Full, Tables
<1>7. Named
  BY <1>2 DEF Named
<1>8. Growth
  BY <1>4, <1>5, CityAssumption DEF Growth, Rest
<1>9. Given
  BY <1>1 DEF Given
<1> QED
  BY <1>3, <1>6, <1>7, <1>8, <1>9 DEF IInv

-----------------------------------------------------------------------------
(* Starting, counting and stopping *)

LEMMA StartRunKeeps ==
  ASSUME IInv, StartRun
  PROVE  IInv'
PROOF
<1>0. Shaped /\ Named /\ Full /\ Growth /\ Tables /\ Given
  BY DEF IInv
<1>1. /\ at \in Resting /\ at' = "counting" /\ split' = 1 /\ splitRows' = 0 /\ left' = 0
      /\ pending' = 0 /\ ids' = <<>> /\ step' = 0 /\ sending' = {}
      /\ runs < MaxRuns /\ runs' = runs + 1
      /\ UNCHANGED <<orders, serial, splits, children, made, faults, blind>>
  BY DEF StartRun, dbVars
<1>2. Shaped'
  <2>1. /\ at' \in Resting \union Busy /\ split' \in 1..Len(orders) + 1 /\ left' \in 0..Target
        /\ pending' \in 0..Batch /\ runs' \in 0..MaxRuns /\ runs' > 0
        /\ step' \in 0..Len(Child) + 1
    BY <1>0, <1>1, SplitFacts, ChildFacts, CityAssumption DEF Busy, Shaped, TypeOK
  <2>2. runs \in Nat /\ 1..runs \subseteq 1..runs'
    BY <1>0, <1>1 DEF Shaped, TypeOK
  <2>3. ChildRow \subseteq ChildRow'
    BY <1>1, <2>2 DEF ChildRow
  <2>4. made' \subseteq (DOMAIN orders) \X (Nat \ {0}) \X (1..runs')
    BY <1>0, <1>1, <2>2 DEF Shaped, TypeOK
  <2>5. \A k \in Range(Child) : /\ splits'[k] \in DOMAIN orders'
                                /\ DOMAIN children'[k] \subseteq ChildRow'
    BY <1>0, <1>1, <2>3 DEF Shaped, TypeOK
  <2> QED
    BY <1>0, <1>1, <2>1, <2>4, <2>5 DEF Shaped, TypeOK
<1>3. Places' /\ Fresh'
  BY <1>1 DEF Places, Fresh
<1>4. Named'
  BY <1>0, <1>1 DEF Named
<1>5. Full'
  BY <1>0, <1>1 DEF Full, Size
<1>6. Growth'
  <2>1. Size(1)' = Size(1) /\ Rest' = Rest /\ Quiet' = Quiet
    BY <1>1 DEF Size, Rest, Rows, Quiet
  <2>2. Size(1) \in Nat /\ Rest \in Int /\ runs \in Nat /\ Target \in Nat
    <3>1. runs \in Nat
      BY <1>0, CityAssumption DEF Shaped, TypeOK
    <3> QED
      BY <1>0, <3>1, SplitFacts, RowsIsTotal, CityAssumption
  <2>3. ASSUME Quiet
        PROVE  /\ Rest <= (runs' - 1) * (Target - Size(1))
               /\ Rest <= runs' * (Target - Size(1))
    <3> DEFINE x == Target - Size(1)
    <3>1. x \in Nat /\ Rest <= runs * x
      BY <1>0, <2>2, <2>3 DEF Growth
    <3> HIDE DEF x
    <3>2. runs' - 1 = runs /\ runs' * x = runs * x + x /\ runs * x \in Nat
      BY <1>1, <2>2, <3>1, Products
    <3>3. Rest <= (runs' - 1) * x /\ Rest <= runs' * x
      BY <2>2, <3>1, <3>2
    <3> QED
      BY <3>3 DEF x
  <2> QED
    BY <1>0, <1>1, <2>1, <2>3 DEF Growth
<1>7. Tables'
  BY <1>1 DEF Tables
<1>8. Given'
  <2>1. at \notin {"filling", "creating", "sending"}
    BY <1>1 DEF Resting
  <2> QED
    BY <1>0, <1>1, <2>1 DEF Given, Has, Waits
<1> QED
  BY <1>2, <1>3, <1>4, <1>5, <1>6, <1>7, <1>8 DEF IInv

\* Whatever ends a run, or a count that failed, without touching the tables.
LEMMA StopKeeps ==
  ASSUME IInv, at # "new", at' = "skipped", Fault({}),
         UNCHANGED <<dbVars, fillVars, childVars>>
  PROVE  IInv'
PROOF
<1>0. Shaped /\ Places /\ Named /\ Full /\ Growth
  BY DEF IInv
<1>1. /\ faults < MaxFaults /\ faults' = faults + 1 /\ blind' = blind
      /\ UNCHANGED <<orders, serial, splits, children, made, split, splitRows, left, pending,
                     ids, step, sending, runs>>
  BY DEF Fault, dbVars, fillVars, childVars
<1>2. faults' \in 0..MaxFaults /\ faults' # 0
  BY <1>0, <1>1, CityAssumption DEF Shaped, TypeOK
<1>3. Shaped'
  <2>1. at' \in Resting \union Busy
    BY DEF Resting
  <2>2. runs > 0
    BY <1>0 DEF Shaped
  <2> QED
    BY <1>0, <1>1, <1>2, <2>1 DEF Shaped, TypeOK, ChildRow
<1>4. Places' /\ Fresh'
  BY <1>0 DEF Places, Fresh
<1>5. Named'
  BY <1>0, <1>1 DEF Named
<1>6. Full'
  BY <1>0, <1>1 DEF Full, Size
<1>7. Growth'
  <2>1. Size(1)' = Size(1) /\ Rest' = Rest /\ Quiet' = Quiet
    BY <1>1 DEF Size, Rest, Rows, Quiet
  <2> QED
    BY <1>0, <1>1, <2>1 DEF Growth
<1>8. Tables' /\ Given'
  BY <1>2 DEF Tables, Given
<1> QED
  BY <1>3, <1>4, <1>5, <1>6, <1>7, <1>8 DEF IInv

LEMMA CreateFailsKeeps ==
  ASSUME IInv, CreateFails
  PROVE  IInv'
BY StopKeeps DEF CreateFails

LEMMA CrashKeeps ==
  ASSUME IInv, Crash
  PROVE  IInv'
BY StopKeeps DEF Crash, Busy

\* The run may make what it thinks split 1 lacks.
LEMMA CountKeeps ==
  ASSUME IInv, at = "counting",
         splitRows' \in Nat, left' \in 0..Target, faults' \in 0..MaxFaults,
         blind' \in SUBSET BlindSpots, blind \subseteq blind',
         at' = IF left' = 0 THEN "ok" ELSE "filling",
         left' = IF splitRows' < Target THEN Target - splitRows' ELSE 0,
         \/ splitRows' = Size(1) /\ UNCHANGED <<faults, blind>>
         \/ splitRows' = 0 /\ "misread" \in blind' /\ faults' # 0,
         UNCHANGED <<dbVars, split, pending, childVars, runs>>
  PROVE  IInv'
PROOF
<1>0. Shaped /\ Places /\ Named /\ Full /\ Growth /\ Tables /\ Given
  BY DEF IInv
<1>1. UNCHANGED <<orders, serial, splits, children, made, split, pending, ids, step, sending, runs>>
  BY DEF dbVars, childVars
<1>2. split = 1 /\ pending = 0 /\ ids = <<>> /\ 1 <= Len(orders) /\ DOMAIN ids = {}
  BY <1>0, SplitFacts DEF Places
<1>3. Shaped'
  <2>1. at' \in Resting \union Busy /\ at # "new"
    BY DEF Resting, Busy
  <2>2. blind' \subseteq BlindSpots
    OBVIOUS
  <2> QED
    BY <1>0, <1>1, <2>1, <2>2 DEF Shaped, TypeOK, ChildRow
<1>4. Places'
  BY <1>1, <1>2 DEF Places
<1>5. Named'
  BY <1>0, <1>1, <1>2 DEF Named
<1>6. Fresh'
  BY <1>1, <1>2 DEF Fresh
<1>7. Size(1) \in Nat /\ Size(1)' = Size(1) /\ Rest' = Rest /\ Rest \in Int
  BY <1>0, <1>1, SplitFacts, RowsIsTotal DEF Size, Rest, Rows
<1>8. Full'
  <2>1. splitRows' <= Size(split)
    BY <1>2, <1>7
  <2>2. \A n : Size(n)' = Size(n)
    BY <1>1 DEF Size
  <2>3. "cut" \notin blind' => "cut" \notin blind
    OBVIOUS
  <2> QED
    BY <1>0, <1>1, <2>1, <2>2, <2>3 DEF Full
<1>9. Growth'
  <2> SUFFICES ASSUME Quiet' PROVE Growth'
    BY DEF Growth
  <2>1. Quiet /\ splitRows' = Size(1) /\ blind' = blind
    BY DEF Quiet
  <2>2. /\ Size(1) <= Target /\ (Rest > 0 => Size(1) >= Cap)
        /\ Rest <= (runs - 1) * (Target - Size(1)) /\ Rest <= runs * (Target - Size(1))
    BY <1>0, <2>1 DEF Growth
  <2>3. Target \in Nat /\ runs \in Nat /\ runs > 0 /\ at' \in {"ok", "filling"}
    BY <1>0, CityAssumption DEF Shaped, TypeOK
  <2> DEFINE x == Target - Size(1)
  <2>4. x \in Nat /\ left' = x
    BY <1>7, <2>1, <2>2, <2>3
  <2>5. Rest + x <= runs * x
    <3>1. Rest <= (runs - 1) * x
      BY <2>2
    <3> HIDE DEF x
    <3>2. (runs - 1) * x + x = runs * x /\ (runs - 1) * x \in Nat
      <4>1. runs - 1 \in Nat /\ runs - 1 + 1 = runs
        BY <2>3
      <4> QED
        BY <2>4, <4>1, Products
    <3> QED
      BY <1>7, <2>4, <3>1, <3>2
  <2>6. Rest + pending' + left' <= runs * x /\ Size(1) + pending' + left' <= Target
    <3>1. Size(1) + x = Target
      BY <1>7, <2>3
    <3> HIDE DEF x
    <3> QED
      BY <1>1, <1>2, <1>7, <2>4, <2>5, <3>1
  <2> QED
    BY <1>1, <1>7, <2>1, <2>2, <2>3, <2>6 DEF Growth
<1>10. Tables'
  <2> SUFFICES ASSUME faults' = 0 PROVE Tables'
    BY DEF Tables
  <2>1. \A k \in 1..3 : split <= splits[Child[k]]
    <3>1. \A k \in 1..3 : splits[Child[k]] \in DOMAIN orders
      BY <1>0, ChildFacts DEF Shaped, TypeOK
    <3>2. \A k \in 1..3 : splits[Child[k]] \in 1..Len(orders)
      BY <1>0, <3>1, SplitFacts
    <3> QED
      BY <1>2, <3>2
  <2>2. at' \in {"ok", "filling"}
    OBVIOUS
  <2> QED
    BY <1>1, <2>1, <2>2 DEF Tables
<1>11. Given'
  <2> SUFFICES ASSUME faults' = 0 PROVE Given'
    BY DEF Given
  <2>1. faults = 0
    OBVIOUS
  <2> QED
    BY <1>0, <1>1, <1>2, <2>1 DEF Given, Has, Waits
<1> QED
  BY <1>3, <1>4, <1>5, <1>6, <1>8, <1>9, <1>10, <1>11 DEF IInv

LEMMA CountSplit1Keeps ==
  ASSUME IInv, CountSplit1
  PROVE  IInv'
PROOF
<1>0. Shaped
  BY DEF IInv
<1>1. /\ at = "counting" /\ splitRows' = Size(1)
      /\ left' = IF splitRows' < Target THEN Target - splitRows' ELSE 0
      /\ at' = IF left' = 0 THEN "ok" ELSE "filling"
      /\ UNCHANGED <<dbVars, split, pending, childVars, runs, faults, blind>>
  BY DEF CountSplit1, Size, history
<1>2. splitRows' \in Nat /\ left' \in 0..Target
  BY <1>0, <1>1, SplitFacts, CityAssumption
<1>3. faults' \in 0..MaxFaults /\ blind' \in SUBSET BlindSpots /\ blind \subseteq blind'
  BY <1>0, <1>1 DEF Shaped, TypeOK
<1> QED
  BY <1>1, <1>2, <1>3, CountKeeps

LEMMA CountFailsKeeps ==
  ASSUME IInv, CountFails
  PROVE  IInv'
PROOF
<1>0. Shaped /\ Places
  BY DEF IInv
<1>1. /\ at = "counting" /\ faults' = faults + 1 /\ faults < MaxFaults
      /\ blind' = blind \union {"misread"} /\ left' = Target /\ splitRows' = splitRows
      /\ at' = IF Target = 0 THEN "ok" ELSE "filling"
      /\ UNCHANGED <<dbVars, split, pending, childVars, runs>>
  BY DEF CountFails, Fault
<1>2. splitRows' = 0 /\ Target \in Nat
  BY <1>0, <1>1, CityAssumption DEF Places
<1>3. faults' \in 0..MaxFaults /\ faults' # 0 /\ left' \in 0..Target
  BY <1>0, <1>1, <1>2, CityAssumption DEF Shaped, TypeOK
<1>4. blind' \in SUBSET BlindSpots /\ blind \subseteq blind'
  BY <1>0, <1>1 DEF Shaped, TypeOK, BlindSpots
<1>5. left' = IF splitRows' < Target THEN Target - splitRows' ELSE 0
  BY <1>1, <1>2
<1> QED
  BY <1>1, <1>2, <1>3, <1>4, <1>5, CountKeeps

-----------------------------------------------------------------------------
(* Orders *)

LEMMA MakeRowKeeps ==
  ASSUME IInv, MakeRow
  PROVE  IInv'
PROOF
<1>0. Shaped /\ Places /\ Named /\ Fresh /\ Full /\ Growth /\ Tables /\ Given
  BY DEF IInv
<1>1. /\ at = "filling" /\ left > 0 /\ splitRows < Cap /\ ~FlushDue
      /\ pending' = pending + 1 /\ left' = left - 1
      /\ UNCHANGED <<orders, serial, splits, children, made, at, split, splitRows, ids, step, sending,
                     runs, faults, blind>>
  <2>1. splitRows \in Nat /\ Cap \in Nat
    BY <1>0, CityAssumption DEF Shaped, TypeOK
  <2> QED
    BY <2>1 DEF MakeRow, SplitIsFull, dbVars, childVars, history
<1>2. left \in 0..Target /\ pending \in 0..Batch /\ Target \in Nat /\ Batch \in Nat \ {0}
  BY <1>0, CityAssumption DEF Shaped, TypeOK
<1>3. pending' \in 0..Batch /\ left' \in 0..Target /\ pending' + left' = pending + left
  <2>1. pending < Batch
    BY <1>1, <1>2 DEF FlushDue
  <2> QED
    BY <1>1, <1>2, <2>1
<1>4. Shaped'
  BY <1>0, <1>1, <1>3 DEF Shaped, TypeOK, ChildRow
<1>5. Places'
  <2>1. ~(splitRows >= Cap)
    <3>1. splitRows \in Nat /\ Cap \in Nat
      BY <1>0, CityAssumption DEF Shaped, TypeOK
    <3> QED
      BY <1>1, <3>1
  <2> QED
    BY <1>0, <1>1, <2>1 DEF Places
<1>6. Named'
  BY <1>0, <1>1 DEF Named
<1>7. Fresh' /\ Given'
  BY <1>0, <1>1 DEF Fresh, Given, Has, Waits
<1>8. Full' /\ Tables'
  BY <1>0, <1>1 DEF Full, Size, Tables
<1>9. Growth'
  <2>1. Size(1)' = Size(1) /\ Rest' = Rest /\ Quiet' = Quiet
    BY <1>1 DEF Size, Rest, Rows, Quiet
  <2>2. Size(1) \in Nat /\ Rest \in Int
    BY <1>0, SplitFacts, RowsIsTotal
  <2>3. \A a \in Int : a + pending' + left' = a + pending + left
    <3>1. pending \in Nat /\ left \in Nat /\ pending' = pending + 1 /\ left' = left - 1
      BY <1>1, <1>2
    <3> QED
      BY <3>1
  <2>4. /\ Rest + pending' + left' = Rest + pending + left
        /\ Size(1) + pending' + left' = Size(1) + pending + left
    BY <2>2, <2>3
  <2> QED
    BY <1>0, <1>1, <2>1, <2>4 DEF Growth
<1> QED
  BY <1>4, <1>5, <1>6, <1>7, <1>8, <1>9 DEF IInv

\* Ids are given out, and orders added under new ids only.
Grown ==
  /\ orders' \in Seq(SUBSET Nat) /\ serial' \in Seq(Nat)
  /\ Len(orders') = Len(orders) /\ Len(serial') = Len(orders)
  /\ \A n \in 1..Len(orders) :
       /\ orders'[n] \subseteq 1..serial'[n]
       /\ orders[n] \subseteq orders'[n] /\ serial[n] <= serial'[n]
       /\ n # split => orders'[n] = orders[n] /\ Size(n)' = Size(n)

LEMMA SpendEffects ==
  ASSUME Shaped, split <= Len(orders), UNCHANGED serial \/ SpendIds
  PROVE  /\ serial' \in Seq(Nat) /\ Len(serial') = Len(orders)
         /\ \A n \in 1..Len(orders) : serial[n] <= serial'[n]
         /\ SpendIds => serial'[split] = serial[split] + pending
PROOF
<1>1. /\ split \in 1..Len(orders) /\ serial \in Seq(Nat) /\ Len(serial) = Len(orders)
      /\ pending \in Nat
  BY SplitFacts, CityAssumption DEF Shaped, TypeOK
<1>2. \A n \in 1..Len(orders) : serial[n] \in Nat
  BY SplitFacts
<1>3. CASE UNCHANGED serial
  <2>1. SpendIds => serial'[split] = serial[split] + pending
    BY <1>1 DEF SpendIds
  <2>2. \A n \in 1..Len(orders) : serial[n] <= serial[n]
    BY <1>2
  <2> QED
    BY <1>1, <1>3, <2>1, <2>2
<1>4. CASE SpendIds
  <2>1. serial' = [serial EXCEPT ![split] = serial[split] + pending]
    BY <1>4 DEF SpendIds
  <2>2. serial[split] + pending \in Nat
    BY <1>1, <1>2
  <2>3. /\ serial' \in Seq(Nat) /\ Len(serial') = Len(serial)
        /\ \A n \in 1..Len(serial) :
             serial'[n] = IF n = split THEN serial[split] + pending ELSE serial[n]
    BY <1>1, <2>1, <2>2
  <2>4. ASSUME NEW n \in 1..Len(orders)
        PROVE  serial[n] <= serial'[n]
    <3>1. CASE n = split
      BY <1>1, <1>2, <2>3, <3>1
    <3>2. CASE n # split
      BY <1>1, <1>2, <2>3, <3>2
    <3> QED
      BY <3>1, <3>2
  <2> QED
    BY <1>1, <2>3, <2>4
<1> QED
  BY <1>3, <1>4

LEMMA InsertEffects ==
  ASSUME Shaped, split <= Len(orders), Insert, UNCHANGED split
  PROVE  /\ Grown
         /\ orders'[split] = orders[split] \union NewIds
         /\ serial'[split] = serial[split] + pending
         /\ Size(split)' = Size(split) + pending
         /\ Rows' = Rows + pending
PROOF
<1>1. /\ split \in 1..Len(orders) /\ orders \in Seq(SUBSET Nat) /\ pending \in Nat
      /\ Len(orders) \in Nat
  BY SplitFacts, CityAssumption DEF Shaped, TypeOK
<1>2. /\ serial[split] \in Nat /\ orders[split] \subseteq 1..serial[split]
      /\ IsFiniteSet(orders[split]) /\ Size(split) \in Nat
      /\ \A n \in 1..Len(orders) :
           serial[n] \in Nat /\ orders[n] \subseteq 1..serial[n] /\ Size(n) \in Nat
  BY <1>1, SplitFacts
<1>3. /\ serial' \in Seq(Nat) /\ Len(serial') = Len(orders)
      /\ \A n \in 1..Len(orders) : serial[n] <= serial'[n]
      /\ serial'[split] = serial[split] + pending
  BY <1>1, SpendEffects DEF Insert
<1> DEFINE more == orders[split] \union NewIds
<1>4. more \in SUBSET Nat /\ more \subseteq 1..serial[split] + pending
  BY <1>1, <1>2 DEF NewIds
<1>5. Cardinality(more) = Size(split) + pending
  <2> DEFINE a == serial[split]
  <2>1. a \in Nat /\ orders[split] \subseteq 1..a /\ NewIds = a + 1..a + pending
    BY <1>2 DEF NewIds
  <2>2. IsFiniteSet(NewIds) /\ Cardinality(NewIds) = pending
    <3> DEFINE b == a + 1
               c == a + pending
    <3>1. b \in Int /\ c \in Int /\ NewIds = b..c
      BY <1>1, <2>1
    <3>2. pending = IF b > c THEN 0 ELSE c - b + 1
      BY <1>1, <2>1
    <3> HIDE DEF b, c
    <3> QED
      BY <3>1, <3>2, FS_Interval
  <2>3. orders[split] \intersect NewIds = {}
    BY <1>1, <2>1
  <2>4. Cardinality(more) = Cardinality(orders[split]) + Cardinality(NewIds)
                            - Cardinality(orders[split] \intersect NewIds)
    BY <1>2, <2>2, FS_Union
  <2>5. Cardinality({}) = 0
    BY FS_EmptySet
  <2>6. Cardinality(more) = Size(split) + pending - 0
    BY <2>2, <2>3, <2>4, <2>5 DEF Size
  <2> HIDE DEF more
  <2> QED
    BY <1>1, <1>2, <2>6
<1> HIDE DEF more
<1>6. orders' = [orders EXCEPT ![split] = more]
  BY DEF Insert, more
<1>7. /\ orders' \in Seq(SUBSET Nat) /\ Len(orders') = Len(orders)
      /\ \A n \in 1..Len(orders) : orders'[n] = IF n = split THEN more ELSE orders[n]
  BY <1>1, <1>4, <1>6
<1>8. \A n \in 1..Len(orders) :
        /\ n # split => orders'[n] = orders[n] /\ Size(n)' = Size(n)
        /\ n = split => Size(n)' = Size(n) + pending
  BY <1>5, <1>7 DEF Size
<1>9. Grown
  <2>1. \A n \in 1..Len(orders) :
          orders'[n] \subseteq 1..serial'[n] /\ orders[n] \subseteq orders'[n]
    <3> SUFFICES ASSUME NEW n \in 1..Len(orders)
                 PROVE  orders'[n] \subseteq 1..serial'[n] /\ orders[n] \subseteq orders'[n]
      OBVIOUS
    <3>1. CASE n = split
      <4>1. orders'[n] = more /\ orders[n] \subseteq more
        BY <1>7, <3>1 DEF more
      <4> QED
        BY <1>3, <1>4, <3>1, <4>1
    <3>2. CASE n # split
      <4>1. orders'[n] = orders[n] /\ serial[n] <= serial'[n] /\ serial'[n] \in Nat
        BY <1>1, <1>3, <1>7, <3>2
      <4> QED
        BY <1>2, <4>1
    <3> QED
      BY <3>1, <3>2
  <2> QED
    BY <1>3, <1>7, <1>8, <2>1 DEF Grown
<1>10. Rows' = Rows + pending
  <2> DEFINE n == Len(orders)
             new == orders'
  <2>1. RowsUpTo(new, n) = RowsUpTo(orders, n) + pending
    <3>1. n \in Nat /\ pending \in Nat /\ split \in 1..n
      BY <1>1
    <3>2. \A i \in 1..n : Cardinality(orders[i]) \in Nat
      BY <1>2 DEF Size
    <3>3. \A i \in 1..n : i # split => Cardinality(new[i]) = Cardinality(orders[i])
      BY <1>7
    <3>4. Cardinality(new[split]) = Cardinality(orders[split]) + pending
      BY <1>1, <1>5, <1>7 DEF Size
    <3> HIDE DEF n, new
    <3> QED
      BY <3>1, <3>2, <3>3, <3>4, RowsUpToGrow
  <2> QED
    BY <1>7, <2>1 DEF Rows
<1>11. orders'[split] = orders[split] \union NewIds
  BY <1>1, <1>7 DEF more
<1>12. Size(split)' = Cardinality(orders'[split])
  BY DEF Size
<1>13. Size(split)' = Size(split) + pending
  BY <1>1, <1>5, <1>7, <1>12
<1> QED
  BY <1>3, <1>9, <1>10, <1>11, <1>13

LEMMA InsertMade ==
  ASSUME Shaped, at # "new", split <= Len(orders), Insert, UNCHANGED runs,
         DOMAIN orders' = DOMAIN orders
  PROVE  made' \subseteq (DOMAIN orders') \X (Nat \ {0}) \X (1..runs')
PROOF
<1>1. split \in DOMAIN orders /\ serial[split] \in Nat
  BY SplitFacts
<1>2. runs \in 1..runs /\ pending \in Nat
  BY CityAssumption DEF Shaped, TypeOK
<1>3. NewIds \subseteq Nat \ {0}
  BY <1>1, <1>2 DEF NewIds
<1>4. made \subseteq (DOMAIN orders) \X (Nat \ {0}) \X (1..runs)
  BY DEF Shaped, TypeOK
<1>5. made' = made \union ({split} \X NewIds \X {runs})
  BY DEF Insert
<1> QED
  BY <1>1, <1>2, <1>3, <1>4, <1>5

LEMMA RollBackEffects ==
  ASSUME Shaped, split <= Len(orders), UNCHANGED <<orders, split>>,
         UNCHANGED serial \/ SpendIds
  PROVE  Grown /\ Size(split)' = Size(split)
PROOF
<1>1. /\ serial' \in Seq(Nat) /\ Len(serial') = Len(orders)
      /\ \A n \in 1..Len(orders) : serial[n] <= serial'[n]
  BY SpendEffects
<1>2. \A n \in 1..Len(orders) : serial[n] \in Nat /\ orders[n] \subseteq 1..serial[n]
  BY SplitFacts
<1>3. \A n \in 1..Len(orders) : orders[n] \subseteq 1..serial'[n]
  <2>1. \A n \in 1..Len(orders) : serial'[n] \in Nat
    BY <1>1
  <2> QED
    BY <1>1, <1>2, <2>1
<1>4. orders \in Seq(SUBSET Nat)
  BY DEF Shaped
<1> QED
  BY <1>1, <1>3, <1>4 DEF Grown, Size

\* Ids given out change nothing about what is known of the earlier ones.
LEMMA GrownKeepsNames ==
  ASSUME IInv, Grown, blind \subseteq blind', UNCHANGED children
  PROVE  /\ \A k \in 1..3 : \A c \in DOMAIN children'[Child[k]] :
              /\ c.of <= c.in /\ c.id <= serial'[c.of]
              /\ "cut" \in blind' \/ c.id \in orders'[c.of]
              /\ "readback" \in blind' \/ children'[Child[k]][c] = 1
         /\ \A i \in DOMAIN ids :
              /\ ids[i].of \in 1..Len(orders) /\ ids[i].id \in Nat \ {0}
              /\ ids[i].of <= split /\ ids[i].id <= serial[ids[i].of]
              /\ ids[i].id <= serial'[ids[i].of]
              /\ "cut" \in blind' \/ ids[i].id \in orders'[ids[i].of]
PROOF
<1>0. Shaped /\ Named
  BY DEF IInv
<1>1. /\ DOMAIN orders = 1..Len(orders)
      /\ \A n \in 1..Len(orders) : serial[n] \in Nat /\ serial'[n] \in Nat
  BY <1>0, SplitFacts DEF Grown
<1>2. /\ \A k \in 1..3 : \A c \in DOMAIN children[Child[k]] :
           c.of \in 1..Len(orders) /\ c.id \in Nat
      /\ \A i \in DOMAIN ids : ids[i].of \in 1..Len(orders) /\ ids[i].id \in Nat \ {0}
  <2>1. \A k \in 1..3 : DOMAIN children[Child[k]] \subseteq ChildRow
    BY <1>0, ChildFacts DEF Shaped, TypeOK
  <2>2. ids \in Seq([of : DOMAIN orders, id : Nat \ {0}])
    BY <1>0 DEF Shaped, TypeOK
  <2>3. \A i \in DOMAIN ids : ids[i] \in [of : DOMAIN orders, id : Nat \ {0}]
    <3> DEFINE S == [of : DOMAIN orders, id : Nat \ {0}]
    <3>1. ids \in Seq(S)
      BY <2>2
    <3> HIDE DEF S
    <3>2. \A i \in DOMAIN ids : ids[i] \in S
      BY <3>1
    <3> QED
      BY <3>2 DEF S
  <2> QED
    BY <1>1, <2>1, <2>3 DEF ChildRow
<1>3. \A n \in 1..Len(orders) : orders[n] \subseteq orders'[n] /\ serial[n] <= serial'[n]
  BY DEF Grown
<1>4. ASSUME NEW k \in 1..3, NEW c \in DOMAIN children[Child[k]]
      PROVE  /\ c.of <= c.in /\ c.id <= serial'[c.of]
             /\ "cut" \in blind' \/ c.id \in orders'[c.of]
             /\ "readback" \in blind' \/ children[Child[k]][c] = 1
  <2>1. /\ c.of <= c.in /\ c.id <= serial[c.of]
        /\ "cut" \in blind \/ c.id \in orders[c.of]
        /\ "readback" \in blind \/ children[Child[k]][c] = 1
    BY <1>0 DEF Named
  <2>2. c.of \in 1..Len(orders) /\ c.id \in Nat
    BY <1>2
  <2>3. c.id <= serial'[c.of]
    BY <1>1, <1>3, <2>1, <2>2
  <2> QED
    BY <1>3, <2>1, <2>2, <2>3
<1>5. ASSUME NEW i \in DOMAIN ids
      PROVE  /\ ids[i].of <= split /\ ids[i].id <= serial[ids[i].of]
             /\ ids[i].id <= serial'[ids[i].of]
             /\ "cut" \in blind' \/ ids[i].id \in orders'[ids[i].of]
  <2>1. /\ ids[i].of <= split /\ ids[i].id <= serial[ids[i].of]
        /\ "cut" \in blind \/ ids[i].id \in orders[ids[i].of]
    BY <1>0 DEF Named
  <2>2. ids[i].of \in 1..Len(orders) /\ ids[i].id \in Nat
    BY <1>2
  <2>3. ids[i].id <= serial'[ids[i].of]
    BY <1>1, <1>3, <2>1, <2>2
  <2> QED
    BY <1>3, <2>1, <2>2, <2>3
<1> QED
  BY <1>2, <1>4, <1>5

\* The types of the tables after ids were given out.
LEMMA GrownKeepsTypes ==
  ASSUME Shaped, Grown, UNCHANGED <<splits, children, runs>>
  PROVE  /\ DOMAIN orders' = DOMAIN orders /\ DOMAIN serial' = DOMAIN orders'
         /\ Len(orders') = Len(orders) /\ Len(serial') = Len(orders') /\ Len(orders') > 0
         /\ orders' \in Seq(SUBSET Nat) /\ serial' \in Seq(Nat)
         /\ \A n \in DOMAIN orders' : orders'[n] \subseteq 1..serial'[n]
         /\ \A k \in Range(Child) : /\ splits'[k] \in DOMAIN orders'
                                    /\ DOMAIN children'[k] \subseteq ChildRow'
         /\ DOMAIN splits' = Range(Child) /\ DOMAIN children' = Range(Child)
PROOF
<1>1. /\ orders' \in Seq(SUBSET Nat) /\ serial' \in Seq(Nat)
      /\ Len(orders') = Len(orders) /\ Len(serial') = Len(orders) /\ Len(orders) > 0
      /\ \A n \in 1..Len(orders) : orders'[n] \subseteq 1..serial'[n]
  BY DEF Grown, Shaped
<1>2. DOMAIN orders' = 1..Len(orders) /\ DOMAIN orders = 1..Len(orders)
      /\ DOMAIN serial' = 1..Len(orders)
  BY <1>1, SplitFacts
<1>3. ChildRow' = ChildRow
  BY <1>2 DEF ChildRow
<1> QED
  BY <1>1, <1>2, <1>3 DEF Shaped, TypeOK

\* What an INSERT of all pending orders does to the room that split 1 has left.
LEMMA InsertGrowth ==
  ASSUME IInv, at \in {"filling", "again"}, pending > 0, Quiet, Insert, UNCHANGED split
  PROVE  /\ Size(1)' <= Target /\ (Rest' > 0 => Size(1)' >= Cap)
         /\ Rest' + left <= runs * (Target - Size(1)')
         /\ Rest' <= runs * (Target - Size(1)')
         /\ split = 1 => Size(1)' = splitRows + pending /\ Size(1)' + left <= Target
         /\ Rest' \in Int /\ Size(1)' \in Nat
PROOF
<1>0. Shaped /\ Places /\ Full /\ Growth
  BY DEF IInv
<1>1. /\ split \in 1..Len(orders) /\ 1 \in 1..Len(orders) /\ Len(orders) \in Nat
      /\ Size(1) \in Nat /\ Rest \in Int /\ Rows \in Nat
      /\ pending \in Nat /\ left \in Nat /\ splitRows \in Nat /\ splitRows < Cap
      /\ Target \in Nat /\ Cap \in Nat /\ runs \in Nat /\ runs > 0
  <2>1. splitRows \in Nat /\ pending \in Nat /\ left \in Nat /\ runs \in Nat /\ runs > 0
    BY <1>0, CityAssumption DEF Shaped, TypeOK
  <2>2. split <= Len(orders) /\ ~(splitRows >= Cap)
    BY <1>0, <2>1 DEF Places
  <2> QED
    BY <1>0, <2>1, <2>2, SplitFacts, RowsIsTotal, CityAssumption
<1>2. /\ Grown /\ Size(split)' = Size(split) + pending /\ Rows' = Rows + pending
  BY <1>0, <1>1, InsertEffects
<1>3. /\ Size(1) <= Target /\ (Rest > 0 => Size(1) >= Cap)
      /\ Rest + pending + left <= runs * (Target - Size(1))
      /\ split = 1 => splitRows = Size(1) /\ Size(1) + pending + left <= Target
  BY <1>0 DEF Growth
<1> DEFINE rest == Rest
           more == Rest'
           size == Size(1)
           next == Size(1)'
<1>4. rest = Rows - size /\ more = Rows' - next
  BY DEF Rest
<1>5. CASE split = 1
  <2>1. next = size + pending
    BY <1>2, <1>5
  <2>2. more = rest
    BY <1>1, <1>2, <1>4, <2>1
  <2>3. size < Cap /\ rest <= 0 /\ size = splitRows /\ size + pending + left <= Target
    BY <1>1, <1>3, <1>5
  <2> DEFINE x == Target - next
  <2>4. x \in Nat /\ left <= x /\ next <= Target /\ next + left <= Target /\ next \in Nat
    BY <1>1, <2>1, <2>3
  <2>5. left <= runs * x
    <3> HIDE DEF x
    <3>1. x <= runs * x /\ runs * x \in Nat
      BY <1>1, <2>4, Products
    <3> QED
      BY <1>1, <2>4, <3>1
  <2>6. rest + left <= runs * x /\ rest <= runs * x
    <3>1. runs * x \in Nat
      <4> HIDE DEF x
      <4> QED
        BY <1>1, <2>4, Products
    <3> HIDE DEF x, rest, size
    <3> QED
      BY <1>1, <2>3, <2>5, <3>1 DEF rest
  <2>7. more \in Int /\ ~(more > 0)
    BY <1>1, <2>2, <2>3
  <2>8. next = splitRows + pending
    BY <2>1, <2>3
  <2> HIDE DEF rest, size
  <2> QED
    BY <2>2, <2>4, <2>6, <2>7, <2>8
<1>6. CASE split # 1
  <2>1. next = size
    BY <1>1, <1>2, <1>6 DEF Grown
  <2>2. more = rest + pending
    BY <1>1, <1>2, <1>4, <2>1
  <2>3. size >= Cap
    <3>1. 1 < Len(orders) /\ "cut" \notin blind
      BY <1>1, <1>6 DEF Quiet
    <3> QED
      BY <1>0, <1>1, <3>1 DEF Full
  <2>4. more + left <= runs * (Target - next) /\ more <= runs * (Target - next) /\ more \in Int
    <3> DEFINE bound == runs * (Target - size)
    <3>1. bound \in Int
      <4>1. Target - size \in Nat
        BY <1>1, <1>3
      <4> HIDE DEF size
      <4> QED
        BY <1>1, <4>1, Products
    <3>2. rest + pending + left <= bound
      BY <1>3
    <3> HIDE DEF bound, rest, size, more
    <3>3. rest \in Int
      BY <1>1 DEF rest
    <3>4. more + left <= bound /\ more <= bound /\ more \in Int
      BY <1>1, <2>2, <3>1, <3>2, <3>3
    <3> QED
      BY <2>1, <3>4 DEF bound
  <2> QED
    BY <1>1, <1>3, <1>6, <2>1, <2>3, <2>4
<1> QED
  BY <1>5, <1>6

\* The list of ids after n more have come back.
LEMMA MoreIds ==
  ASSUME IInv, NEW n \in Nat, ids' = ids \o Returned(n),
         split \in 1..Len(orders)
  PROVE  /\ ids' \in Seq([of : DOMAIN orders, id : Nat \ {0}])
         /\ DOMAIN ids \subseteq DOMAIN ids'
         /\ \A i \in DOMAIN ids : ids'[i] = ids[i]
         /\ \A i \in DOMAIN ids' : i \notin DOMAIN ids =>
              /\ ids'[i].of = split
              /\ ids'[i].id \in serial[split] + 1 .. serial[split] + n
         /\ \A j \in 1..n : \E i \in DOMAIN ids' :
              ids'[i] = [of |-> split, id |-> serial[split] + j]
         /\ "readback" \notin blind =>
              \A i, j \in DOMAIN ids' : ids'[i] = ids'[j] => i = j
PROOF
<1> DEFINE S == [of : DOMAIN orders, id : Nat \ {0}]
           m == Len(ids)
           a == serial[split]
           new == Returned(n)
<1>0. Shaped /\ Named
  BY DEF IInv
<1>1. /\ ids \in Seq(S) /\ m \in Nat /\ DOMAIN ids = 1..m /\ a \in Nat
      /\ DOMAIN orders = 1..Len(orders)
  <2>1. ids \in Seq(S)
    BY <1>0 DEF Shaped, TypeOK
  <2>2. a \in Nat /\ DOMAIN orders = 1..Len(orders)
    BY <1>0, SplitFacts
  <2> HIDE DEF S, a
  <2>3. m \in Nat /\ DOMAIN ids = 1..m
    BY <2>1
  <2> QED
    BY <2>1, <2>2, <2>3
<1>2. new = [i \in 1..n |-> [of |-> split, id |-> a + i]]
  BY DEF Returned
<1>3. new \in Seq(S) /\ Len(new) = n /\ \A i \in 1..n : new[i] = [of |-> split, id |-> a + i]
  <2>1. \A i \in 1..n : [of |-> split, id |-> a + i] \in S
    BY <1>1
  <2> HIDE DEF S, a
  <2> QED
    BY <1>2, <2>1
<1>3a. \A i \in 1..n : new[i].of = split /\ new[i].id = a + i
  <2> HIDE DEF new, a, S
  <2> QED
    BY <1>3
<1> HIDE DEF S, new, a
<1>4. /\ ids' \in Seq(S) /\ Len(ids') = m + n
      /\ \A i \in 1..m + n : ids'[i] = IF i <= m THEN ids[i] ELSE new[i - m]
  <2>1. ids' = ids \o new
    BY DEF new
  <2>2. ids' \in Seq(S) /\ Len(ids') = Len(ids) + Len(new)
    <3>1. ids \in Seq(S) /\ new \in Seq(S)
      BY <1>1, <1>3
    <3>2. ids \o new \in Seq(S) /\ Len(ids \o new) = Len(ids) + Len(new)
      BY <3>1, ConcatProperties
    <3> QED
      BY <2>1, <3>2
  <2>3. \A i \in 1..Len(ids) + Len(new) :
          ids'[i] = IF i <= Len(ids) THEN ids[i] ELSE new[i - Len(ids)]
    BY <1>1, <1>3, <2>1, ConcatProperties
  <2> QED
    BY <1>3, <2>2, <2>3
<1>5. DOMAIN ids' = 1..m + n
  BY <1>4
<1> HIDE DEF m
<1>6. \A i \in 1..m : i \in 1..m + n /\ ids'[i] = ids[i]
  BY <1>1, <1>4
<1>7. ASSUME NEW i \in 1..m + n, i \notin 1..m
      PROVE  i - m \in 1..n /\ ids'[i].of = split /\ ids'[i].id = a + (i - m)
  <2>1. i - m \in 1..n /\ ~(i <= m)
    BY <1>1, <1>7
  <2>2. ids'[i] = new[i - m]
    BY <1>4, <2>1
  <2> QED
    BY <1>3a, <2>1, <2>2
<1>8. \A j \in 1..n : m + j \in 1..m + n /\ ids'[m + j] = [of |-> split, id |-> a + j]
  <2> SUFFICES ASSUME NEW j \in 1..n
               PROVE  m + j \in 1..m + n /\ ids'[m + j] = [of |-> split, id |-> a + j]
    OBVIOUS
  <2> DEFINE l == m + j
  <2>1. l \in 1..m + n /\ ~(l <= m) /\ l - m = j
    BY <1>1
  <2> HIDE DEF l
  <2>2. ids'[l] = new[j]
    BY <1>4, <2>1
  <2> QED
    BY <1>3, <2>1, <2>2 DEF l
<1>9. ASSUME "readback" \notin blind, NEW i \in 1..m + n, NEW j \in 1..m + n, ids'[i] = ids'[j]
      PROVE  i = j
  <2>1. \A l \in 1..m : ids[l].of = split => ids[l].id <= a
    BY <1>0, <1>1 DEF Named, a
  <2>2. \A l \in 1..m : ids[l].id \in Nat
    <3>1. \A l \in 1..m : ids[l] \in S
      BY <1>1
    <3> QED
      BY <3>1 DEF S
  <2>3. ASSUME NEW l \in 1..m, NEW r \in 1..m + n, r \notin 1..m PROVE ids'[l] # ids'[r]
    <3>1. ids'[r].of = split /\ ids'[r].id = a + (r - m) /\ r - m \in 1..n
      BY <1>7, <2>3
    <3>2. ids'[l] = ids[l] /\ ids[l].id \in Nat
      BY <1>6, <2>2
    <3>3. ids[l].of = split => ids[l].id # ids'[r].id
      BY <1>1, <2>1, <3>1, <3>2
    <3> QED
      BY <3>1, <3>2, <3>3
  <2>4. CASE i \in 1..m /\ j \in 1..m
    BY <1>0, <1>1, <1>6, <1>9, <2>4 DEF Named
  <2>5. CASE i \notin 1..m /\ j \notin 1..m
    <3>1. ids'[i].id = a + (i - m) /\ ids'[j].id = a + (j - m)
      BY <1>7, <2>5
    <3>2. a + (i - m) = a + (j - m)
      BY <1>9, <3>1
    <3> QED
      BY <1>1, <3>2
  <2> QED
    BY <1>9, <2>3, <2>4, <2>5
<1>10. ids' \in Seq([of : DOMAIN orders, id : Nat \ {0}])
  BY <1>4 DEF S
<1>11. \A i \in DOMAIN ids' : i \notin DOMAIN ids =>
         /\ ids'[i].of = split
         /\ ids'[i].id \in a + 1 .. a + n
  <2> SUFFICES ASSUME NEW i \in 1..m + n, i \notin 1..m
               PROVE  ids'[i].of = split /\ ids'[i].id \in a + 1 .. a + n
    BY <1>1, <1>5
  <2>1. i - m \in 1..n /\ ids'[i].of = split /\ ids'[i].id = a + (i - m)
    BY <1>7
  <2> DEFINE d == i - m
  <2>2. d \in 1..n /\ ids'[i].id = a + d
    BY <2>1
  <2> HIDE DEF d
  <2> QED
    BY <1>1, <2>1, <2>2
<1> QED
  BY <1>1, <1>5, <1>6, <1>8, <1>9, <1>10, <1>11 DEF a

\* A flush that the run takes for done, and of which n ids came back.
LEMMA FlushKeeps ==
  ASSUME IInv, NEW n \in 0..pending, at \in {"filling", "again"}, pending > 0,
         Insert \/ (UNCHANGED <<orders, made>> /\ SpendIds /\ "cut" \in blind'),
         ids' = ids \o Returned(n), Counted, at' = "filling",
         blind \subseteq blind', blind' \in SUBSET BlindSpots, faults' \in 0..MaxFaults,
         faults' = 0 => Insert /\ n = pending /\ at = "filling" /\ faults = 0,
         UNCHANGED <<splits, children, split, left, step, sending, runs>>
  PROVE  IInv'
PROOF
<1>0. Shaped /\ Places /\ Named /\ Fresh /\ Full /\ Growth /\ Tables /\ Given
  BY DEF IInv
<1>1. /\ splitRows' = splitRows + pending /\ pending' = 0
      /\ splitRows \in Nat /\ pending \in Nat \ {0} /\ n \in Nat /\ n <= pending
      /\ Batch \in Nat /\ split <= Len(orders) /\ Len(orders) \in Nat /\ left \in Nat
  BY <1>0, SplitFacts, CityAssumption DEF Counted, Shaped, TypeOK, Places
<1>2. /\ split \in 1..Len(orders) /\ serial[split] \in Nat
      /\ \A l \in 1..Len(orders) : serial[l] \in Nat
  BY <1>0, <1>1, SplitFacts
<1>3. /\ Grown /\ serial'[split] = serial[split] + pending
      /\ Size(split)' >= Size(split)
      /\ Insert => /\ orders'[split] = orders[split] \union NewIds
                   /\ Size(split)' = Size(split) + pending
  <2>1. CASE Insert
    <3>1. /\ Grown /\ serial'[split] = serial[split] + pending
          /\ orders'[split] = orders[split] \union NewIds
          /\ Size(split)' = Size(split) + pending
      BY <1>0, <1>1, <2>1, InsertEffects
    <3>2. Size(split) \in Nat
      BY <1>0, <1>2, SplitFacts
    <3> QED
      BY <1>1, <3>1, <3>2
  <2>2. CASE UNCHANGED <<orders, made>> /\ SpendIds
    <3>1. Grown /\ Size(split)' = Size(split)
      BY <1>0, <1>1, <2>2, RollBackEffects
    <3>2. serial'[split] = serial[split] + pending
      BY <1>0, <1>1, <2>2, SpendEffects
    <3>3. Size(split) \in Nat
      BY <1>0, <1>2, SplitFacts
    <3>4. Insert => orders'[split] = orders[split] \union NewIds
                    /\ Size(split)' = Size(split) + pending
      BY <1>0, <1>1, InsertEffects
    <3> QED
      BY <3>1, <3>2, <3>3, <3>4
  <2> QED
    BY <2>1, <2>2
<1>4. /\ ids' \in Seq([of : DOMAIN orders, id : Nat \ {0}])
      /\ DOMAIN ids \subseteq DOMAIN ids'
      /\ \A i \in DOMAIN ids : ids'[i] = ids[i]
      /\ \A i \in DOMAIN ids' : i \notin DOMAIN ids =>
           ids'[i].of = split /\ ids'[i].id \in serial[split] + 1 .. serial[split] + n
      /\ \A j \in 1..n : \E i \in DOMAIN ids' :
           ids'[i] = [of |-> split, id |-> serial[split] + j]
      /\ "readback" \notin blind =>
           \A i, j \in DOMAIN ids' : ids'[i] = ids'[j] => i = j
  BY <1>1, <1>2, MoreIds
<1>4a. \A i \in serial[split] + 1 .. serial[split] + n :
         i \in serial[split] + 1 .. serial[split] + pending /\ ~(i <= serial[split])
  <2> DEFINE a == serial[split]
  <2>1. a \in Nat
    BY <1>2
  <2> HIDE DEF a
  <2>2. \A i \in a + 1 .. a + n : i \in a + 1 .. a + pending /\ ~(i <= a)
    BY <1>1, <2>1
  <2> QED
    BY <2>2 DEF a
<1>5. Shaped'
  <2>1. /\ DOMAIN orders' = DOMAIN orders /\ DOMAIN serial' = DOMAIN orders'
        /\ Len(orders') = Len(orders) /\ Len(serial') = Len(orders') /\ Len(orders') > 0
        /\ orders' \in Seq(SUBSET Nat) /\ serial' \in Seq(Nat)
        /\ \A l \in DOMAIN orders' : orders'[l] \subseteq 1..serial'[l]
        /\ \A k \in Range(Child) : /\ splits'[k] \in DOMAIN orders'
                                   /\ DOMAIN children'[k] \subseteq ChildRow'
        /\ DOMAIN splits' = Range(Child) /\ DOMAIN children' = Range(Child)
    BY <1>0, <1>3, GrownKeepsTypes
  <2>2. /\ at' \in Resting \union Busy /\ splitRows' \in Nat /\ pending' \in 0..Batch
        /\ split' \in 1..Len(orders') + 1 /\ runs' > 0
    BY <1>0, <1>1, <2>1 DEF Busy, Shaped, TypeOK
  <2>3. sending' \subseteq DOMAIN ids' /\ blind' \subseteq BlindSpots
    BY <1>0, <1>4 DEF Shaped, TypeOK
  <2>4. ids' \in Seq([of : DOMAIN orders', id : Nat \ {0}])
    BY <1>4, <2>1
  <2>5. /\ left' \in 0..Target /\ step' \in 0..Len(Child) + 1
        /\ runs' \in 0..MaxRuns
    BY <1>0 DEF Shaped, TypeOK
  <2>5a. made' \subseteq (DOMAIN orders') \X (Nat \ {0}) \X (1..runs')
    <3>1. CASE Insert
      BY <1>0, <1>1, <2>1, <3>1, InsertMade
    <3>2. CASE UNCHANGED made
      BY <1>0, <2>1, <3>2 DEF Shaped, TypeOK
    <3> QED
      BY <3>1, <3>2
  <2>6. TypeOK'
    BY <2>1, <2>2, <2>3, <2>4, <2>5, <2>5a DEF TypeOK
  <2> QED
    BY <2>1, <2>2, <2>6 DEF Shaped
<1>6. Places'
  <2>1. split' <= Len(orders')
    BY <1>1, <1>3 DEF Grown
  <2> QED
    BY <1>1, <2>1 DEF Places
<1>7. /\ \A k \in 1..3 : \A c \in DOMAIN children'[Child[k]] :
           /\ c.of <= c.in /\ c.id <= serial'[c.of]
           /\ "cut" \in blind' \/ c.id \in orders'[c.of]
           /\ "readback" \in blind' \/ children'[Child[k]][c] = 1
      /\ \A i \in DOMAIN ids :
           /\ ids[i].of \in 1..Len(orders) /\ ids[i].id \in Nat \ {0}
           /\ ids[i].of <= split /\ ids[i].id <= serial[ids[i].of]
           /\ ids[i].id <= serial'[ids[i].of]
           /\ "cut" \in blind' \/ ids[i].id \in orders'[ids[i].of]
  BY <1>3, GrownKeepsNames
<1>8. Named'
  <2>1. ASSUME NEW i \in DOMAIN ids'
        PROVE  /\ ids'[i].of <= split /\ ids'[i].id <= serial'[ids'[i].of]
               /\ "cut" \in blind' \/ ids'[i].id \in orders'[ids'[i].of]
    <3>1. CASE i \in DOMAIN ids
      BY <1>4, <1>7, <3>1
    <3>2. CASE i \notin DOMAIN ids
      <4>1. ids'[i].of = split /\ ids'[i].id \in serial[split] + 1 .. serial[split] + n
        BY <1>4, <3>2
      <4>2. ids'[i].id \in serial[split] + 1 .. serial[split] + pending
        BY <1>4a, <4>1
      <4>3. "cut" \in blind' \/ ids'[i].id \in orders'[split]
        BY <1>3, <4>2 DEF NewIds
      <4>4. split <= split /\ ids'[i].id <= serial'[split]
        BY <1>1, <1>2, <1>3, <4>2
      <4> QED
        BY <4>1, <4>3, <4>4
    <3> QED
      BY <3>1, <3>2
  <2>2. "readback" \notin blind' => "readback" \notin blind
    OBVIOUS
  <2> QED
    BY <1>4, <1>7, <2>1, <2>2 DEF Named
<1>9. Fresh'
  <2> SUFFICES ASSUME "readback" \notin blind', NEW i \in DOMAIN ids', NEW k \in 1..3,
                      NEW c \in DOMAIN children[Child[k]],
                      c.of = ids'[i].of, c.id = ids'[i].id
               PROVE  FALSE
    BY DEF Fresh, Has
  <2>1. "readback" \notin blind
    OBVIOUS
  <2>2. CASE i \in DOMAIN ids
    <3>1. ~Has(ids[i].of, ids[i].id, k)
      BY <1>0, <2>1, <2>2 DEF Fresh
    <3>2. ids'[i] = ids[i]
      BY <1>4, <2>2
    <3> QED
      BY <3>1, <3>2 DEF Has
  <2>3. CASE i \notin DOMAIN ids
    <3>1. ids'[i].of = split /\ ids'[i].id \in serial[split] + 1 .. serial[split] + n
      BY <1>4, <2>3
    <3>2. c.id <= serial[split]
      BY <1>0, <3>1 DEF Named
    <3> QED
      BY <1>4a, <3>1, <3>2
  <2> QED
    BY <2>2, <2>3
<1>10. Full'
  <2> SUFFICES ASSUME "cut" \notin blind' PROVE Full'
    BY DEF Full
  <2>1. "cut" \notin blind /\ Insert
    OBVIOUS
  <2>2. \A l \in 1..Len(orders) : l < Len(orders) => Size(l)' >= Cap
    <3> SUFFICES ASSUME NEW l \in 1..Len(orders), l < Len(orders) PROVE Size(l)' >= Cap
      OBVIOUS
    <3>1. Size(l) >= Cap /\ Size(l) \in Nat /\ Cap \in Nat
      BY <1>0, <2>1, SplitFacts, CityAssumption DEF Full
    <3>2. CASE l = split
      <4>1. Size(l)' = Size(l) + pending
        BY <1>3, <2>1, <3>2
      <4> QED
        BY <1>1, <3>1, <4>1
    <3>3. CASE l # split
      <4>1. Size(l)' = Size(l)
        BY <1>3, <3>3 DEF Grown
      <4> QED
        BY <3>1, <4>1
    <3> QED
      BY <3>2, <3>3
  <2>3. splitRows' <= Size(split)'
    <3>1. splitRows <= Size(split) /\ Size(split) \in Nat
      BY <1>0, <1>2, <2>1, SplitFacts DEF Full
    <3> QED
      BY <1>1, <1>3, <2>1, <3>1
  <2>4. Len(orders') = Len(orders)
    BY <1>3 DEF Grown
  <2> QED
    BY <2>2, <2>3, <2>4 DEF Full
<1>11. Growth'
  <2> SUFFICES ASSUME Quiet' PROVE Growth'
    BY DEF Growth
  <2>1. Quiet /\ Insert
    BY DEF Quiet
  <2>2. /\ Size(1)' <= Target /\ (Rest' > 0 => Size(1)' >= Cap)
        /\ Rest' + left <= runs * (Target - Size(1)')
        /\ Rest' <= runs * (Target - Size(1)')
        /\ split = 1 => Size(1)' = splitRows + pending /\ Size(1)' + left <= Target
        /\ Rest' \in Int /\ Size(1)' \in Nat
    BY <2>1, InsertGrowth
  <2>3. Rest' + pending' + left' = Rest' + left /\ Size(1)' + pending' + left' = Size(1)' + left
    BY <1>1, <2>2
  <2> QED
    BY <1>1, <2>2, <2>3 DEF Growth
<1>12. Tables'
  BY <1>0 DEF Tables
<1>13. Given'
  <2> SUFFICES ASSUME faults' = 0, NEW l \in 1..Len(orders), NEW k \in 1..2, NEW i \in orders'[l]
               PROVE  (Has(l, i, k) \/ Waits(l, i, k))'
    BY <1>3 DEF Given, Grown
  <2>1. Insert /\ n = pending /\ at = "filling" /\ faults = 0
    OBVIOUS
  <2>2. CASE i \in orders[l]
    <3>1. Has(l, i, k) \/ Waits(l, i, k)
      BY <1>0, <2>1, <2>2 DEF Given
    <3>2. Has(l, i, k) => Has(l, i, k)'
      BY DEF Has
    <3>3. Waits(l, i, k) => Waits(l, i, k)'
      BY <1>4 DEF Waits
    <3> QED
      BY <3>1, <3>2, <3>3
  <2>3. CASE i \notin orders[l]
    <3>1. l = split /\ i \in NewIds
      BY <1>3, <2>1, <2>3 DEF Grown
    <3>2. PICK j \in 1..n : i = serial[split] + j
      <4>1. i \in serial[split] + 1 .. serial[split] + pending
        BY <3>1 DEF NewIds
      <4>2. i - serial[split] \in 1..n /\ i = serial[split] + (i - serial[split])
        BY <1>1, <1>2, <2>1, <4>1
      <4> QED
        BY <4>2
    <3>3. PICK m \in DOMAIN ids' : ids'[m] = [of |-> split, id |-> serial[split] + j]
      BY <1>4
    <3>4. ids'[m].of = l /\ ids'[m].id = i
      BY <3>1, <3>2, <3>3
    <3> QED
      BY <3>4 DEF Waits
  <2> QED
    BY <2>2, <2>3
<1> QED
  BY <1>5, <1>6, <1>8, <1>9, <1>10, <1>11, <1>12, <1>13 DEF IInv

LEMMA FlushOrdersKeeps ==
  ASSUME IInv, FlushOrders
  PROVE  IInv'
PROOF
<1>0. Shaped
  BY DEF IInv
<1>1. /\ at = "filling" /\ pending > 0 /\ Insert /\ ids' = ids \o Returned(pending) /\ Counted
      /\ UNCHANGED <<splits, children, at, split, left, step, sending, runs, faults, blind>>
  BY DEF FlushOrders, FlushDue, history
<1>2. /\ pending \in 0..pending /\ faults' \in 0..MaxFaults
      /\ blind \subseteq blind' /\ blind' \in SUBSET BlindSpots
  BY <1>0, <1>1, CityAssumption DEF Shaped, TypeOK
<1> QED
  BY <1>1, <1>2, FlushKeeps

LEMMA FlushCutKeeps ==
  ASSUME IInv, FlushCut
  PROVE  IInv'
PROOF
<1>0. Shaped
  BY DEF IInv
<1>1. /\ at = "filling" /\ at' = "filling" /\ pending > 0 /\ Counted
      /\ faults < MaxFaults /\ faults' = faults + 1 /\ blind' = blind \union {"cut"}
      /\ Insert \/ (UNCHANGED <<orders, made>> /\ SpendIds)
      /\ UNCHANGED <<splits, children, split, left, step, sending, runs>>
  BY DEF FlushCut, FlushDue, Fault
<1>2. PICK n \in 1..pending : ids' = ids \o Returned(n)
  BY DEF FlushCut
<1>3. /\ n \in 0..pending /\ faults' \in 0..MaxFaults /\ faults' # 0
      /\ blind \subseteq blind' /\ blind' \in SUBSET BlindSpots
  BY <1>0, <1>1, CityAssumption DEF Shaped, TypeOK, BlindSpots
<1> QED
  BY <1>1, <1>2, <1>3, FlushKeeps

LEMMA ExecAgainKeeps ==
  ASSUME IInv, ExecAgain
  PROVE  IInv'
PROOF
<1>0. Shaped /\ Places /\ Tables
  BY DEF IInv
<1>1. /\ at = "again" /\ at' = "filling" /\ Insert /\ Counted
      /\ UNCHANGED <<splits, children, split, left, ids, step, sending, runs, faults, blind>>
  BY DEF ExecAgain, childVars, history
<1>2. pending > 0 /\ faults # 0
  BY <1>0, <1>1 DEF Places, Tables
<1>3. ids' = ids \o Returned(0)
  <2>1. Returned(0) = <<>>
    BY DEF Returned
  <2>2. ids \in Seq([of : DOMAIN orders, id : Nat \ {0}])
    BY <1>0 DEF Shaped, TypeOK
  <2> QED
    BY <1>1, <2>1, <2>2, ConcatEmptySeq
<1>4. /\ 0 \in 0..pending /\ faults' \in 0..MaxFaults
      /\ blind \subseteq blind' /\ blind' \in SUBSET BlindSpots
  BY <1>0, <1>1, CityAssumption DEF Shaped, TypeOK
<1> QED
  BY <1>1, <1>2, <1>3, <1>4, FlushKeeps

\* A flush that the run takes for failed.
LEMMA FlushFailsKeeps ==
  ASSUME IInv, at \in {"filling", "again"}, pending > 0, at' \in {"again", "skipped"},
         \/ Insert /\ (at' = "skipped" \/ "doubled" \in blind')
         \/ RollBack,
         blind \subseteq blind', blind' \in SUBSET BlindSpots,
         faults' \in 1..MaxFaults,
         UNCHANGED <<splits, children, fillVars, childVars, runs>>
  PROVE  IInv'
PROOF
<1>0. Shaped /\ Places /\ Named /\ Fresh /\ Full /\ Growth
  BY DEF IInv
<1>1. /\ UNCHANGED <<splits, children, split, splitRows, left, pending, ids, step, sending, runs>>
      /\ split <= Len(orders) /\ split \in 1..Len(orders) /\ pending \in Nat /\ left \in Nat
      /\ faults' # 0
  BY <1>0, SplitFacts, CityAssumption DEF fillVars, childVars, Places, Shaped, TypeOK
<1>2. \A l \in 1..Len(orders) : Size(l) \in Nat
  BY <1>0, SplitFacts
<1>3. Grown /\ \A l \in 1..Len(orders) : Size(l)' \in Nat /\ Size(l)' >= Size(l)
  <2>1. \A l \in 1..Len(orders) : l = split => Size(l)' = Size(split)'
    BY <1>1 DEF Size
  <2>2. Grown /\ (Size(split)' = Size(split) + pending \/ Size(split)' = Size(split))
    <3>1. CASE Insert
      BY <1>0, <1>1, <3>1, InsertEffects
    <3>2. CASE RollBack
      BY <1>0, <1>1, <3>2, RollBackEffects DEF RollBack
    <3> QED
      BY <3>1, <3>2
  <2>3. ASSUME NEW l \in 1..Len(orders)
        PROVE  Size(l)' \in Nat /\ Size(l)' >= Size(l)
    <3>1. Size(l)' = Size(l) + pending \/ Size(l)' = Size(l)
      BY <2>1, <2>2 DEF Grown
    <3> QED
      BY <1>1, <1>2, <3>1
  <2> QED
    BY <2>2, <2>3
<1>4. Shaped'
  <2>1. /\ DOMAIN orders' = DOMAIN orders /\ DOMAIN serial' = DOMAIN orders'
        /\ Len(orders') = Len(orders) /\ Len(serial') = Len(orders') /\ Len(orders') > 0
        /\ orders' \in Seq(SUBSET Nat) /\ serial' \in Seq(Nat)
        /\ \A l \in DOMAIN orders' : orders'[l] \subseteq 1..serial'[l]
        /\ \A k \in Range(Child) : /\ splits'[k] \in DOMAIN orders'
                                   /\ DOMAIN children'[k] \subseteq ChildRow'
        /\ DOMAIN splits' = Range(Child) /\ DOMAIN children' = Range(Child)
    BY <1>0, <1>1, <1>3, GrownKeepsTypes
  <2>2. at' \in Resting \union Busy /\ faults' \in 0..MaxFaults /\ runs' > 0
    BY <1>0, <1>1, CityAssumption DEF Resting, Busy, Shaped
  <2>3. made' \subseteq (DOMAIN orders') \X (Nat \ {0}) \X (1..runs')
    <3>1. CASE Insert
      BY <1>0, <1>1, <2>1, <3>1, InsertMade
    <3>2. CASE UNCHANGED made
      BY <1>0, <1>1, <2>1, <3>2 DEF Shaped, TypeOK
    <3> QED
      BY <3>1, <3>2 DEF RollBack
  <2> QED
    BY <1>0, <1>1, <2>1, <2>2, <2>3 DEF Shaped, TypeOK
<1>5. Places'
  <2>1. Len(orders') = Len(orders)
    BY <1>3 DEF Grown
  <2> QED
    BY <1>0, <1>1, <2>1 DEF Places
<1>6. Named'
  <2>1. /\ \A k \in 1..3 : \A c \in DOMAIN children'[Child[k]] :
             /\ c.of <= c.in /\ c.id <= serial'[c.of]
             /\ "cut" \in blind' \/ c.id \in orders'[c.of]
             /\ "readback" \in blind' \/ children'[Child[k]][c] = 1
        /\ \A i \in DOMAIN ids :
             /\ ids[i].of <= split /\ ids[i].id <= serial'[ids[i].of]
             /\ "cut" \in blind' \/ ids[i].id \in orders'[ids[i].of]
    BY <1>1, <1>3, GrownKeepsNames
  <2>2. "readback" \notin blind' => \A i, j \in DOMAIN ids : ids[i] = ids[j] => i = j
    BY <1>0 DEF Named
  <2> QED
    BY <1>1, <2>1, <2>2 DEF Named
<1>7. Fresh'
  BY <1>0, <1>1 DEF Fresh, Has
<1>8. Full'
  <2> SUFFICES ASSUME "cut" \notin blind' PROVE Full'
    BY DEF Full
  <2>1. "cut" \notin blind /\ Len(orders') = Len(orders)
    BY <1>3 DEF Grown
  <2>2. \A l \in 1..Len(orders) : l < Len(orders) => Size(l)' >= Cap
    <3>1. Cap \in Nat
      BY CityAssumption
    <3>2. \A l \in 1..Len(orders) : l < Len(orders) => Size(l) >= Cap
      BY <1>0, <2>1 DEF Full
    <3> QED
      BY <1>2, <1>3, <3>1, <3>2
  <2>3. splitRows <= Size(split)'
    <3>1. splitRows <= Size(split) /\ splitRows \in Nat
      BY <1>0, <2>1 DEF Full, Shaped, TypeOK
    <3>2. \A l \in 1..Len(orders) : l = split => Size(l)' = Size(split)'
      BY <1>1 DEF Size
    <3>3. Size(split) \in Nat /\ Size(split)' >= Size(split) /\ Size(split)' \in Nat
      BY <1>1, <1>2, <1>3, <3>2
    <3> QED
      BY <3>1, <3>3
  <2> QED
    BY <1>1, <2>1, <2>2, <2>3 DEF Full
<1>9. Growth'
  <2> SUFFICES ASSUME Quiet' PROVE Growth'
    BY DEF Growth
  <2>1. Quiet /\ "doubled" \notin blind'
    BY DEF Quiet
  <2>2. CASE Insert /\ (at' = "skipped" \/ "doubled" \in blind')
    <3>1. at' = "skipped"
      BY <2>1, <2>2
    <3>2. /\ Size(1)' <= Target /\ (Rest' > 0 => Size(1)' >= Cap)
          /\ Rest' <= runs * (Target - Size(1)')
      BY <1>1, <2>1, <2>2, InsertGrowth
    <3> QED
      BY <1>1, <3>1, <3>2 DEF Growth
  <2>3. CASE RollBack
    <3>1. Size(1)' = Size(1) /\ Rest' = Rest
      BY <2>3 DEF RollBack, Size, Rest, Rows
    <3> QED
      BY <1>0, <1>1, <2>1, <3>1 DEF Growth
  <2> QED
    BY <2>2, <2>3
<1>10. Tables' /\ Given'
  BY <1>1 DEF Tables, Given
<1> QED
  BY <1>4, <1>5, <1>6, <1>7, <1>8, <1>9, <1>10 DEF IInv

LEMMA QueryFailsKeeps ==
  ASSUME IInv, QueryFails
  PROVE  IInv'
PROOF
<1>0. Shaped
  BY DEF IInv
<1>1. /\ at = "filling" /\ at' = "again" /\ pending > 0
      /\ faults < MaxFaults /\ faults' = faults + 1
      /\ \/ blind' = blind /\ RollBack
         \/ blind' = blind \union {"doubled"} /\ Insert
      /\ UNCHANGED <<splits, children, fillVars, childVars, runs>>
  BY DEF QueryFails, FlushDue, Fault
<1>2. faults' \in 1..MaxFaults
  BY <1>0, <1>1, CityAssumption DEF Shaped, TypeOK
<1>3. blind \subseteq blind' /\ blind' \in SUBSET BlindSpots
  <2>1. blind \subseteq BlindSpots /\ "doubled" \in BlindSpots
    BY <1>0 DEF Shaped, TypeOK, BlindSpots
  <2> QED
    BY <1>1, <2>1
<1>4. (Insert /\ "doubled" \in blind') \/ RollBack
  BY <1>1
<1> QED
  BY <1>1, <1>2, <1>3, <1>4, FlushFailsKeeps

LEMMA ExecFailsKeeps ==
  ASSUME IInv, ExecFails
  PROVE  IInv'
PROOF
<1>0. Shaped /\ Places
  BY DEF IInv
<1>1. /\ at = "again" /\ at' = "skipped" /\ faults < MaxFaults /\ faults' = faults + 1
      /\ blind' = blind /\ (RollBack \/ Insert)
      /\ UNCHANGED <<splits, children, fillVars, childVars, runs>>
  BY DEF ExecFails, Fault
<1>2. /\ faults' \in 1..MaxFaults /\ blind \subseteq blind' /\ blind' \in SUBSET BlindSpots
      /\ pending > 0
  BY <1>0, <1>1, CityAssumption DEF Shaped, TypeOK, Places
<1> QED
  BY <1>1, <1>2, FlushFailsKeeps

-----------------------------------------------------------------------------
(* Splits *)

LEMMA NextSplitKeeps ==
  ASSUME IInv, NextSplit
  PROVE  IInv'
PROOF
<1>0. Shaped /\ Places /\ Named /\ Fresh /\ Full /\ Growth /\ Tables /\ Given
  BY DEF IInv
<1>1. /\ at = "filling" /\ at' = "creating" /\ splitRows >= Cap /\ ~FlushDue
      /\ split' = split + 1 /\ splitRows' = 0 /\ step' = 0
      /\ UNCHANGED <<orders, serial, splits, children, made, left, pending, ids, sending,
                     runs, faults, blind>>
  BY DEF NextSplit, SplitIsFull, dbVars, history
<1>2. /\ split \in 1..Len(orders) /\ Len(orders) \in Nat /\ splitRows \in Nat /\ Cap \in Nat
      /\ pending = 0
  BY <1>0, <1>1, SplitFacts, CityAssumption DEF Places, Shaped, TypeOK
<1>3. Shaped'
  <2>1. split' \in 1..Len(orders) + 1 /\ step' \in 0..Len(Child) + 1 /\ at' \in Resting \union Busy
    BY <1>1, <1>2, ChildFacts DEF Busy
  <2>2. at # "new" /\ splitRows' \in Nat
    BY <1>1
  <2> QED
    BY <1>0, <1>1, <2>1, <2>2 DEF Shaped, TypeOK, ChildRow
<1>4. Places'
  BY <1>1, <1>2 DEF Places
<1>5. Named'
  <2>1. \A i \in DOMAIN ids : ids[i].of <= split'
    <3>1. \A i \in DOMAIN ids : ids[i].of \in Nat
      <4> DEFINE S == [of : DOMAIN orders, id : Nat \ {0}]
      <4>1. ids \in Seq(S) /\ \A o \in S : o.of \in 1..Len(orders)
        BY <1>0, SplitFacts DEF Shaped, TypeOK
      <4> HIDE DEF S
      <4>2. \A i \in DOMAIN ids : ids[i] \in S
        BY <4>1
      <4> QED
        BY <1>2, <4>1, <4>2
    <3>2. \A i \in DOMAIN ids : ids[i].of <= split
      BY <1>0 DEF Named
    <3> QED
      BY <1>1, <1>2, <3>1, <3>2
  <2> QED
    BY <1>0, <1>1, <2>1 DEF Named
<1>6. Fresh' /\ Given'
  BY <1>0, <1>1 DEF Fresh, Given, Has, Waits
<1>7. Full'
  <2> SUFFICES ASSUME "cut" \notin blind PROVE Full'
    BY <1>1 DEF Full
  <2>1. ASSUME split' > Len(orders) PROVE Size(Len(orders)) >= Cap
    <3>1. split = Len(orders)
      BY <1>1, <1>2, <2>1
    <3>2. splitRows <= Size(split) /\ Size(split) \in Nat
      BY <1>0, <1>1, <1>2, SplitFacts DEF Full
    <3> QED
      BY <1>1, <1>2, <3>1, <3>2
  <2>2. \A n : Size(n)' = Size(n)
    BY <1>1 DEF Size
  <2> QED
    BY <1>0, <1>1, <2>1, <2>2 DEF Full
<1>8. Growth'
  <2>1. Size(1)' = Size(1) /\ Rest' = Rest /\ Quiet' = Quiet
    BY <1>1 DEF Size, Rest, Rows, Quiet
  <2>2. split' # 1
    BY <1>1, <1>2
  <2> QED
    BY <1>0, <1>1, <2>1, <2>2 DEF Growth
<1>9. Tables'
  BY <1>0, <1>1 DEF Tables
<1> QED
  BY <1>3, <1>4, <1>5, <1>6, <1>7, <1>8, <1>9 DEF IInv

LEMMA MaxFacts ==
  ASSUME NEW a \in Nat, NEW b \in Nat
  PROVE  Max({a, b}) \in {a, b} /\ Max({a, b}) >= a /\ Max({a, b}) >= b
PROOF
<1>1. \E x \in {a, b} : \A y \in {a, b} : x >= y
  OBVIOUS
<1> QED
  BY <1>1 DEF Max

\* An empty split more.
LEMMA AppendEffects ==
  ASSUME Shaped, orders' = Append(orders, {}), serial' = Append(serial, 0)
  PROVE  /\ orders' \in Seq(SUBSET Nat) /\ serial' \in Seq(Nat)
         /\ Len(orders') = Len(orders) + 1 /\ Len(serial') = Len(orders) + 1
         /\ \A n \in 1..Len(orders) : orders'[n] = orders[n] /\ serial'[n] = serial[n]
         /\ orders'[Len(orders) + 1] = {} /\ serial'[Len(orders) + 1] = 0
         /\ Rows' = Rows
PROOF
<1>1. orders \in Seq(SUBSET Nat) /\ serial \in Seq(Nat) /\ Len(serial) = Len(orders)
  BY DEF Shaped
<1>2. {} \in SUBSET Nat
  OBVIOUS
<1>3. /\ orders' \in Seq(SUBSET Nat) /\ Len(orders') = Len(orders) + 1
      /\ (\A n \in 1..Len(orders) : orders'[n] = orders[n]) /\ orders'[Len(orders) + 1] = {}
  BY <1>1, <1>2, AppendProperties
<1>4. /\ serial' \in Seq(Nat) /\ Len(serial') = Len(orders) + 1
      /\ (\A n \in 1..Len(orders) : serial'[n] = serial[n]) /\ serial'[Len(orders) + 1] = 0
  BY <1>1, AppendProperties
<1>5. Rows' = Rows
  <2> DEFINE m == Len(orders)
             new == orders'
  <2>1. m \in Nat /\ \A i \in 1..m : Cardinality(orders[i]) \in Nat
    BY SplitFacts DEF Size
  <2>2. \A i \in 1..m : Cardinality(new[i]) = Cardinality(orders[i])
    BY <1>3
  <2>3. Cardinality(new[m + 1]) = 0
    BY <1>3, FS_EmptySet
  <2>4. Rows = RowsUpTo(orders, m) /\ Rows' = RowsUpTo(new, m + 1)
    BY <1>3 DEF Rows
  <2> HIDE DEF m, new
  <2>5. ASSUME NEW i \in 1..m + 1
        PROVE  Cardinality(new[i]) \in Nat
    <3>1. i \in 1..m \/ i = m + 1
      BY <2>1
    <3>2. CASE i \in 1..m
      BY <2>1, <2>2, <3>2
    <3>3. CASE i = m + 1
      BY <2>3, <3>3
    <3> QED
      BY <3>1, <3>2, <3>3
  <2>6. RowsUpTo(new, m + 1) = RowsUpTo(new, m) + Cardinality(new[m + 1])
    BY <2>1, <2>5, RowsUpToStep
  <2>7. RowsUpTo(new, m) = RowsUpTo(orders, m)
    BY <2>1, <2>2, RowsUpToSame
  <2>8. RowsUpTo(orders, m) \in Nat
    BY <2>1, RowsUpToType
  <2> QED
    BY <2>3, <2>4, <2>6, <2>7, <2>8
<1> QED
  BY <1>3, <1>4, <1>5

LEMMA CreateTableKeeps ==
  ASSUME IInv, CreateTable
  PROVE  IInv'
PROOF
<1>0. Shaped /\ Places /\ Named /\ Fresh /\ Full /\ Growth /\ Tables /\ Given
  BY DEF IInv
<1>1. /\ at = "creating" /\ step' = step + 1
      /\ at' = IF step = 3 THEN "filling" ELSE "creating"
      /\ UNCHANGED <<children, made, split, splitRows, left, pending, ids, sending,
                     runs, faults, blind>>
  BY ChildFacts DEF CreateTable, fillVars, history
<1>2. /\ step \in 0..3 /\ (step > 0 => split <= Len(orders))
      /\ split \in 1..Len(orders) + 1 /\ split > 1 /\ Len(orders) \in Nat \ {0}
      /\ pending = 0 /\ splitRows = 0
  BY <1>0, <1>1, SplitFacts DEF Places
<1>3. /\ step # 0 => UNCHANGED <<orders, serial>>
                     /\ splits' = [splits EXCEPT ![Child[step]] = Max({@, split})]
      /\ step = 0 => /\ UNCHANGED splits
                     /\ IF split > Len(orders)
                        THEN orders' = Append(orders, {}) /\ serial' = Append(serial, 0)
                        ELSE UNCHANGED <<orders, serial>>
  BY DEF CreateTable
<1>4. /\ orders' \in Seq(SUBSET Nat) /\ serial' \in Seq(Nat) /\ Len(serial') = Len(orders')
      /\ Len(orders') \in Nat /\ Len(orders) <= Len(orders') /\ split <= Len(orders')
      /\ \A n \in 1..Len(orders) : orders'[n] = orders[n] /\ serial'[n] = serial[n]
      /\ \A n \in 1..Len(orders') : n \notin 1..Len(orders) =>
           /\ n = Len(orders) + 1 /\ split > Len(orders) /\ orders'[n] = {} /\ serial'[n] = 0
      /\ Rows' = Rows
      /\ Len(orders') > Len(orders) => split > Len(orders) /\ Len(orders') = Len(orders) + 1
  <2>1. CASE step = 0 /\ split > Len(orders)
    <3>1. orders' = Append(orders, {}) /\ serial' = Append(serial, 0)
      BY <1>3, <2>1
    <3> QED
      BY <1>0, <1>2, <2>1, <3>1, AppendEffects
  <2>2. CASE ~(step = 0 /\ split > Len(orders))
    <3>1. UNCHANGED <<orders, serial>> /\ split <= Len(orders)
      BY <1>2, <1>3, <2>2
    <3> QED
      BY <1>0, <1>2, <3>1 DEF Shaped, Rows
  <2> QED
    BY <2>1, <2>2
<1>5. /\ DOMAIN splits' = Range(Child)
      /\ \A k \in 1..3 : splits[Child[k]] \in 1..Len(orders)
      /\ \A k \in 1..3 : /\ splits'[Child[k]] \in 1..Len(orders)
                         /\ splits'[Child[k]] >= splits[Child[k]]
                         /\ k = step => splits'[Child[k]] >= split
  <2>1. DOMAIN splits = Range(Child) /\ \A k \in 1..3 : splits[Child[k]] \in 1..Len(orders)
    <3>1. DOMAIN orders = 1..Len(orders)
      BY <1>0, SplitFacts
    <3>2. DOMAIN splits = Range(Child) /\ \A k \in Range(Child) : splits[k] \in DOMAIN orders
      BY <1>0 DEF Shaped, TypeOK
    <3> QED
      BY <3>1, <3>2, ChildFacts
  <2>2. CASE step = 0
    BY <1>2, <1>3, <2>1, <2>2
  <2>3. CASE step # 0
    <3>1. step \in 1..3 /\ split \in 1..Len(orders) /\ Child[step] \in Range(Child)
      BY <1>2, <2>3, ChildFacts
    <3> DEFINE old == splits[Child[step]]
               max == Max({old, split})
    <3>2. splits' = [splits EXCEPT ![Child[step]] = max]
      BY <1>3, <2>3
    <3>3. max \in 1..Len(orders) /\ max >= old /\ max >= split
      <4>1. old \in 1..Len(orders)
        BY <2>1, <3>1
      <4> HIDE DEF old
      <4>2. max \in {old, split} /\ max >= old /\ max >= split
        BY <1>2, <3>1, <4>1, MaxFacts
      <4> QED
        BY <3>1, <4>1, <4>2
    <3> HIDE DEF max
    <3>4. DOMAIN splits' = Range(Child)
          /\ \A k \in 1..3 : splits'[Child[k]] = IF k = step THEN max ELSE splits[Child[k]]
      BY <2>1, <3>1, <3>2, ChildFacts
    <3>5. ASSUME NEW k \in 1..3
          PROVE  /\ splits'[Child[k]] \in 1..Len(orders)
                 /\ splits'[Child[k]] >= splits[Child[k]]
                 /\ k = step => splits'[Child[k]] >= split
      <4>1. CASE k = step
        BY <3>3, <3>4, <4>1
      <4>2. CASE k # step
        <5>1. splits'[Child[k]] = splits[Child[k]] /\ splits[Child[k]] \in 1..Len(orders)
          BY <2>1, <3>4, <4>2
        <5> QED
          BY <1>2, <4>2, <5>1
      <4> QED
        BY <4>1, <4>2
    <3> QED
      BY <2>1, <3>4, <3>5
  <2> QED
    BY <2>2, <2>3
<1> HIDE DEF CreateTable
<1>6. Shaped'
  <2>1. /\ DOMAIN orders' = 1..Len(orders') /\ DOMAIN serial' = 1..Len(orders')
        /\ DOMAIN orders = 1..Len(orders) /\ 1..Len(orders) \subseteq 1..Len(orders')
    BY <1>0, <1>4, <1>2, SplitFacts
  <2>2. \A n \in 1..Len(orders') : orders'[n] \subseteq 1..serial'[n]
    <3>1. \A n \in 1..Len(orders) : orders[n] \subseteq 1..serial[n]
      BY <1>0, SplitFacts
    <3> QED
      BY <1>4, <3>1
  <2>3. /\ ids' \in Seq([of : DOMAIN orders', id : Nat \ {0}])
    <3> DEFINE S == [of : DOMAIN orders, id : Nat \ {0}]
               T == [of : DOMAIN orders', id : Nat \ {0}]
    <3>1. ids \in Seq(S) /\ S \subseteq T
      BY <1>0, <2>1 DEF Shaped, TypeOK
    <3> HIDE DEF S, T
    <3>2. ids \in Seq(T)
      BY <3>1
    <3> QED
      BY <1>1, <3>2 DEF T
  <2>4. \A k \in Range(Child) : /\ splits'[k] \in DOMAIN orders'
                                /\ DOMAIN children'[k] \subseteq ChildRow'
    <3>1. ChildRow \subseteq ChildRow'
      BY <1>1, <2>1 DEF ChildRow
    <3>2. \A k \in Range(Child) : DOMAIN children[k] \subseteq ChildRow
      BY <1>0 DEF Shaped, TypeOK
    <3>3. \A k \in Range(Child) : splits'[k] \in 1..Len(orders)
      BY <1>5, ChildFacts
    <3> QED
      BY <1>1, <2>1, <3>1, <3>2, <3>3
  <2>5. /\ at' \in Resting \union Busy /\ split' \in 1..Len(orders') + 1
        /\ step' \in 0..Len(Child) + 1 /\ splitRows' \in Nat /\ Len(orders') > 0
    BY <1>1, <1>2, <1>4, ChildFacts DEF Busy
  <2>6. /\ left' \in 0..Target /\ pending' \in 0..Batch /\ sending' \subseteq DOMAIN ids'
        /\ runs' \in 0..MaxRuns /\ faults' \in 0..MaxFaults /\ blind' \subseteq BlindSpots
        /\ DOMAIN children' = Range(Child) /\ runs' > 0
    BY <1>0, <1>1 DEF Shaped, TypeOK
  <2>6a. made' \subseteq (DOMAIN orders') \X (Nat \ {0}) \X (1..runs')
    BY <1>0, <1>1, <2>1 DEF Shaped, TypeOK
  <2>7. TypeOK'
    BY <2>1, <2>2, <2>3, <2>4, <2>5, <2>6, <2>6a DEF TypeOK
  <2> QED
    BY <1>4, <1>5, <2>5, <2>6, <2>7 DEF Shaped
<1>7. Places'
  BY <1>1, <1>2, <1>4 DEF Places
<1>8. Named'
  <2>1. /\ \A k \in 1..3 : \A c \in DOMAIN children[Child[k]] : c.of \in 1..Len(orders)
        /\ \A i \in DOMAIN ids : ids[i].of \in 1..Len(orders)
    <3>1. \A k \in 1..3 : DOMAIN children[Child[k]] \subseteq ChildRow
      BY <1>0, ChildFacts DEF Shaped, TypeOK
    <3> DEFINE S == [of : DOMAIN orders, id : Nat \ {0}]
    <3>2. ids \in Seq(S) /\ \A o \in S : o.of \in 1..Len(orders)
      BY <1>0, SplitFacts DEF Shaped, TypeOK
    <3> HIDE DEF S
    <3>3. \A i \in DOMAIN ids : ids[i] \in S
      BY <3>2
    <3> QED
      BY <1>0, <3>1, <3>2, <3>3, SplitFacts DEF ChildRow
  <2>2. ASSUME NEW k \in 1..3, NEW c \in DOMAIN children[Child[k]]
        PROVE  /\ c.of <= c.in /\ c.id <= serial'[c.of]
               /\ "cut" \in blind \/ c.id \in orders'[c.of]
               /\ "readback" \in blind \/ children[Child[k]][c] = 1
    <3>1. serial'[c.of] = serial[c.of] /\ orders'[c.of] = orders[c.of]
      BY <1>4, <2>1
    <3> QED
      BY <1>0, <3>1 DEF Named
  <2>3. ASSUME NEW i \in DOMAIN ids
        PROVE  /\ ids[i].of <= split /\ ids[i].id <= serial'[ids[i].of]
               /\ "cut" \in blind \/ ids[i].id \in orders'[ids[i].of]
    <3>1. serial'[ids[i].of] = serial[ids[i].of] /\ orders'[ids[i].of] = orders[ids[i].of]
      BY <1>4, <2>1
    <3> QED
      BY <1>0, <3>1 DEF Named
  <2>4. "readback" \notin blind => \A i, j \in DOMAIN ids : ids[i] = ids[j] => i = j
    BY <1>0 DEF Named
  <2> QED
    BY <1>1, <2>2, <2>3, <2>4 DEF Named
<1>9. Fresh'
  BY <1>0, <1>1 DEF Fresh, Has
<1>10. \A n \in 1..Len(orders) : Size(n)' = Size(n)
  BY <1>4 DEF Size
<1>11. Full'
  <2> SUFFICES ASSUME "cut" \notin blind PROVE Full'
    BY <1>1 DEF Full
  <2>1. ASSUME NEW n \in 1..Len(orders'), n < Len(orders') PROVE Size(n)' >= Cap
    <3>1. n \in 1..Len(orders)
      BY <1>2, <1>4, <2>1
    <3>2. Size(n) >= Cap
      BY <1>0, <1>1, <1>2, <1>4, <2>1, <3>1 DEF Full
    <3> QED
      BY <1>10, <3>1, <3>2
  <2>2. at' = "filling" => splitRows <= Size(split)'
    <3> SUFFICES ASSUME at' = "filling" PROVE splitRows <= Size(split)'
      OBVIOUS
    <3>1. step = 3
      BY <1>1
    <3>2. split \in 1..Len(orders)
      BY <1>2, <3>1
    <3>3. Size(split)' = Size(split)
      BY <1>1, <1>4, <3>2 DEF Size
    <3>4. Size(split) \in Nat
      BY <1>0, <3>2, SplitFacts
    <3> QED
      BY <1>2, <3>3, <3>4
  <2>3. at' # "again" /\ ~(split' > Len(orders'))
    BY <1>1, <1>2, <1>4
  <2> QED
    BY <1>1, <2>1, <2>2, <2>3 DEF Full
<1>12. Growth'
  <2>1. Size(1)' = Size(1) /\ Rest' = Rest /\ Quiet' = Quiet
    <3>1. 1 \in 1..Len(orders)
      BY <1>2
    <3> QED
      BY <1>1, <1>4, <1>10, <3>1 DEF Rest, Quiet
  <2>2. split' # 1 /\ at' # "counting"
    BY <1>1, <1>2
  <2> QED
    BY <1>0, <1>1, <2>1, <2>2 DEF Growth
<1>13. Tables'
  <2> SUFFICES ASSUME faults = 0 PROVE Tables'
    BY <1>1 DEF Tables
  <2>1. ASSUME NEW k \in 1..3, k < step' PROVE split <= splits'[Child[k]]
    <3>1. CASE k = step
      BY <1>2, <1>5, <3>1
    <3>2. CASE k # step
      <4>1. k < step
        BY <1>1, <1>2, <2>1, <3>2
      <4>2. split <= splits[Child[k]]
        BY <1>0, <1>1, <4>1 DEF Tables
      <4> QED
        BY <1>2, <1>5, <4>2
    <3> QED
      BY <3>1, <3>2
  <2>2. at' = "filling" => \A k \in 1..3 : k < step'
    BY <1>1
  <2>3. at' \in {"filling", "creating"}
    BY <1>1
  <2> QED
    BY <1>1, <2>1, <2>2, <2>3 DEF Tables
<1>14. Given'
  <2> SUFFICES ASSUME faults = 0, NEW n \in 1..Len(orders'), NEW k \in 1..2, NEW i \in orders'[n]
               PROVE  (Has(n, i, k) \/ Waits(n, i, k))'
    BY <1>1 DEF Given
  <2>1. n \in 1..Len(orders) /\ i \in orders[n]
    BY <1>4
  <2>2. Has(n, i, k) \/ Waits(n, i, k)
    BY <1>0, <2>1 DEF Given
  <2> QED
    BY <1>1, <2>2 DEF Has, Waits
<1> QED
  BY <1>6, <1>7, <1>8, <1>9, <1>11, <1>12, <1>13, <1>14 DEF IInv

-----------------------------------------------------------------------------
(* Children *)

LEMMA SetToSeqFacts ==
  ASSUME NEW S, IsFiniteSet(S)
  PROVE  SetToSeq(S) \in Seq(S)
PROOF
<1> DEFINE n == Cardinality(S)
<1>1. n \in Nat /\ ExistsBijection(1..n, S)
  BY FS_CardinalityType
<1>2. \E f \in [1..n -> S] : IsInjective(f)
  BY <1>1 DEF ExistsBijection, Bijection, Injection, IsInjective
<1>3. SetToSeq(S) \in [1..n -> S]
  BY <1>2 DEF SetToSeq
<1> HIDE DEF n
<1> QED
  BY <1>1, <1>3

\* The orders whose children are made next have been given out, and when they
\* are the run's own none of them has a child row.
LEMMA BeginKeeps ==
  ASSUME IInv, AllFlushed, NEW known, BeginChildren(known),
         known \in Seq([of : DOMAIN orders, id : Nat \ {0}]),
         \A i \in DOMAIN known :
           /\ known[i].of <= split /\ known[i].id <= serial[known[i].of]
           /\ "cut" \in blind \/ known[i].id \in orders[known[i].of],
         "readback" \notin blind' => known = ids \/ known = <<>>,
         blind \subseteq blind', blind' \in SUBSET BlindSpots,
         Quiet' => Quiet, faults' \in 0..MaxFaults,
         faults' = 0 => faults = 0 /\ (known = ids \/ ids = <<>>),
         UNCHANGED runs
  PROVE  IInv'
PROOF
<1>0. Shaped /\ Places /\ Named /\ Fresh /\ Full /\ Growth /\ Tables /\ Given
  BY DEF IInv
<1>1. /\ at = "filling" /\ left = 0 /\ pending = 0
      /\ ids' = known /\ at' = (IF known = <<>> THEN "ok" ELSE "sending")
      /\ step' = 1 /\ sending' = DOMAIN known
      /\ UNCHANGED <<orders, serial, splits, children, made, split, splitRows, left, pending, runs>>
  BY DEF AllFlushed, BeginChildren, dbVars, fillVars
<1>2. at' \in {"ok", "sending"}
  BY <1>1
<1>3. Shaped'
  <2>1. /\ at' \in Resting \union Busy /\ step' \in 0..Len(Child) + 1
    BY <1>1, <1>2, ChildFacts DEF Resting, Busy
  <2>2. sending' \subseteq DOMAIN ids' /\ ids' \in Seq([of : DOMAIN orders', id : Nat \ {0}])
    BY <1>1
  <2>3. at # "new" /\ blind' \subseteq BlindSpots
    BY <1>1
  <2> QED
    BY <1>0, <1>1, <2>1, <2>2, <2>3 DEF Shaped, TypeOK, ChildRow
<1>4. Places'
  BY <1>0, <1>1, <1>2 DEF Places
<1>5. Named'
  <2>1. "readback" \notin blind' => \A i, j \in DOMAIN known : known[i] = known[j] => i = j
    <3>1. DOMAIN <<>> = {}
      OBVIOUS
    <3> QED
      BY <1>0, <3>1 DEF Named
  <2> QED
    BY <1>0, <1>1, <2>1 DEF Named
<1>6. Fresh'
  <2> SUFFICES ASSUME "readback" \notin blind' PROVE Fresh'
    BY DEF Fresh
  <2>1. \A i \in DOMAIN known, k \in 1..3 : ~Has(known[i].of, known[i].id, k)
    <3>1. DOMAIN <<>> = {}
      OBVIOUS
    <3> QED
      BY <1>0, <1>1, <3>1 DEF Fresh
  <2> QED
    BY <1>1, <1>2, <2>1 DEF Fresh, Has
<1>7. Full'
  <2>1. "cut" \notin blind' => "cut" \notin blind
    OBVIOUS
  <2> QED
    BY <1>0, <1>1, <1>2, <2>1 DEF Full, Size
<1>8. Growth'
  <2>1. Size(1)' = Size(1) /\ Rest' = Rest
    BY <1>1 DEF Size, Rest, Rows
  <2> QED
    BY <1>0, <1>1, <1>2, <2>1 DEF Growth
<1>9. Tables'
  BY <1>0, <1>1, <1>2 DEF Tables
<1>10. Given'
  <2> SUFFICES ASSUME faults' = 0, NEW n \in 1..Len(orders), NEW k \in 1..2, NEW i \in orders[n]
               PROVE  (Has(n, i, k) \/ Waits(n, i, k))'
    BY <1>1 DEF Given
  <2>1. Has(n, i, k) \/ Waits(n, i, k)
    BY <1>0 DEF Given
  <2>2. ASSUME Waits(n, i, k) PROVE Waits(n, i, k)'
    <3>1. PICK j \in DOMAIN ids : ids[j].of = n /\ ids[j].id = i
      BY <2>2 DEF Waits
    <3>2. ids # <<>>
      BY <3>1
    <3>3. known = ids /\ at' = "sending" /\ step' = 1 /\ sending' = DOMAIN ids /\ ids' = ids
      BY <1>1, <3>2
    <3>4. k > 1 \/ (k = 1 /\ j \in DOMAIN ids)
      BY <3>1
    <3> QED
      BY <3>1, <3>3, <3>4 DEF Waits
  <2>3. Has(n, i, k) => Has(n, i, k)'
    BY <1>1 DEF Has
  <2> QED
    BY <2>1, <2>2, <2>3
<1> QED
  BY <1>3, <1>4, <1>5, <1>6, <1>7, <1>8, <1>9, <1>10 DEF IInv

LEMMA FinishOrdersKeeps ==
  ASSUME IInv, FinishOrders
  PROVE  IInv'
PROOF
<1>0. Shaped /\ Named
  BY DEF IInv
<1>1. AllFlushed /\ BeginChildren(ids) /\ runs' = runs /\ faults' = faults /\ blind' = blind
  BY DEF FinishOrders, history
<1>2. /\ ids \in Seq([of : DOMAIN orders, id : Nat \ {0}])
      /\ faults \in 0..MaxFaults /\ blind \in SUBSET BlindSpots
  BY <1>0 DEF Shaped, TypeOK
<1>3. \A i \in DOMAIN ids :
        /\ ids[i].of <= split /\ ids[i].id <= serial[ids[i].of]
        /\ "cut" \in blind \/ ids[i].id \in orders[ids[i].of]
  BY <1>0 DEF Named
<1>4. Quiet' => Quiet
  BY <1>1 DEF Quiet
<1> QED
  BY <1>1, <1>2, <1>3, <1>4, BeginKeeps

LEMMA ReadBackKeeps ==
  ASSUME IInv, ReadBack
  PROVE  IInv'
PROOF
<1>0. Shaped /\ Places /\ Named
  BY DEF IInv
<1>1. /\ AllFlushed /\ ids = <<>> /\ at = "filling"
      /\ blind' = blind \union {"readback"} /\ runs' = runs /\ faults' = faults
  BY DEF ReadBack, AllFlushed
<1>2. PICK known \in SUBSET orders[split] :
        BeginChildren(SetToSeq({[of |-> split, id |-> i] : i \in known}))
  BY DEF ReadBack, kSubset
<1> DEFINE S == {[of |-> split, id |-> i] : i \in known}
           T == [of : DOMAIN orders, id : Nat \ {0}]
           found == SetToSeq(S)
<1>3. /\ split \in 1..Len(orders) /\ split \in Nat /\ DOMAIN orders = 1..Len(orders)
      /\ serial[split] \in Nat /\ orders[split] \subseteq 1..serial[split]
      /\ IsFiniteSet(orders[split])
  BY <1>0, <1>1, SplitFacts DEF Places
<1>4. \A o \in S : o \in T /\ o.of = split /\ o.id \in orders[split] /\ o.id <= serial[split]
  <2> SUFFICES ASSUME NEW i \in known
               PROVE  /\ [of |-> split, id |-> i] \in T
                      /\ i \in orders[split] /\ i <= serial[split]
    OBVIOUS
  <2>1. i \in 1..serial[split]
    BY <1>3
  <2> QED
    BY <1>3, <2>1
<1>5. found \in Seq(S)
  <2>1. IsFiniteSet(known)
    BY <1>3, FS_Subset
  <2>2. IsFiniteSet(S)
    <3> DEFINE f == [i \in known |-> [of |-> split, id |-> i]]
    <3>1. f \in [known -> S] /\ (\A t \in S : \E i \in known : f[i] = t)
      OBVIOUS
    <3>2. \A i, j \in known : f[i] = f[j] => i = j
      OBVIOUS
    <3> HIDE DEF f, S
    <3>3. f \in Bijection(known, S)
      BY <3>1, <3>2 DEF Bijection, Injection, Surjection, IsInjective
    <3> QED
      BY <2>1, <3>3, FS_Bijection DEF ExistsBijection
  <2> HIDE DEF S
  <2> QED
    BY <2>2, SetToSeqFacts
<1> HIDE DEF S, T, found
<1>6. found \in Seq(T) /\ \A i \in DOMAIN found : found[i] \in S
  BY <1>4, <1>5
<1>7. \A i \in DOMAIN found :
        /\ found[i].of <= split /\ found[i].id <= serial[found[i].of]
        /\ "cut" \in blind \/ found[i].id \in orders[found[i].of]
  BY <1>3, <1>4, <1>6
<1>8. /\ faults \in 0..MaxFaults /\ blind' \in SUBSET BlindSpots
      /\ blind \subseteq blind' /\ (Quiet' => Quiet)
  BY <1>0, <1>1 DEF Shaped, TypeOK, BlindSpots, Quiet
<1>9. BeginChildren(found) /\ found \in Seq([of : DOMAIN orders, id : Nat \ {0}])
  BY <1>2, <1>6 DEF found, S, T
<1> QED
  BY <1>1, <1>7, <1>8, <1>9, BeginKeeps

LEMMA ReadBackFailsKeeps ==
  ASSUME IInv, ReadBackFails
  PROVE  IInv'
PROOF
<1>0. Shaped
  BY DEF IInv
<1>1. /\ AllFlushed /\ BeginChildren(<<>>) /\ runs' = runs
      /\ faults < MaxFaults /\ faults' = faults + 1 /\ blind' = blind
  BY DEF ReadBackFails, Fault
<1>2. /\ <<>> \in Seq([of : DOMAIN orders, id : Nat \ {0}]) /\ DOMAIN <<>> = {}
      /\ blind \in SUBSET BlindSpots
  BY <1>0 DEF Shaped, TypeOK
<1>3. faults' \in 0..MaxFaults /\ faults' # 0
  BY <1>0, <1>1, CityAssumption DEF Shaped, TypeOK
<1>4. Quiet' => Quiet
  BY <1>1 DEF Quiet
<1> QED
  BY <1>1, <1>2, <1>3, <1>4, BeginKeeps

\* The k-th child table once a chunk has been written to the table of this step.
LEMMA ChunkEffects ==
  ASSUME IInv, at = "sending", TableExists, WriteChunk, UNCHANGED split
  PROVE  /\ DOMAIN children' = Range(Child)
         /\ \A k \in 1..3 : DOMAIN children'[Child[k]] \subseteq ChildRow
         /\ \A n, i : \A k \in 1..3 :
              Has(n, i, k)' <=>
                \/ Has(n, i, k)
                \/ k = step /\ \E j \in Chunk : ids[j].of = n /\ ids[j].id = i
         /\ \A k \in 1..3 : \A c \in DOMAIN children'[Child[k]] :
              /\ c.of <= c.in /\ c.id <= serial[c.of]
              /\ "cut" \in blind \/ c.id \in orders[c.of]
              /\ "readback" \in blind \/ children'[Child[k]][c] = 1
PROOF
<1>0. Shaped /\ Places /\ Named /\ Fresh
  BY DEF IInv
<1>1. Chunk \subseteq sending /\ sending \subseteq DOMAIN ids
  BY <1>0 DEF Chunk, Shaped, TypeOK
<1>2. step \in 1..3 /\ DOMAIN children = Range(Child) /\ Child[step] \in Range(Child)
  BY <1>0, ChildFacts DEF Places, Shaped
<1> DEFINE old == children[Child[step]]
           new == children'[Child[step]]
           chunk == {ChildOf(ids[i]) : i \in Chunk}
           bag == SetToBag(chunk)
<1>3. /\ DOMAIN children' = Range(Child) /\ new = old (+) bag
      /\ \A k \in 1..3 : k # step => children'[Child[k]] = children[Child[k]]
  <2>1. children' = [children EXCEPT ![Child[step]] = old (+) bag]
    BY DEF WriteChunk
  <2> HIDE DEF bag, old
  <2> QED
    BY <1>2, <2>1, ChildFacts
<1>4. DOMAIN bag = chunk /\ \A c \in chunk : bag[c] = 1
  BY DEF SetToBag
<1>5. /\ DOMAIN new = DOMAIN old \union chunk
      /\ \A c \in DOMAIN new : new[c] = (IF c \in DOMAIN old THEN old[c] ELSE 0)
                                      + (IF c \in chunk THEN 1 ELSE 0)
  <2> HIDE DEF new, old, bag, chunk
  <2>1. /\ DOMAIN new = DOMAIN old \union DOMAIN bag
        /\ \A c \in DOMAIN new : new[c] = (IF c \in DOMAIN old THEN old[c] ELSE 0)
                                        + (IF c \in DOMAIN bag THEN bag[c] ELSE 0)
    BY <1>3 DEF (+)
  <2> QED
    BY <1>4, <2>1
<1>6. /\ DOMAIN orders = 1..Len(orders) /\ split \in DOMAIN orders
  BY <1>0, SplitFacts DEF Places
<1>7. \A i \in DOMAIN ids : ids[i] \in [of : DOMAIN orders, id : Nat \ {0}]
  <2> DEFINE S == [of : DOMAIN orders, id : Nat \ {0}]
  <2>1. ids \in Seq(S)
    BY <1>0 DEF Shaped, TypeOK
  <2> HIDE DEF S
  <2>2. \A i \in DOMAIN ids : ids[i] \in S
    BY <2>1
  <2> QED
    BY <2>2 DEF S
<1>8. ASSUME NEW i \in Chunk
      PROVE  LET c == ChildOf(ids[i]) IN
             /\ c.of = ids[i].of /\ c.id = ids[i].id /\ c \in ChildRow
             /\ c.of <= c.in /\ c.id <= serial[c.of]
             /\ "cut" \in blind \/ c.id \in orders[c.of]
             /\ "readback" \in blind \/ c \notin DOMAIN old
  <2> DEFINE c == ChildOf(ids[i])
  <2>1. c = [of |-> ids[i].of, id |-> ids[i].id, in |-> split, run |-> runs]
    BY DEF ChildOf
  <2>2. c.of = ids[i].of /\ c.id = ids[i].id /\ c.in = split
    BY <2>1
  <2>3. c \in ChildRow
    <3>1. runs \in 1..runs
      BY <1>0 DEF Shaped, TypeOK
    <3>2. ids[i].of \in DOMAIN orders /\ ids[i].id \in Nat \ {0}
      BY <1>1, <1>7
    <3> QED
      BY <1>6, <2>1, <3>1, <3>2 DEF ChildRow
  <2> HIDE DEF c
  <2>4. /\ ids[i].of <= split /\ ids[i].id <= serial[ids[i].of]
        /\ "cut" \in blind \/ ids[i].id \in orders[ids[i].of]
    BY <1>0, <1>1 DEF Named
  <2>5. "readback" \in blind \/ c \notin DOMAIN old
    <3>1. "readback" \notin blind => ~Has(ids[i].of, ids[i].id, step)
      BY <1>0, <1>1 DEF Fresh
    <3> QED
      BY <2>2, <3>1 DEF Has
  <2> QED
    BY <2>2, <2>3, <2>4, <2>5 DEF c
<1>9. ASSUME NEW n, NEW i, NEW k \in 1..3
      PROVE  Has(n, i, k)' <=>
               \/ Has(n, i, k)
               \/ k = step /\ \E j \in Chunk : ids[j].of = n /\ ids[j].id = i
  <2>1. Has(n, i, k)' <=> \E c \in DOMAIN children'[Child[k]] : c.of = n /\ c.id = i
    BY DEF Has
  <2>2. CASE k = step
    <3>1. Has(n, i, k)' <=> \/ \E c \in DOMAIN old : c.of = n /\ c.id = i
                            \/ \E c \in chunk : c.of = n /\ c.id = i
      <4> HIDE DEF chunk, old
      <4> QED
        BY <1>5, <2>1, <2>2
    <3>2. (\E c \in chunk : c.of = n /\ c.id = i)
            <=> \E j \in Chunk : ids[j].of = n /\ ids[j].id = i
      BY <1>8
    <3>3. Has(n, i, k) <=> \E c \in DOMAIN old : c.of = n /\ c.id = i
      BY <2>2 DEF Has
    <3> QED
      BY <2>2, <3>1, <3>2, <3>3
  <2>3. CASE k # step
    BY <1>3, <2>1, <2>3 DEF Has
  <2> QED
    BY <2>2, <2>3
<1>10. ASSUME NEW k \in 1..3, NEW c \in DOMAIN children'[Child[k]]
       PROVE  /\ c \in ChildRow
              /\ c.of <= c.in /\ c.id <= serial[c.of]
              /\ "cut" \in blind \/ c.id \in orders[c.of]
              /\ "readback" \in blind \/ children'[Child[k]][c] = 1
  <2>1. CASE c \in DOMAIN children[Child[k]]
    <3>1. /\ c.of <= c.in /\ c.id <= serial[c.of]
          /\ "cut" \in blind \/ c.id \in orders[c.of]
          /\ "readback" \in blind \/ children[Child[k]][c] = 1
      BY <1>0, <2>1 DEF Named
    <3>2. c \in ChildRow
      BY <1>0, <2>1, ChildFacts DEF Shaped, TypeOK
    <3>3. ASSUME "readback" \notin blind PROVE children'[Child[k]][c] = 1
      <4>1. CASE k = step
        <5>1. c \notin chunk /\ old[c] = 1 /\ c \in DOMAIN old /\ c \in DOMAIN new
          BY <1>8, <2>1, <3>1, <3>3, <4>1
        <5> HIDE DEF chunk, old, new
        <5>2. new[c] = 1 + 0
          BY <1>5, <5>1
        <5> QED
          BY <4>1, <5>2 DEF new
      <4>2. CASE k # step
        BY <1>3, <3>1, <3>3, <4>2
      <4> QED
        BY <4>1, <4>2
    <3> QED
      BY <3>1, <3>2, <3>3
  <2>2. CASE c \notin DOMAIN children[Child[k]]
    <3>1. k = step /\ c \in chunk /\ c \notin DOMAIN old /\ c \in DOMAIN new
      BY <1>3, <1>5, <2>2
    <3>2. PICK i \in Chunk : c = ChildOf(ids[i])
      BY <3>1
    <3>3. new[c] = 0 + 1
      <4> HIDE DEF chunk, old, new
      <4> QED
        BY <1>5, <3>1
    <3> QED
      BY <1>8, <3>1, <3>2, <3>3
  <2> QED
    BY <2>1, <2>2
<1> QED
  BY <1>3, <1>9, <1>10

\* A chunk that is sent, or given up with those that come after it.
LEMMA ChunkKeeps ==
  ASSUME IInv, at = "sending", sending' \in SUBSET sending,
         \/ UNCHANGED children
         \/ TableExists /\ WriteChunk /\ sending' \intersect Chunk = {},
         faults' \in 0..MaxFaults,
         faults' = 0 => /\ faults = 0 /\ TableExists
                        /\ WriteChunk /\ sending' = sending \ Chunk,
         UNCHANGED <<orders, serial, splits, made, at, fillVars, ids, step, runs, blind>>
  PROVE  IInv'
PROOF
<1>0. Shaped /\ Places /\ Named /\ Fresh /\ Full /\ Growth /\ Tables /\ Given
  BY DEF IInv
<1>1. UNCHANGED <<orders, serial, splits, made, at, split, splitRows, left, pending, ids, step,
                  runs, blind>>
  BY DEF fillVars
<1> DEFINE Sent(n, i) == \E j \in Chunk : ids[j].of = n /\ ids[j].id = i
           HasNow(n, i, k) == \E c \in DOMAIN children'[Child[k]] : c.of = n /\ c.id = i
<1>2. /\ DOMAIN children' = Range(Child)
      /\ \A k \in 1..3 : DOMAIN children'[Child[k]] \subseteq ChildRow
      /\ \A n, i : \A k \in 1..3 :
           /\ Has(n, i, k) => Has(n, i, k)'
           /\ Has(n, i, k)' => Has(n, i, k) \/ (k = step /\ WriteChunk /\ Sent(n, i))
           /\ TableExists /\ WriteChunk /\ k = step /\ Sent(n, i) => Has(n, i, k)'
      /\ \A k \in 1..3 : \A c \in DOMAIN children'[Child[k]] :
           /\ c.of <= c.in /\ c.id <= serial[c.of]
           /\ "cut" \in blind \/ c.id \in orders[c.of]
           /\ "readback" \in blind \/ children'[Child[k]][c] = 1
  <2>1. CASE TableExists /\ WriteChunk
    BY <1>1, <2>1, ChunkEffects
  <2>2. CASE UNCHANGED children /\ ~(TableExists /\ WriteChunk)
    <3>1. \A n, i, k : Has(n, i, k)' <=> Has(n, i, k)
      BY <2>2 DEF Has
    <3>2. \A k \in 1..3 : DOMAIN children[Child[k]] \subseteq ChildRow
      BY <1>0, ChildFacts DEF Shaped, TypeOK
    <3>3. DOMAIN children = Range(Child)
      BY <1>0 DEF Shaped
    <3>4. \A k \in 1..3 : \A c \in DOMAIN children[Child[k]] :
            /\ c.of <= c.in /\ c.id <= serial[c.of]
            /\ "cut" \in blind \/ c.id \in orders[c.of]
            /\ "readback" \in blind \/ children[Child[k]][c] = 1
      BY <1>0 DEF Named
    <3> HIDE DEF Sent
    <3> QED
      BY <2>2, <3>1, <3>2, <3>3, <3>4
  <2> QED
    BY <2>1, <2>2
<1>3. Shaped'
  <2>1. \A k \in Range(Child) : DOMAIN children'[k] \subseteq ChildRow
    BY <1>2, ChildFacts
  <2>2. ChildRow' = ChildRow
    BY <1>1 DEF ChildRow
  <2>3. sending' \subseteq DOMAIN ids
    BY <1>0 DEF Shaped, TypeOK
  <2> QED
    BY <1>0, <1>1, <1>2, <2>1, <2>2, <2>3 DEF Shaped, TypeOK
<1>4. Places'
  BY <1>0, <1>1 DEF Places
<1>5. Named'
  BY <1>0, <1>1, <1>2 DEF Named
<1>5a. \A n, i : \A k \in 1..3 :
         HasNow(n, i, k) => Has(n, i, k) \/ (k = step /\ WriteChunk /\ Sent(n, i))
  <2>1. \A n, i, k : Has(n, i, k)' <=> HasNow(n, i, k)
    BY DEF Has
  <2> HIDE DEF Sent, HasNow
  <2> QED
    BY <1>2, <2>1
<1>6. Fresh'
  <2> SUFFICES ASSUME "readback" \notin blind
               PROVE  /\ \A i \in sending' : ~HasNow(ids[i].of, ids[i].id, step)
                      /\ \A i \in DOMAIN ids, k \in 1..3 :
                           k > step => ~HasNow(ids[i].of, ids[i].id, k)
    BY <1>1 DEF Fresh, Has
  <2>1. /\ \A i \in sending : ~Has(ids[i].of, ids[i].id, step)
        /\ \A i \in DOMAIN ids, k \in 1..3 : k > step => ~Has(ids[i].of, ids[i].id, k)
        /\ \A i, j \in DOMAIN ids : ids[i] = ids[j] => i = j
    BY <1>0 DEF Fresh, Named
  <2>2. step \in 1..3 /\ sending \subseteq DOMAIN ids /\ Chunk \subseteq sending
    BY <1>0 DEF Places, Shaped, TypeOK, Chunk
  <2>3. ASSUME NEW i \in sending' PROVE ~HasNow(ids[i].of, ids[i].id, step)
    <3>1. i \in DOMAIN ids /\ ~Has(ids[i].of, ids[i].id, step)
      BY <2>1, <2>2
    <3>2. ASSUME NEW j \in Chunk, ids[j].of = ids[i].of, ids[j].id = ids[i].id
          PROVE  j = i
      <4> DEFINE S == [of : DOMAIN orders, id : Nat \ {0}]
      <4>1. \A a, b \in S : a.of = b.of /\ a.id = b.id => a = b
        OBVIOUS
      <4>2. ids \in Seq(S)
        BY <1>0 DEF Shaped, TypeOK
      <4> HIDE DEF S
      <4>3. ids[i] \in S /\ ids[j] \in S /\ j \in DOMAIN ids
        BY <2>2, <3>1, <4>2
      <4> QED
        BY <2>1, <3>1, <3>2, <4>1, <4>3
    <3>3. CASE UNCHANGED children
      BY <3>1, <3>3 DEF Has
    <3>4. CASE i \notin Chunk
      <4>1. ~Sent(ids[i].of, ids[i].id)
        BY <3>2, <3>4
      <4> HIDE DEF Sent, HasNow
      <4> QED
        BY <1>5a, <2>2, <3>1, <4>1
    <3> QED
      BY <3>3, <3>4
  <2>4. ASSUME NEW i \in DOMAIN ids, NEW k \in 1..3, k > step
        PROVE  ~HasNow(ids[i].of, ids[i].id, k)
    <3>1. ~Has(ids[i].of, ids[i].id, k) /\ k # step
      BY <2>1, <2>2, <2>4
    <3> HIDE DEF Sent, HasNow
    <3> QED
      BY <1>5a, <3>1
  <2> QED
    BY <2>3, <2>4
<1>7. Full' /\ Tables'
  BY <1>0, <1>1 DEF Full, Size, Tables
<1>8. Growth'
  <2>1. Size(1)' = Size(1) /\ Rest' = Rest /\ Quiet' = Quiet
    BY <1>1 DEF Size, Rest, Rows, Quiet
  <2> QED
    BY <1>0, <1>1, <2>1 DEF Growth
<1>9. Given'
  <2> SUFFICES ASSUME faults' = 0, NEW n \in 1..Len(orders), NEW k \in 1..2, NEW i \in orders[n]
               PROVE  (Has(n, i, k) \/ Waits(n, i, k))'
    BY <1>1 DEF Given
  <2>1. faults = 0 /\ TableExists /\ WriteChunk /\ sending' = sending \ Chunk
    OBVIOUS
  <2>2. Has(n, i, k) \/ Waits(n, i, k)
    BY <1>0, <2>1 DEF Given
  <2>3. Has(n, i, k) => Has(n, i, k)'
    BY <1>2
  <2>4. ASSUME Waits(n, i, k) PROVE (Has(n, i, k) \/ Waits(n, i, k))'
    <3>1. PICK j \in DOMAIN ids : /\ ids[j].of = n /\ ids[j].id = i
                                  /\ k > step \/ (k = step /\ j \in sending)
      BY <2>4 DEF Waits
    <3>2. CASE k = step /\ j \in Chunk
      <4>1. Sent(n, i)
        BY <3>1, <3>2
      <4> HIDE DEF Sent
      <4> QED
        BY <1>2, <2>1, <3>2, <4>1
    <3>3. CASE ~(k = step /\ j \in Chunk)
      <4>1. k > step \/ (k = step /\ j \in sending')
        BY <2>1, <3>1, <3>3
      <4> QED
        BY <1>1, <3>1, <4>1 DEF Waits
    <3> QED
      BY <3>2, <3>3
  <2> QED
    BY <2>2, <2>3, <2>4
<1> QED
  BY <1>3, <1>4, <1>5, <1>6, <1>7, <1>8, <1>9 DEF IInv

LEMMA SendChunkKeeps ==
  ASSUME IInv, SendChunk
  PROVE  IInv'
PROOF
<1>0. Shaped
  BY DEF IInv
<1>1. /\ at = "sending" /\ TableExists /\ WriteChunk /\ sending' = sending \ Chunk
      /\ runs' = runs /\ faults' = faults /\ blind' = blind
      /\ UNCHANGED <<orders, serial, splits, made, at, fillVars, ids, step>>
  BY DEF SendChunk, history
<1>2. faults' \in 0..MaxFaults
  BY <1>0, <1>1 DEF Shaped, TypeOK
<1>3. sending' \in SUBSET sending /\ sending' \intersect Chunk = {}
  BY <1>1
<1> QED
  BY <1>1, <1>2, <1>3, ChunkKeeps

LEMMA ChunkFailsKeeps ==
  ASSUME IInv, ChunkFails
  PROVE  IInv'
PROOF
<1>0. Shaped /\ Places /\ Tables
  BY DEF IInv
<1>1. /\ at = "sending" /\ sending' = {}
      /\ UNCHANGED <<orders, serial, splits, made, at, fillVars, ids, step>>
      /\ sending' \in SUBSET sending /\ sending' \intersect Chunk = {}
  BY DEF ChunkFails
<1>2. CASE ~TableExists /\ UNCHANGED <<children, history>>
  <2>1. children' = children /\ runs' = runs /\ faults' = faults /\ blind' = blind
    BY <1>2 DEF history
  <2>2. faults # 0
    BY <1>0, <1>1, <1>2 DEF Tables, TableExists, Places
  <2>3. faults' \in 0..MaxFaults
    BY <1>0, <2>1 DEF Shaped, TypeOK
  <2> QED
    BY <1>1, <2>1, <2>2, <2>3, ChunkKeeps
<1>3. CASE TableExists /\ Fault({}) /\ (UNCHANGED children \/ WriteChunk)
  <2>1. runs' = runs /\ faults' = faults + 1 /\ faults < MaxFaults /\ blind' = blind
    BY <1>3 DEF Fault
  <2>2. faults' \in 0..MaxFaults /\ faults' # 0
    BY <1>0, <2>1, CityAssumption DEF Shaped, TypeOK
  <2> QED
    BY <1>1, <1>3, <2>1, <2>2, ChunkKeeps
<1> QED
  BY <1>2, <1>3 DEF ChunkFails

LEMMA NextChildKeeps ==
  ASSUME IInv, NextChild
  PROVE  IInv'
PROOF
<1>0. Shaped /\ Places /\ Named /\ Fresh /\ Full /\ Growth /\ Tables /\ Given
  BY DEF IInv
<1>1. /\ at = "sending" /\ sending = {} /\ step < 3 /\ step' = step + 1
      /\ sending' \in SUBSET DOMAIN ids /\ (step' # 3 => sending' = DOMAIN ids)
      /\ UNCHANGED <<orders, serial, splits, children, made, at, split, splitRows, left, pending,
                     ids, runs, faults, blind>>
  BY ChildFacts DEF NextChild, dbVars, fillVars, history
<1>2. step \in 1..2 /\ step' \in 1..3
  BY <1>0, <1>1 DEF Places
<1>3. Shaped'
  <2>1. step' \in 0..Len(Child) + 1
    BY <1>2, ChildFacts
  <2> QED
    BY <1>0, <1>1, <2>1 DEF Shaped, TypeOK, ChildRow
<1>4. Places'
  BY <1>0, <1>1, <1>2 DEF Places
<1>5. Named'
  BY <1>0, <1>1 DEF Named
<1>6. Fresh'
  <2> SUFFICES ASSUME "readback" \notin blind PROVE Fresh'
    BY <1>1 DEF Fresh
  <2>1. \A i \in DOMAIN ids, k \in 1..3 : k > step => ~Has(ids[i].of, ids[i].id, k)
    BY <1>0, <1>1 DEF Fresh
  <2>2. \A i \in DOMAIN ids, k \in 1..3 : k >= step' => ~Has(ids[i].of, ids[i].id, k)
    BY <1>1, <1>2, <2>1
  <2>3. \A i \in sending' : i \in DOMAIN ids /\ ~Has(ids[i].of, ids[i].id, step')
    BY <1>1, <1>2, <2>2
  <2>4. \A i \in DOMAIN ids, k \in 1..3 : k > step' => ~Has(ids[i].of, ids[i].id, k)
    BY <1>2, <2>2
  <2> QED
    BY <1>1, <2>3, <2>4 DEF Fresh, Has
<1>7. Full' /\ Tables'
  BY <1>0, <1>1 DEF Full, Size, Tables
<1>8. Growth'
  <2>1. Size(1)' = Size(1) /\ Rest' = Rest /\ Quiet' = Quiet
    BY <1>1 DEF Size, Rest, Rows, Quiet
  <2> QED
    BY <1>0, <1>1, <2>1 DEF Growth
<1>9. Given'
  <2> SUFFICES ASSUME faults = 0, NEW n \in 1..Len(orders), NEW k \in 1..2, NEW i \in orders[n]
               PROVE  (Has(n, i, k) \/ Waits(n, i, k))'
    BY <1>1 DEF Given
  <2>1. Has(n, i, k) \/ Waits(n, i, k)
    BY <1>0 DEF Given
  <2>2. Has(n, i, k) => Has(n, i, k)'
    BY <1>1 DEF Has
  <2>3. ASSUME Waits(n, i, k) PROVE Waits(n, i, k)'
    <3>1. PICK j \in DOMAIN ids : ids[j].of = n /\ ids[j].id = i /\ k > step
      BY <1>1, <2>3 DEF Waits
    <3>2. k = step' /\ j \in sending'
      BY <1>1, <1>2, <3>1
    <3> QED
      BY <1>1, <3>1, <3>2 DEF Waits
  <2> QED
    BY <2>1, <2>2, <2>3
<1> QED
  BY <1>3, <1>4, <1>5, <1>6, <1>7, <1>8, <1>9 DEF IInv

LEMMA CityDoneKeeps ==
  ASSUME IInv, CityDone
  PROVE  IInv'
PROOF
<1>0. Shaped /\ Places /\ Named /\ Full /\ Growth /\ Tables /\ Given
  BY DEF IInv
<1>1. /\ at = "sending" /\ sending = {} /\ step = 3 /\ at' = "ok"
      /\ UNCHANGED <<orders, serial, splits, children, made, split, splitRows, left, pending,
                     ids, step, sending, runs, faults, blind>>
  BY ChildFacts DEF CityDone, dbVars, fillVars, childVars, history
<1>2. Shaped'
  <2>1. at' \in Resting \union Busy /\ at # "new"
    BY <1>1 DEF Resting
  <2> QED
    BY <1>0, <1>1, <2>1 DEF Shaped, TypeOK, ChildRow
<1>3. Places' /\ Fresh' /\ Tables'
  BY <1>0, <1>1 DEF Places, Fresh, Tables
<1>4. Named' /\ Full'
  BY <1>0, <1>1 DEF Named, Full, Size
<1>5. Growth'
  <2>1. Size(1)' = Size(1) /\ Rest' = Rest /\ Quiet' = Quiet
    BY <1>1 DEF Size, Rest, Rows, Quiet
  <2> QED
    BY <1>0, <1>1, <2>1 DEF Growth
<1>6. Given'
  <2>1. \A n, i : \A k \in 1..2 : ~Waits(n, i, k)
    BY <1>1 DEF Waits
  <2> QED
    BY <1>0, <1>1, <2>1 DEF Given, Has
<1> QED
  BY <1>2, <1>3, <1>4, <1>5, <1>6 DEF IInv

-----------------------------------------------------------------------------
(* Every reachable state *)

LEMMA StutterKeeps ==
  ASSUME IInv, UNCHANGED vars
  PROVE  IInv'
PROOF
<1>1. UNCHANGED <<orders, serial, splits, children, made, at, split, splitRows, left, pending,
                  ids, step, sending, runs, faults, blind>>
  BY DEF vars, dbVars, fillVars, childVars, history
<1>2. Shaped /\ Places /\ Named /\ Fresh /\ Full /\ Growth /\ Tables /\ Given
  BY DEF IInv
<1>3. Shaped' /\ Places' /\ Named'
  BY <1>1, <1>2 DEF Shaped, TypeOK, ChildRow, Places, Named
<1>4. Fresh' /\ Full' /\ Tables'
  BY <1>1, <1>2 DEF Fresh, Has, Full, Size, Tables
<1>5. Growth'
  BY <1>1, <1>2 DEF Growth, Quiet, Rest, Rows, Size
<1>6. Given'
  BY <1>1, <1>2 DEF Given, Has, Waits
<1> QED
  BY <1>3, <1>4, <1>5, <1>6 DEF IInv

LEMMA NextIInv ==
  ASSUME IInv, [Next]_vars
  PROVE  IInv'
PROOF
<1>1. CASE Progress
  BY <1>1, CountSplit1Keeps, MakeRowKeeps, FlushOrdersKeeps, ExecAgainKeeps, NextSplitKeeps,
     CreateTableKeeps, FinishOrdersKeeps, ReadBackKeeps, SendChunkKeeps, NextChildKeeps,
     CityDoneKeeps DEF Progress
<1>2. CASE Failure
  BY <1>2, CountFailsKeeps, FlushCutKeeps, QueryFailsKeeps, ExecFailsKeeps, CreateFailsKeeps,
     ReadBackFailsKeeps, ChunkFailsKeeps DEF Failure
<1>3. CASE UNCHANGED vars
  BY <1>3, StutterKeeps
<1> QED
  BY <1>1, <1>2, <1>3, StartRunKeeps, CrashKeeps DEF Next

LEMMA Invariance == Spec => []IInv
BY InitIInv, NextIInv, PTL DEF Spec

-----------------------------------------------------------------------------
(* Whose orders the child rows are for *)

OwnRows ==
  \A k \in 1..3 : \A c \in DOMAIN children[Child[k]] : <<c.of, c.id, c.run>> \in made

OwnIds == \A i \in DOMAIN ids : <<ids[i].of, ids[i].id, runs>> \in made

OneRowEach ==
  \A k \in 1..3 : \A c, d \in DOMAIN children[Child[k]] :
    c.of = d.of /\ c.id = d.id => c = d

\* The rows, and the run's own list, are for orders that their run inserted, and
\* no order has two rows of one kind, in whichever splits.
Owned ==
  /\ blind \intersect {"cut", "readback"} = {} => OwnRows /\ OwnIds
  /\ "readback" \notin blind => OneRowEach

LEMMA InitOwned ==
  ASSUME Init
  PROVE  Owned
PROOF
<1>1. \A k \in 1..3 : DOMAIN children[Child[k]] = {}
  BY ChildFacts DEF Init, EmptyBag, SetToBag
<1>2. DOMAIN ids = {}
  BY DEF Init
<1> QED
  BY <1>1, <1>2 DEF Owned, OwnRows, OwnIds, OneRowEach

\* Nothing that leaves the child tables alone takes an order from its run.
LEMMA StillOwned ==
  ASSUME Owned, UNCHANGED children, made \subseteq made', blind \subseteq blind',
         blind' \intersect {"cut", "readback"} = {} /\ OwnIds => OwnIds'
  PROVE  Owned'
PROOF
<1>1. blind' \intersect {"cut", "readback"} = {} => OwnRows'
  BY DEF Owned, OwnRows
<1>2. blind' \intersect {"cut", "readback"} = {} => OwnIds'
  BY DEF Owned
<1>3. "readback" \notin blind' => OneRowEach'
  BY DEF Owned, OneRowEach
<1> QED
  BY <1>1, <1>2, <1>3 DEF Owned

LEMMA SameIdsOwned ==
  ASSUME Owned, made \subseteq made', blind \subseteq blind',
         UNCHANGED <<children, ids, runs>>
  PROVE  Owned'
PROOF
<1>1. OwnIds => OwnIds'
  BY DEF OwnIds
<1> QED
  BY <1>1, StillOwned

LEMMA NoIdsOwned ==
  ASSUME Owned, made \subseteq made', blind \subseteq blind', UNCHANGED children, ids' = <<>>
  PROVE  Owned'
PROOF
<1>1. OwnIds'
  BY DEF OwnIds
<1> QED
  BY <1>1, StillOwned

\* The ids that RETURNING brings back are of orders this run has just inserted.
LEMMA FlushOrdersOwned ==
  ASSUME IInv, Owned, FlushOrders
  PROVE  Owned'
PROOF
<1>1. /\ at = "filling" /\ Insert /\ ids' = ids \o Returned(pending)
      /\ UNCHANGED <<children, runs, blind>>
      /\ made' = made \union ({split} \X NewIds \X {runs})
  BY DEF FlushOrders, Insert, history
<1>2. Shaped /\ split \in 1..Len(orders) /\ serial[split] \in Nat /\ pending \in Nat
  <2>1. Shaped /\ Places
    BY DEF IInv
  <2>2. split \in 1..Len(orders)
    BY <1>1, <2>1, SplitFacts DEF Places
  <2>3. pending \in Nat
    BY <2>1, CityAssumption DEF Shaped, TypeOK
  <2> QED
    BY <2>1, <2>2, <2>3, SplitFacts
<1>3. /\ ids' \in Seq([of : DOMAIN orders, id : Nat \ {0}])
      /\ \A i \in DOMAIN ids : ids'[i] = ids[i]
      /\ \A i \in DOMAIN ids' : i \notin DOMAIN ids =>
           ids'[i].of = split /\ ids'[i].id \in NewIds
  BY <1>1, <1>2, MoreIds DEF NewIds
<1>4. OwnIds => OwnIds'
  <2> SUFFICES ASSUME OwnIds, NEW i \in DOMAIN ids'
               PROVE  <<ids'[i].of, ids'[i].id, runs>> \in made'
    BY <1>1 DEF OwnIds
  <2>1. CASE i \in DOMAIN ids
    <3>1. <<ids[i].of, ids[i].id, runs>> \in made /\ ids'[i] = ids[i]
      BY <1>3, <2>1 DEF OwnIds
    <3> QED
      BY <1>1, <3>1
  <2>2. CASE i \notin DOMAIN ids
    <3>1. ids'[i].of = split /\ ids'[i].id \in NewIds
      BY <1>3, <2>2
    <3> QED
      BY <1>1, <3>1
  <2> QED
    BY <2>1, <2>2
<1> QED
  BY <1>1, <1>4, StillOwned

\* A chunk is written for orders of this run's list, none of which has had a row.
LEMMA ChunkOwned ==
  ASSUME IInv, Owned, at = "sending", WriteChunk,
         UNCHANGED <<made, ids, runs, blind>>
  PROVE  Owned'
PROOF
<1>0. Shaped /\ Places /\ Fresh
  BY DEF IInv
<1>1. Chunk \subseteq sending /\ sending \subseteq DOMAIN ids
  BY <1>0 DEF Chunk, Shaped, TypeOK
<1>2. step \in 1..3 /\ DOMAIN children = Range(Child) /\ Child[step] \in Range(Child)
  BY <1>0, ChildFacts DEF Places, Shaped
<1> DEFINE old == children[Child[step]]
           chunk == {ChildOf(ids[i]) : i \in Chunk}
           bag == SetToBag(chunk)
<1>3. \A k \in 1..3 :
        DOMAIN children'[Child[k]] = IF k = step THEN DOMAIN old \union chunk
                                     ELSE DOMAIN children[Child[k]]
  <2>1. children' = [children EXCEPT ![Child[step]] = old (+) bag]
    BY DEF WriteChunk
  <2>2. DOMAIN (old (+) bag) = DOMAIN old \union chunk
    <3>1. DOMAIN bag = chunk
      BY DEF SetToBag
    <3> HIDE DEF bag, old, chunk
    <3> QED
      BY <3>1 DEF (+)
  <2> HIDE DEF bag, old, chunk
  <2> QED
    BY <1>2, <2>1, <2>2, ChildFacts
<1>4. ASSUME NEW c \in chunk
      PROVE  \E i \in Chunk : /\ c.of = ids[i].of /\ c.id = ids[i].id
                              /\ c = [of |-> c.of, id |-> c.id, in |-> split, run |-> runs]
                              /\ c.run = runs
  BY DEF ChildOf
<1> HIDE DEF old, chunk
<1>5. ASSUME blind \intersect {"cut", "readback"} = {}
      PROVE  OwnRows' /\ OwnIds'
  <2>1. OwnRows /\ OwnIds
    BY <1>5 DEF Owned
  <2>2. \A c \in chunk : <<c.of, c.id, c.run>> \in made
    <3> SUFFICES ASSUME NEW c \in chunk
                 PROVE  <<c.of, c.id, c.run>> \in made
      OBVIOUS
    <3>1. PICK i \in Chunk : c.of = ids[i].of /\ c.id = ids[i].id /\ c.run = runs
      BY <1>4
    <3> QED
      BY <1>1, <2>1, <3>1 DEF OwnIds
  <2>3. OwnRows'
    BY <1>2, <1>3, <2>1, <2>2 DEF OwnRows, old
  <2>4. OwnIds'
    BY <2>1 DEF OwnIds
  <2> QED
    BY <2>3, <2>4
<1>6. ASSUME "readback" \notin blind
      PROVE  OneRowEach'
  <2>1. OneRowEach
    BY <1>6 DEF Owned
  <2>2. \A c \in chunk : \A d \in DOMAIN old : ~(c.of = d.of /\ c.id = d.id)
    <3> SUFFICES ASSUME NEW c \in chunk, NEW d \in DOMAIN old, c.of = d.of, c.id = d.id
                 PROVE  FALSE
      OBVIOUS
    <3>1. PICK i \in Chunk : c.of = ids[i].of /\ c.id = ids[i].id
      BY <1>4
    <3>2. ~Has(ids[i].of, ids[i].id, step)
      BY <1>0, <1>1, <1>6 DEF Fresh
    <3> QED
      BY <3>1, <3>2 DEF Has, old
  <2>3. \A c, d \in chunk : c.of = d.of /\ c.id = d.id => c = d
    <3> SUFFICES ASSUME NEW c \in chunk, NEW d \in chunk, c.of = d.of, c.id = d.id
                 PROVE  c = d
      OBVIOUS
    <3>1. c = [of |-> c.of, id |-> c.id, in |-> split, run |-> runs]
      BY <1>4
    <3>2. d = [of |-> d.of, id |-> d.id, in |-> split, run |-> runs]
      BY <1>4
    <3> QED
      BY <3>1, <3>2
  <2>4. ASSUME NEW k \in 1..3, NEW c \in DOMAIN children'[Child[k]],
               NEW d \in DOMAIN children'[Child[k]], c.of = d.of, c.id = d.id
        PROVE  c = d
    <3>1. CASE k = step
      <4>1. c \in DOMAIN old \union chunk /\ d \in DOMAIN old \union chunk
        BY <1>3, <3>1
      <4>2. c \in DOMAIN old /\ d \in DOMAIN old => c = d
        BY <2>1, <2>4, <1>2 DEF OneRowEach, old
      <4> QED
        BY <2>2, <2>3, <2>4, <4>1, <4>2
    <3>2. CASE k # step
      BY <1>3, <2>1, <2>4, <3>2 DEF OneRowEach
    <3> QED
      BY <3>1, <3>2
  <2> QED
    BY <2>4 DEF OneRowEach
<1> QED
  BY <1>5, <1>6 DEF Owned

LEMMA InsertAdds ==
  ASSUME Insert
  PROVE  made \subseteq made'
BY DEF Insert

\* No id that came back from a batch cut short, or was read back, is vouched for.
LEMMA BlindOwned ==
  ASSUME Owned, made \subseteq made', blind \subseteq blind', UNCHANGED children,
         "cut" \in blind' \/ "readback" \in blind'
  PROVE  Owned'
BY StillOwned

LEMMA NextOwned ==
  ASSUME IInv, Owned, [Next]_vars
  PROVE  Owned'
PROOF
<1>1. CASE StartRun
  BY <1>1, NoIdsOwned DEF StartRun, dbVars
<1>2. CASE CountSplit1 \/ MakeRow \/ NextSplit \/ NextChild \/ CityDone
  BY <1>2, SameIdsOwned DEF CountSplit1, MakeRow, NextSplit, NextChild, CityDone, dbVars,
     childVars, history
<1>3. CASE CountFails \/ CreateFails \/ Crash
  BY <1>3, SameIdsOwned DEF CountFails, CreateFails, Crash, Fault, dbVars, childVars
<1>4. CASE CreateTable
  BY <1>4, SameIdsOwned DEF CreateTable, history
<1>5. CASE FlushOrders
  BY <1>5, FlushOrdersOwned
<1>6. CASE FlushCut
  <2>1. made \subseteq made' /\ UNCHANGED children /\ blind' = blind \union {"cut"}
    BY <1>6, InsertAdds DEF FlushCut, Fault
  <2> QED
    BY <2>1, BlindOwned
<1>7. CASE QueryFails \/ ExecFails
  <2>1. made \subseteq made' /\ blind \subseteq blind' /\ UNCHANGED <<children, ids, runs>>
    BY <1>7, InsertAdds DEF QueryFails, ExecFails, Fault, RollBack, childVars
  <2> QED
    BY <2>1, SameIdsOwned
<1>8. CASE ExecAgain
  <2>1. made \subseteq made' /\ UNCHANGED <<children, ids, runs, blind>>
    BY <1>8, InsertAdds DEF ExecAgain, childVars, history
  <2> QED
    BY <2>1, SameIdsOwned
<1>9. CASE FinishOrders
  <2>1. UNCHANGED <<children, made, ids, runs, blind>>
    BY <1>9 DEF FinishOrders, BeginChildren, dbVars, history
  <2> QED
    BY <2>1, SameIdsOwned
<1>10. CASE ReadBack
  <2>1. UNCHANGED <<children, made>> /\ blind' = blind \union {"readback"}
    BY <1>10 DEF ReadBack, BeginChildren, dbVars
  <2> QED
    BY <2>1, BlindOwned
<1>11. CASE ReadBackFails
  <2>1. UNCHANGED <<children, made>> /\ blind \subseteq blind' /\ ids' = <<>>
    BY <1>11 DEF ReadBackFails, BeginChildren, Fault, dbVars
  <2> QED
    BY <2>1, NoIdsOwned
<1>12. CASE SendChunk
  BY <1>12, ChunkOwned DEF SendChunk, history
<1>13. CASE ChunkFails
  <2>1. /\ at = "sending" /\ UNCHANGED <<made, ids, runs, blind>>
        /\ UNCHANGED children \/ WriteChunk
    BY <1>13 DEF ChunkFails, Fault, history
  <2> QED
    BY <2>1, ChunkOwned, SameIdsOwned
<1>14. CASE UNCHANGED vars
  BY <1>14, SameIdsOwned DEF vars, dbVars, childVars, history
<1> QED
  BY <1>1, <1>2, <1>3, <1>4, <1>5, <1>6, <1>7, <1>8, <1>9, <1>10, <1>11, <1>12, <1>13,
     <1>14 DEF Next, Progress, Failure

LEMMA OwnedInvariance == Spec => []Owned
BY InitOwned, NextOwned, Invariance, PTL DEF Spec

-----------------------------------------------------------------------------
(* Theorems *)

\* However often seedCity is run, killed or fails, each run adds no more orders
\* than split 1, the only split it counts, lacks of --records-per-city, unless a
\* count failed, a batch was inserted twice or its answer was cut short.
THEOREM GrowthBounded == Spec => []GrowthIsBounded
PROOF
<1>1. ASSUME IInv
      PROVE  GrowthIsBounded
  <2>1. Shaped /\ Growth
    BY <1>1 DEF IInv
  <2>2. TotalRows = Rows /\ Rows \in Nat /\ Size(1) \in Nat /\ Rest \in Int
    BY <2>1, RowsIsTotal, SplitFacts
  <2>3. ASSUME Quiet
        PROVE  Size(1) <= Target /\ TotalRows <= Size(1) + runs * (Target - Size(1))
    <3> DEFINE d == runs * (Target - Size(1))
    <3>1. Size(1) <= Target /\ Rest <= d /\ Rest = Rows - Size(1)
      BY <2>1, <2>3 DEF Growth, Rest
    <3>2. d \in Int
      BY <2>1, <2>2, CityAssumption DEF Shaped, TypeOK
    <3> HIDE DEF d
    <3>3. TotalRows <= Size(1) + d
      BY <2>2, <3>1, <3>2
    <3> QED
      BY <3>1, <3>3 DEF d
  <2> QED
    BY <2>3 DEF GrowthIsBounded, Quiet, Size
<1> QED
  BY <1>1, Invariance, PTL

\* createNextSplitTables is only called for a split that holds the cap, over all
\* the runs, though each believes the later splits to be empty; only a batch
\* whose answer was cut short, and which counts as inserted, leaves one short.
THEOREM SplitsFill == Spec => []SplitsFillInOrder
PROOF
<1>1. ASSUME IInv
      PROVE  SplitsFillInOrder
  <2>1. DOMAIN orders = 1..Len(orders) /\ Full
    BY <1>1, SplitFacts DEF IInv
  <2> QED
    BY <2>1 DEF Full, Size, SplitsFillInOrder
<1> QED
  BY <1>1, Invariance, PTL

\* The variables keep their types.  A row that seedOrderItems and its two siblings
\* insert is there for an order that the run of the row had inserted itself, in
\* the split of the row or in an earlier one, and no order gets two rows of one
\* kind in whichever splits and from whichever runs, unless the ids were read
\* back or belong to a batch that was cut short.
THEOREM ChildrenName == Spec => []ChildrenNameTheirOrder
PROOF
<1>1. ASSUME IInv, Owned
      PROVE  ChildrenNameTheirOrder
  <2>1. Shaped /\ Named
    BY <1>1 DEF IInv
  <2>2. ASSUME NEW k \in Range(Child), NEW c \in DOMAIN children[k]
        PROVE  /\ c.of <= c.in
               /\ "cut" \in blind \/ c.id \in orders[c.of]
               /\ blind \intersect {"cut", "readback"} # {} \/ <<c.of, c.id, c.run>> \in made
               /\ "readback" \in blind \/
                    /\ children[k][c] = 1
                    /\ \A d \in DOMAIN children[k] : d.of = c.of /\ d.id = c.id => d = c
    <3>1. PICK j \in 1..3 : k = Child[j]
      BY ChildFacts
    <3>2. /\ c.of <= c.in
          /\ "cut" \in blind \/ c.id \in orders[c.of]
          /\ "readback" \in blind \/ children[k][c] = 1
      BY <2>1, <2>2, <3>1 DEF Named
    <3>3. blind \intersect {"cut", "readback"} # {} \/ <<c.of, c.id, c.run>> \in made
      BY <1>1, <2>2, <3>1 DEF Owned, OwnRows
    <3>4. "readback" \in blind \/
            \A d \in DOMAIN children[k] : d.of = c.of /\ d.id = c.id => d = c
      BY <1>1, <2>2, <3>1 DEF Owned, OneRowEach
    <3> QED
      BY <3>2, <3>3, <3>4
  <2> QED
    BY <2>1, <2>2 DEF Shaped, ChildrenNameTheirOrder
<1> QED
  BY <1>1, Invariance, OwnedInvariance, PTL

\* When seedCity ends and nothing has ever failed, every order that any run
\* inserted, in whichever split, has its items and its status event.
THEOREM RunsSeedTheirChildren == Spec => []RunSeedsItsChildren
PROOF
<1>1. ASSUME IInv
      PROVE  RunSeedsItsChildren
  <2>1. DOMAIN orders = 1..Len(orders) /\ Given
    BY <1>1, SplitFacts DEF IInv
  <2> SUFFICES ASSUME at = "ok", faults = 0, NEW n \in DOMAIN orders, NEW k \in 1..2,
                      NEW i \in orders[n]
               PROVE  Has(n, i, k)
    BY DEF RunSeedsItsChildren, Has
  <2>2. Has(n, i, k) \/ Waits(n, i, k)
    BY <2>1 DEF Given
  <2> QED
    BY <2>2 DEF Waits
<1> QED
  BY <1>1, Invariance, PTL
=============================================================================
