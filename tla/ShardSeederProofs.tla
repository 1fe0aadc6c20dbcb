------------------------- MODULE ShardSeederProofs -------------------------
(***************************************************************************)
(* Proofs about ShardSeeder, for every target, cap and batch and for every *)
(* number of runs and faults.                                              *)
(*                                                                         *)
(* The rows of a shard are a fold over its splits.  The first part shows   *)
(* that the fold is the sum of the lengths, by induction over the splits;  *)
(* the induction is derived from WFMin.  The invariant then follows a run: *)
(* what it knows while it counts (Counting), where the rows it makes go    *)
(* (Places), how full the splits are and what the run still owes (Filled), *)
(* whom child rows name (Named), which customers have no child row yet     *)
(* (Fresh) and which have all theirs (Given).                              *)
(***************************************************************************)
EXTENDS ShardSeeder, Integers, FiniteSetTheorems, SequenceTheorems,
        WellFoundedInduction, TLAPS

-----------------------------------------------------------------------------
(* Sums *)

\* Induction: a set that holds 0 and the successor of each of its numbers holds
\* every natural number.
LEMMA NaturalInduction ==
  ASSUME NEW S, 0 \in S, \A n \in Nat : n \in S => n + 1 \in S
  PROVE  Nat \subseteq S
PROOF
<1> DEFINE T == Nat \ S
           R == OpToRel(<, Nat)
<1> SUFFICES ASSUME T # {} PROVE FALSE
  OBVIOUS
<1>1. PICK x \in T : \A y \in T : ~ (<<y, x>> \in R)
  <2>1. T \subseteq Nat
    OBVIOUS
  <2> HIDE DEF T
  <2> QED
    BY <2>1, NatLessThanWellFounded, WFMin
<1>2. x \in Nat /\ x # 0
  OBVIOUS
<1>3. x - 1 \in Nat /\ x - 1 < x /\ x - 1 + 1 = x
  BY <1>2
<1>4. x - 1 \notin S
  BY <1>3
<1>5. <<x - 1, x>> \in R
  BY <1>2, <1>3 DEF OpToRel
<1> QED
  BY <1>1, <1>3, <1>4, <1>5

\* The partial sums of the first n numbers of f.
PartialSums(p, f, n) ==
  /\ p \in [0..n -> Nat] /\ p[0] = 0
  /\ \A i \in 1..n : p[i] = p[i - 1] + f[i]

\* The sum of the first n numbers of f.
SumTo(f, n) == (CHOOSE p : PartialSums(p, f, n))[n]

\* Every list of numbers has its partial sums.
LEMMA PartialSumsExist ==
  ASSUME NEW n \in Nat, NEW f \in [1..n -> Nat]
  PROVE  \E p : PartialSums(p, f, n)
PROOF
<1> DEFINE S == {m \in Nat : m <= n => \E p : PartialSums(p, f, m)}
<1>1. 0 \in S
  <2>1. PartialSums([i \in 0..0 |-> 0], f, 0)
    BY DEF PartialSums
  <2> QED
    BY <2>1
<1>2. ASSUME NEW m \in Nat, m \in S PROVE m + 1 \in S
  <2> SUFFICES ASSUME m + 1 <= n PROVE \E p : PartialSums(p, f, m + 1)
    OBVIOUS
  <2>1. PICK p : PartialSums(p, f, m)
    BY <1>2
  <2> DEFINE q == [i \in 0..m + 1 |-> IF i = m + 1 THEN p[m] + f[m + 1] ELSE p[i]]
  <2>2. p[m] \in Nat /\ f[m + 1] \in Nat
    BY <2>1 DEF PartialSums
  <2>3. q \in [0..m + 1 -> Nat] /\ q[0] = 0
    BY <2>1, <2>2 DEF PartialSums
  <2>4. ASSUME NEW i \in 1..m + 1 PROVE q[i] = q[i - 1] + f[i]
    <3>1. CASE i = m + 1
      <4>1. i - 1 = m /\ m \in 0..m + 1 /\ m # m + 1
        BY <3>1
      <4>2. q[i] = p[m] + f[m + 1] /\ q[m] = p[m]
        BY <3>1, <4>1
      <4> QED
        BY <3>1, <4>1, <4>2
    <3>2. CASE i # m + 1
      <4>1. i \in 1..m /\ i - 1 \in 0..m /\ i - 1 # m + 1
        BY <3>2
      <4>2. q[i] = p[i] /\ q[i - 1] = p[i - 1]
        BY <3>2, <4>1
      <4> QED
        BY <2>1, <4>1, <4>2 DEF PartialSums
    <3> QED
      BY <3>1, <3>2
  <2>5. PartialSums(q, f, m + 1)
    BY <2>3, <2>4 DEF PartialSums
  <2> QED
    BY <2>5
<1>3. n \in S
  <2> HIDE DEF S
  <2> QED
    BY <1>1, <1>2, NaturalInduction
<1> QED
  BY <1>3

\* SumTo is the last of the partial sums.
LEMMA SumToPartial ==
  ASSUME NEW n \in Nat, NEW f \in [1..n -> Nat]
  PROVE  \E p : PartialSums(p, f, n) /\ SumTo(f, n) = p[n]
BY PartialSumsExist DEF SumTo

\* List g is list f, but d more in place c.
MoreBy(f, g, n, c, d) ==
  \A i \in 1..n : f[i] \in Nat /\ g[i] = IF i = c THEN f[i] + d ELSE f[i]

\* Its partial sums are d more from there on.
LEMMA PartialChange ==
  ASSUME NEW n \in Nat, NEW f, NEW g, NEW p, NEW q, NEW c \in 1..n, NEW d \in Nat,
         MoreBy(f, g, n, c, d), PartialSums(p, f, n), PartialSums(q, g, n)
  PROVE  q[n] = p[n] + d
PROOF
<1> DEFINE P(m) == q[m] = IF m < c THEN p[m] ELSE p[m] + d
           S == {m \in Nat : m <= n => P(m)}
<1>1. 0 \in S
  BY DEF PartialSums
<1>2. ASSUME NEW m \in Nat, m \in S PROVE m + 1 \in S
  <2> SUFFICES ASSUME m + 1 <= n PROVE P(m + 1)
    OBVIOUS
  <2>1. P(m) /\ m + 1 \in 1..n /\ m + 1 - 1 = m
    BY <1>2
  <2>2. p[m] \in Nat /\ f[m + 1] \in Nat
    BY <2>1 DEF PartialSums, MoreBy
  <2>3. p[m + 1] = p[m] + f[m + 1] /\ q[m + 1] = q[m] + g[m + 1]
    <3>1. ASSUME NEW i \in 1..n PROVE p[i] = p[i - 1] + f[i] /\ q[i] = q[i - 1] + g[i]
      BY DEF PartialSums
    <3> QED
      BY <2>1, <3>1
  <2>4. g[m + 1] = IF m + 1 = c THEN f[m + 1] + d ELSE f[m + 1]
    BY <2>1 DEF MoreBy
  <2> QED
    BY <2>1, <2>2, <2>3, <2>4
<1>3. n \in S
  <2> HIDE DEF S
  <2> QED
    BY <1>1, <1>2, NaturalInduction
<1> QED
  BY <1>3

\* And so is its sum.
LEMMA SumToChange ==
  ASSUME NEW n \in Nat, NEW f \in [1..n -> Nat], NEW g \in [1..n -> Nat],
         NEW c \in 1..n, NEW d \in Nat, MoreBy(f, g, n, c, d)
  PROVE  SumTo(g, n) = SumTo(f, n) + d
PROOF
<1>1. PICK p : PartialSums(p, f, n) /\ SumTo(f, n) = p[n]
  BY SumToPartial
<1>2. PICK q : PartialSums(q, g, n) /\ SumTo(g, n) = q[n]
  BY SumToPartial
<1>3. q[n] = p[n] + d
  BY <1>1, <1>2, PartialChange
<1> QED
  BY <1>1, <1>2, <1>3

\* Equal lists have equal sums.
LEMMA PartialSame ==
  ASSUME NEW n \in Nat, NEW f, NEW g, NEW p, NEW q,
         \A i \in 1..n : f[i] \in Nat /\ f[i] = g[i],
         PartialSums(p, f, n), PartialSums(q, g, n)
  PROVE  p[n] = q[n]
PROOF
<1> DEFINE S == {m \in Nat : m <= n => p[m] = q[m]}
<1>1. 0 \in S
  BY DEF PartialSums
<1>2. ASSUME NEW m \in Nat, m \in S PROVE m + 1 \in S
  <2> SUFFICES ASSUME m + 1 <= n PROVE p[m + 1] = q[m + 1]
    OBVIOUS
  <2>1. p[m] = q[m] /\ m + 1 \in 1..n /\ m + 1 - 1 = m
    BY <1>2
  <2>2. p[m + 1] = p[m] + f[m + 1] /\ q[m + 1] = q[m] + g[m + 1]
    BY <2>1 DEF PartialSums
  <2> QED
    BY <2>1, <2>2
<1>3. n \in S
  <2> HIDE DEF S
  <2> QED
    BY <1>1, <1>2, NaturalInduction
<1> QED
  BY <1>3

\* A list with one more number has a sum that is greater by that number.
LEMMA SumToStep ==
  ASSUME NEW n \in Nat, NEW f \in [1..n -> Nat], NEW g \in [1..n + 1 -> Nat],
         \A i \in 1..n : f[i] = g[i]
  PROVE  SumTo(g, n + 1) = SumTo(f, n) + g[n + 1]
PROOF
<1>1. PICK p : PartialSums(p, f, n) /\ SumTo(f, n) = p[n]
  BY SumToPartial
<1>2. n + 1 \in Nat
  OBVIOUS
<1>3. PICK q : PartialSums(q, g, n + 1) /\ SumTo(g, n + 1) = q[n + 1]
  BY <1>2, SumToPartial
<1> DEFINE r == [i \in 0..n |-> q[i]]
<1>4. PartialSums(r, g, n)
  <2>1. \A i \in 1..n : i \in 1..n + 1 /\ i - 1 \in 0..n
    OBVIOUS
  <2>2. \A i \in 1..n : r[i] = r[i - 1] + g[i]
    BY <1>3, <2>1 DEF PartialSums
  <2>3. r \in [0..n -> Nat] /\ r[0] = 0
    BY <1>3 DEF PartialSums
  <2> QED
    BY <2>2, <2>3 DEF PartialSums
<1>5. p[n] = r[n]
  <2>1. \A i \in 1..n : f[i] \in Nat /\ f[i] = g[i]
    OBVIOUS
  <2> HIDE DEF r
  <2> QED
    BY <1>1, <1>4, <2>1, PartialSame
<1>6. n + 1 \in 1..n + 1 /\ n + 1 - 1 = n /\ r[n] = q[n]
  OBVIOUS
<1>7. q[n + 1] = q[n] + g[n + 1]
  <2> HIDE DEF r
  <2> QED
    BY <1>3, <1>6 DEF PartialSums
<1> QED
  BY <1>1, <1>3, <1>5, <1>6, <1>7

\* The sum of the empty list, and the type of a sum.
LEMMA SumToType ==
  ASSUME NEW n \in Nat, NEW f \in [1..n -> Nat]
  PROVE  SumTo(f, n) \in Nat /\ (n = 0 => SumTo(f, n) = 0)
BY SumToPartial DEF PartialSums

-----------------------------------------------------------------------------
(* The rows of a list of splits *)

\* The rows of the first n of them.
RowsUpTo(splits, n) == SumTo([i \in 1..n |-> Len(splits[i])], n)

\* TotalRows of any list of splits.
SumOfLengths(splits) == FoldSeq(LAMBDA rows, sum : Len(rows) + sum, 0, splits)

Pick(s) == CHOOSE x \in s : TRUE

\* t is the function that the fold computes over the subsets of S.
Folds(t, splits, S) ==
  t = [s \in SUBSET S |->
         IF s = {} THEN 0 ELSE Len(splits[Pick(s)]) + t[s \ {Pick(s)}]]

\* t adds the lengths of any set of splits, in any order.
Adds(t, splits, S) ==
  /\ t[{}] = 0
  /\ \A s \in SUBSET S :
       t[s] \in Nat /\ \A x \in s : t[s] = Len(splits[x]) + t[s \ {x}]

HaveLengths(splits, S) == \A x \in S : Len(splits[x]) \in Nat

LEMMA TotalIsSum == TotalRows = SumOfLengths(customers)
BY DEF TotalRows, SumOfLengths

LEMMA TotalIsSumNext == TotalRows' = SumOfLengths(customers')
BY DEF TotalRows, SumOfLengths, FoldSeq, FoldFunction, FoldFunctionOnSet,
       MapThenFoldSet, Pick

LEMMA SumIsFold ==
  ASSUME NEW splits
  PROVE  SumOfLengths(splits) =
           (CHOOSE t : Folds(t, splits, DOMAIN splits))[DOMAIN splits]
BY DEF SumOfLengths, FoldSeq, FoldFunction, FoldFunctionOnSet, MapThenFoldSet,
       Pick, Folds

\* Taking an element from a set of at most m + 1 leaves at most m.
LEMMA TakeOne ==
  ASSUME NEW S, IsFiniteSet(S), NEW s \in SUBSET S, NEW x \in s, NEW m \in Nat,
         Cardinality(s) <= m + 1
  PROVE  /\ Cardinality(s \ {x}) <= m /\ s \ {x} \in SUBSET S
         /\ Cardinality(s \ {x}) \in Nat
PROOF
<1>1. IsFiniteSet(s) /\ Cardinality(s) \in Nat
  BY FS_Subset, FS_CardinalityType
<1>2. Cardinality(s \ {x}) = Cardinality(s) - 1
  BY <1>1, FS_RemoveElement
<1>3. Cardinality(s \ {x}) \in Nat
  BY <1>1, FS_RemoveElement, FS_CardinalityType
<1> QED
  BY <1>1, <1>2, <1>3

\* The fold is defined: the function exists.
LEMMA FoldsExist ==
  ASSUME NEW S, IsFiniteSet(S), NEW splits, HaveLengths(splits, S)
  PROVE  \E t : Folds(t, splits, S)
PROOF
<1> USE DEF HaveLengths
<1> DEFINE D(m) == {s \in SUBSET S : Cardinality(s) <= m}
           Value(t, s) == IF s = {} THEN 0
                          ELSE Len(splits[Pick(s)]) + t[s \ {Pick(s)}]
           Defined(t, m) == /\ t \in [D(m) -> Nat]
                            /\ \A s \in D(m) : t[s] = Value(t, s)
           T == {m \in Nat : \E t : Defined(t, m)}
<1>1. \A s \in SUBSET S : IsFiniteSet(s) /\ Cardinality(s) \in Nat
  BY FS_Subset, FS_CardinalityType
<1>2. \A s \in SUBSET S : s # {} => Pick(s) \in s
  BY DEF Pick
<1>3. 0 \in T
  <2>1. \A s \in D(0) : s = {}
    BY <1>1, FS_EmptySet
  <2>2. Defined([s \in D(0) |-> 0], 0)
    BY <2>1
  <2> QED
    BY <2>2
<1>4. ASSUME NEW m \in Nat, m \in T PROVE m + 1 \in T
  <2>1. PICK t : Defined(t, m)
    BY <1>4
  <2> DEFINE u == [s \in D(m + 1) |-> Value(t, s)]
  <2>2. \A s \in D(m + 1) : s # {} => s \ {Pick(s)} \in D(m)
    BY <1>2, TakeOne
  <2>3. \A s \in D(m) : s \in D(m + 1) /\ t[s] = Value(t, s) /\ t[s] \in Nat
    BY <1>1, <2>1
  <2>4. \A s \in D(m) : u[s] = t[s]
    <3> HIDE DEF Value, D
    <3> QED
      BY <2>3
  <2>5. \A s \in D(m + 1) : Value(t, s) \in Nat
    <3> HIDE DEF D
    <3> SUFFICES ASSUME NEW s \in D(m + 1), s # {}
                 PROVE  Len(splits[Pick(s)]) + t[s \ {Pick(s)}] \in Nat
      OBVIOUS
    <3>1. Pick(s) \in S
      BY <1>2 DEF D
    <3>2. t[s \ {Pick(s)}] \in Nat
      BY <2>2, <2>3
    <3> QED
      BY <3>1, <3>2
  <2>6. \A s \in D(m + 1) : Value(u, s) = Value(t, s)
    <3> HIDE DEF u, D
    <3> QED
      BY <2>2, <2>4
  <2>7. u \in [D(m + 1) -> Nat] /\ \A s \in D(m + 1) : u[s] = Value(t, s)
    <3> HIDE DEF Value, D
    <3> QED
      BY <2>5
  <2>8. Defined(u, m + 1)
    <3> HIDE DEF u, Value, D
    <3> QED
      BY <2>6, <2>7
  <2>9. \E v : Defined(v, m + 1)
    <3> HIDE DEF Defined, u
    <3> QED
      BY <2>8
  <2> HIDE DEF Defined, u
  <2> QED
    BY <2>9
<1>5. Cardinality(S) \in Nat /\ D(Cardinality(S)) = SUBSET S
  <2>1. \A s \in SUBSET S : Cardinality(s) <= Cardinality(S)
    BY FS_Subset
  <2> QED
    BY <2>1, FS_CardinalityType
<1>6. Cardinality(S) \in T
  <2> HIDE DEF T
  <2> QED
    BY <1>3, <1>4, <1>5, NaturalInduction
<1>7. PICK t : Defined(t, Cardinality(S))
  BY <1>6
<1>8. t \in [SUBSET S -> Nat] /\ \A s \in SUBSET S : t[s] = Value(t, s)
  <2> HIDE DEF Value, D
  <2> QED
    BY <1>5, <1>7
<1>9. t = [s \in SUBSET S |-> Value(t, s)]
  <2> HIDE DEF Value
  <2> QED
    BY <1>8
<1> QED
  BY <1>9 DEF Folds

\* Whatever element is taken first, the fold adds it to the fold of the others.
LEMMA FoldTakesAny ==
  ASSUME NEW S, IsFiniteSet(S), NEW splits, HaveLengths(splits, S),
         NEW t, Folds(t, splits, S)
  PROVE  Adds(t, splits, S)
PROOF
<1> USE DEF HaveLengths
<1> DEFINE Good(s) == /\ t[s] \in Nat
                      /\ \A x \in s : t[s] = Len(splits[x]) + t[s \ {x}]
           Small(m) == {s \in SUBSET S : Cardinality(s) <= m}
           T == {m \in Nat : \A s \in Small(m) : Good(s)}
<1>1. \A s \in SUBSET S : IsFiniteSet(s) /\ Cardinality(s) \in Nat
  BY FS_Subset, FS_CardinalityType
<1>2. \A s \in SUBSET S :
        t[s] = IF s = {} THEN 0 ELSE Len(splits[Pick(s)]) + t[s \ {Pick(s)}]
  <2> DEFINE F == [s \in SUBSET S |->
                     IF s = {} THEN 0 ELSE Len(splits[Pick(s)]) + t[s \ {Pick(s)}]]
  <2>1. t = F
    BY DEF Folds
  <2>2. \A s \in SUBSET S :
          F[s] = IF s = {} THEN 0 ELSE Len(splits[Pick(s)]) + t[s \ {Pick(s)}]
    OBVIOUS
  <2> HIDE DEF F
  <2> QED
    BY <2>1, <2>2, Zenon
<1>3. t[{}] = 0
  BY <1>2
<1>4. Good({})
  BY <1>3
<1>5. 0 \in T
  <2>1. \A s \in Small(0) : s = {}
    BY <1>1, FS_EmptySet
  <2> HIDE DEF Good, Small
  <2> QED
    BY <1>4, <2>1
<1>6. ASSUME NEW m \in Nat, \A s \in Small(m) : Good(s),
             NEW s \in Small(m + 1), s # {}
      PROVE  Good(s)
  <2> DEFINE y == Pick(s)
  <2>1. y \in s /\ y \in S
    BY <1>6 DEF Pick
  <2>2. t[s] = Len(splits[y]) + t[s \ {y}]
    BY <1>2, <1>6
  <2> HIDE DEF y
  <2>3. \A r \in Small(m + 1) : \A x \in r : r \ {x} \in Small(m) /\ x \in S
    BY TakeOne
  <2>4. \A r \in Small(m) : r \in Small(m + 1)
    BY <1>1
  <2>5. \A x \in s : Good(s \ {x})
    <3> HIDE DEF Good, Small
    <3> QED
      BY <1>6, <2>3
  <2>6. t[s] \in Nat
    <3>1. t[s \ {y}] \in Nat /\ Len(splits[y]) \in Nat
      BY <2>1, <2>5
    <3> QED
      BY <2>2, <3>1
  <2>7. ASSUME NEW x \in s PROVE t[s] = Len(splits[x]) + t[s \ {x}]
    <3>1. CASE x = y
      BY <2>2, <3>1
    <3>2. CASE x # y
      <4>1. x \in s \ {y} /\ y \in s \ {x} /\ (s \ {y}) \ {x} = (s \ {x}) \ {y}
        BY <2>1, <3>2
      <4> DEFINE rest == t[(s \ {x}) \ {y}]
      <4>2. t[s \ {y}] = Len(splits[x]) + rest
        BY <2>1, <2>5, <4>1
      <4>3. t[s \ {x}] = Len(splits[y]) + rest
        BY <2>5, <4>1
      <4>4. rest \in Nat
        <5> HIDE DEF Good, Small
        <5>1. s \ {x} \in Small(m + 1)
          BY <1>6, <2>3, <2>4
        <5>2. (s \ {x}) \ {y} \in Small(m)
          BY <2>3, <4>1, <5>1
        <5>3. Good((s \ {x}) \ {y})
          BY <1>6, <5>2
        <5> QED
          BY <5>3 DEF Good
      <4>5. Len(splits[x]) \in Nat /\ Len(splits[y]) \in Nat
        BY <2>1, <2>3
      <4> DEFINE withoutY == t[s \ {y}]
                 withoutX == t[s \ {x}]
                 lenX == Len(splits[x])
                 lenY == Len(splits[y])
      <4>6. t[s] = lenY + withoutY /\ withoutY = lenX + rest /\ withoutX = lenY + rest
        BY <2>2, <4>2, <4>3
      <4>7. lenX \in Nat /\ lenY \in Nat /\ rest \in Nat
        BY <4>4, <4>5
      <4>8. t[s] = lenX + withoutX
        <5> HIDE DEF rest, withoutX, withoutY, lenX, lenY
        <5> QED
          BY <4>6, <4>7
      <4> QED
        BY <4>8
    <3> QED
      BY <3>1, <3>2
  <2> QED
    BY <2>6, <2>7
<1>7. ASSUME NEW m \in Nat, m \in T PROVE m + 1 \in T
  <2> HIDE DEF Good, Small
  <2> SUFFICES ASSUME NEW s \in Small(m + 1) PROVE Good(s)
    OBVIOUS
  <2>1. \A r \in Small(m) : Good(r)
    BY <1>7
  <2> QED
    BY <1>4, <1>6, <2>1
<1>8. Cardinality(S) \in Nat /\ \A s \in SUBSET S : s \in Small(Cardinality(S))
  BY FS_Subset, FS_CardinalityType
<1>9. Cardinality(S) \in T
  <2> HIDE DEF T
  <2> QED
    BY <1>5, <1>7, <1>8, NaturalInduction
<1>10. \A s \in SUBSET S : Good(s)
  <2> HIDE DEF Good, Small
  <2> QED
    BY <1>8, <1>9
<1> QED
  BY <1>3, <1>10 DEF Adds

\* The fold of a list of splits is the sum of its lengths.
LEMMA SumOfLengthsIsRows ==
  ASSUME NEW n \in Nat, NEW splits, DOMAIN splits = 1..n,
         \A i \in 1..n : Len(splits[i]) \in Nat
  PROVE  SumOfLengths(splits) = RowsUpTo(splits, n)
PROOF
<1> DEFINE f == [i \in 1..n |-> Len(splits[i])]
           t == CHOOSE u : Folds(u, splits, 1..n)
           p == [i \in 0..n |-> t[1..i]]
<1>0. HaveLengths(splits, 1..n)
  BY DEF HaveLengths
<1>1. IsFiniteSet(1..n)
  BY FS_Interval
<1>2. Folds(t, splits, 1..n)
  BY <1>0, <1>1, FoldsExist
<1>3. SumOfLengths(splits) = t[1..n]
  BY SumIsFold
<1> HIDE DEF t
<1>4. Adds(t, splits, 1..n)
  BY <1>0, <1>1, <1>2, FoldTakesAny
<1>5. PartialSums(p, f, n)
  <2>1. \A i \in 0..n : 1..i \in SUBSET (1..n)
    OBVIOUS
  <2>2. p \in [0..n -> Nat]
    BY <1>4, <2>1 DEF Adds
  <2>3. p[0] = 0
    BY <1>4 DEF Adds
  <2>4. ASSUME NEW i \in 1..n PROVE p[i] = p[i - 1] + f[i]
    <3>1. i \in 1..i /\ (1..i) \ {i} = 1..i - 1 /\ i - 1 \in 0..n /\ i \in 0..n
      OBVIOUS
    <3>2. t[1..i] = Len(splits[i]) + t[(1..i) \ {i}]
      BY <1>4, <2>1, <3>1 DEF Adds
    <3>3. p[i] = t[1..i] /\ p[i - 1] = t[1..i - 1] /\ f[i] = Len(splits[i])
      BY <3>1
    <3>4. t[1..i - 1] \in Nat /\ Len(splits[i]) \in Nat
      BY <1>4, <2>1, <3>1 DEF Adds
    <3>5. t[1..i] = Len(splits[i]) + t[1..i - 1]
      BY <3>1, <3>2
    <3> HIDE DEF p, f
    <3> DEFINE a == t[1..i - 1]
               b == Len(splits[i])
    <3>6. p[i] = b + a /\ p[i - 1] = a /\ f[i] = b /\ a \in Nat /\ b \in Nat
      BY <3>3, <3>4, <3>5
    <3> HIDE DEF a, b
    <3> QED
      BY <3>6
  <2> HIDE DEF p, f
  <2> QED
    BY <2>2, <2>3, <2>4 DEF PartialSums
<1>6. f \in [1..n -> Nat]
  OBVIOUS
<1>7. p[n] = t[1..n]
  OBVIOUS
<1>8. p[n] = SumTo(f, n)
  <2> HIDE DEF p, f
  <2>1. PICK q : PartialSums(q, f, n) /\ SumTo(f, n) = q[n]
    BY <1>6, SumToPartial
  <2>2. \A i \in 1..n : f[i] \in Nat /\ f[i] = f[i]
    BY <1>6
  <2> QED
    BY <1>5, <2>1, <2>2, PartialSame
<1> QED
  BY <1>3, <1>7, <1>8 DEF RowsUpTo

\* Rows are counted one split after another.
LEMMA RowsUpToStep ==
  ASSUME NEW n \in Nat, NEW splits, \A i \in 1..n + 1 : Len(splits[i]) \in Nat
  PROVE  RowsUpTo(splits, n + 1) = RowsUpTo(splits, n) + Len(splits[n + 1])
PROOF
<1> DEFINE f == [i \in 1..n |-> Len(splits[i])]
           g == [i \in 1..n + 1 |-> Len(splits[i])]
<1>1. /\ f \in [1..n -> Nat] /\ g \in [1..n + 1 -> Nat]
      /\ \A i \in 1..n : f[i] = g[i]
  OBVIOUS
<1>2. g[n + 1] = Len(splits[n + 1])
  OBVIOUS
<1>3. SumTo(g, n + 1) = SumTo(f, n) + g[n + 1]
  <2> HIDE DEF f, g
  <2> QED
    BY <1>1, SumToStep
<1> QED
  BY <1>2, <1>3 DEF RowsUpTo

LEMMA RowsUpToType ==
  ASSUME NEW n \in Nat, NEW splits, \A i \in 1..n : Len(splits[i]) \in Nat
  PROVE  RowsUpTo(splits, n) \in Nat /\ (n = 0 => RowsUpTo(splits, n) = 0)
PROOF
<1> DEFINE f == [i \in 1..n |-> Len(splits[i])]
<1>1. f \in [1..n -> Nat]
  OBVIOUS
<1>2. SumTo(f, n) \in Nat /\ (n = 0 => SumTo(f, n) = 0)
  <2> HIDE DEF f
  <2> QED
    BY <1>1, SumToType
<1> QED
  BY <1>2 DEF RowsUpTo

\* Rows put into one split are added to the total.
LEMMA RowsUpToGrow ==
  ASSUME NEW n \in Nat, NEW a, NEW b, NEW k \in 1..n, NEW d \in Nat,
         \A i \in 1..n : Len(a[i]) \in Nat,
         \A i \in 1..n : i # k => Len(b[i]) = Len(a[i]),
         Len(b[k]) = Len(a[k]) + d
  PROVE  RowsUpTo(b, n) = RowsUpTo(a, n) + d
PROOF
<1> DEFINE f == [i \in 1..n |-> Len(a[i])]
           g == [i \in 1..n |-> Len(b[i])]
<1>1. f \in [1..n -> Nat] /\ g \in [1..n -> Nat]
  <2>1. \A i \in 1..n : Len(b[i]) \in Nat
    OBVIOUS
  <2> QED
    BY <2>1
<1>2. MoreBy(f, g, n, k, d)
  BY DEF MoreBy
<1>3. SumTo(g, n) = SumTo(f, n) + d
  <2> HIDE DEF f, g
  <2> QED
    BY <1>1, <1>2, SumToChange
<1> QED
  BY <1>3 DEF RowsUpTo

LEMMA RowsUpToSame ==
  ASSUME NEW n \in Nat, NEW a, NEW b,
         \A i \in 1..n : Len(b[i]) = Len(a[i])
  PROVE  RowsUpTo(b, n) = RowsUpTo(a, n)
PROOF
<1>1. [i \in 1..n |-> Len(b[i])] = [i \in 1..n |-> Len(a[i])]
  OBVIOUS
<1> QED
  BY <1>1 DEF RowsUpTo

-----------------------------------------------------------------------------
(* The inductive invariant *)

\* The rows of the shard.
Rows == RowsUpTo(customers, Len(customers))

\* Customer c has its row in the k-th child table.
Has(c, k) == c \in DOMAIN children[Child[k]]

\* While it counts, a run knows the splits before the next one.
Counting ==
  at = "counting" =>
    /\ mine = {} /\ pending = <<>> /\ sending = {}
    /\ probe \in 1..Len(customers) + 1
    /\ total = RowsUpTo(customers, probe - 1)
    /\ IF probe = 1 THEN split = 1 /\ splitRows = 0
       ELSE split = probe - 1 /\ splitRows = Len(customers[split])

\* The split that rows go to exists, except before its tables are created; and
\* what is made fits into it.
Places ==
  /\ Len(customers) > 0
  /\ at = "filling" =>
       /\ split <= Len(customers)
       /\ Len(pending) <= Batch /\ (splitRows >= Cap => pending = <<>>)
  /\ at = "creating" =>
       /\ probe \in 0..4 /\ (probe > 0 => split <= Len(customers))
       /\ pending = <<>> /\ splitRows = 0

\* A run that knows what is there has the last split in hand, and owes no more
\* than the target lacks.
Filled ==
  misread = FALSE =>
    /\ \A n \in 1..Len(customers) :
         /\ n < Len(customers) => Len(customers[n]) >= Cap
         /\ Len(customers[n]) < Cap + Batch
    /\ Rows <= Target
    /\ at = "filling" =>
         /\ split = Len(customers) /\ splitRows = Len(customers[split])
         /\ Rows + Len(pending) + left <= Target
    /\ at = "creating" =>
         /\ Rows + left <= Target
         /\ IF probe = 0
            THEN split = Len(customers) + 1 /\ Len(customers[Len(customers)]) >= Cap
            ELSE split = Len(customers) /\ Len(customers[split]) = 0

\* Child rows and the run's own list name customers with an MSISDN.
Named ==
  /\ \A k \in 1..4 : \A c \in DOMAIN children[Child[k]] :
       /\ children[Child[k]][c] = 1
       /\ <<Child[k], c.split>> \in childTables
       /\ c.id \in DOMAIN customers[c.split]
       /\ customers[c.split][c.id] = TRUE
  /\ \A c \in mine :
       c.id \in DOMAIN customers[c.split] /\ customers[c.split][c.id] = TRUE

\* Customers whose turn is still to come have no child row, so none gets two.
Fresh ==
  /\ at \in {"filling", "creating"} => \A c \in mine, k \in 1..4 : ~Has(c, k)
  /\ at \in {"children", "sending"} =>
       \A c \in mine, k \in 1..4 : c.split \in todo => ~Has(c, k)
  /\ at = "sending" =>
       /\ split \notin todo /\ sending \subseteq MineIn(split)
       /\ \A c \in sending : ~Has(c, kind)
       /\ \A c \in MineIn(split), k \in 1..4 : k > kind => ~Has(c, k)

\* Customers whose turn has been have a row in each of the first three tables.
Given ==
  /\ at = "children" =>
       \A c \in mine, k \in 1..3 : c.split \notin todo => Has(c, k)
  /\ at = "sending" =>
       /\ \A c \in mine, k \in 1..3 : c.split \notin todo \union {split} => Has(c, k)
       /\ \A c \in MineIn(split), k \in 1..3 :
            k < kind \/ (k = kind /\ c \notin sending) => Has(c, k)
  /\ at = "done" => \A c \in mine, k \in 1..3 : Has(c, k)

IInv ==
  TypeOK /\ Counting /\ Places /\ Filled /\ Named /\ Fresh /\ Given

-----------------------------------------------------------------------------
(* Steps that leave the tables alone *)

LEMMA ChildFacts ==
  /\ DOMAIN Child = 1..4 /\ Len(Child) = 4
  /\ Range(Child) = {Child[k] : k \in 1..4}
  /\ \A j, k \in 1..4 : Child[j] = Child[k] => j = k
BY DEF Child, Range

\* The list of splits, and every split in it, is a sequence.
LEMMA SplitFacts ==
  ASSUME TypeOK
  PROVE  /\ Len(customers) \in Nat /\ DOMAIN customers = 1..Len(customers)
         /\ \A n \in 1..Len(customers) :
              /\ customers[n] \in Seq(BOOLEAN) /\ Len(customers[n]) \in Nat
              /\ DOMAIN customers[n] = 1..Len(customers[n])
BY DEF TypeOK

LEMMA RowsIsTotal ==
  ASSUME TypeOK
  PROVE  TotalRows = Rows /\ Rows \in Nat
PROOF
<1> DEFINE n == Len(customers)
<1>1. n \in Nat /\ DOMAIN customers = 1..n /\ \A i \in 1..n : Len(customers[i]) \in Nat
  BY SplitFacts
<1>2. SumOfLengths(customers) = RowsUpTo(customers, n)
  <2> HIDE DEF n
  <2> QED
    BY <1>1, SumOfLengthsIsRows, SMTT(30)
<1>3. RowsUpTo(customers, n) \in Nat
  <2> HIDE DEF n
  <2> QED
    BY <1>1, RowsUpToType
<1> QED
  BY <1>2, <1>3, TotalIsSum DEF Rows

LEMMA InitIInv ==
  ASSUME Init
  PROVE  IInv
PROOF
<1> USE DEF Init
<1>1. /\ customers \in Seq(Seq(BOOLEAN)) /\ Len(customers) = 1
      /\ customers[1] = <<>> /\ Len(customers[1]) = 0
  OBVIOUS
<1>2. \A k \in 1..4 : Child[k] \in Range(Child) /\ DOMAIN children[Child[k]] = {}
  BY ChildFacts DEF EmptyBag, SetToBag
<1>3. TypeOK
  <2>1. childTables \subseteq Range(Child) \X (1..Len(customers)) /\ DOMAIN children = Range(Child)
    BY <1>1, ChildFacts
  <2>2. split \in 1..Len(customers) + 1 /\ left \in 0..Target /\ pending \in Seq(BOOLEAN)
    BY <1>1, ShardAssumption
  <2>3. mine \subseteq Customer /\ sending \subseteq mine /\ todo \subseteq 1..Len(customers)
    OBVIOUS
  <2>4. kind \in DOMAIN Child /\ runs \in 0..MaxRuns /\ faults \in 0..MaxFaults
    BY ChildFacts, ShardAssumption
  <2> QED
    BY <1>1, <2>1, <2>2, <2>3, <2>4 DEF TypeOK, Resting
<1>4. Rows = 0
  <2>1. RowsUpTo(customers, 0 + 1) = RowsUpTo(customers, 0) + Len(customers[0 + 1])
    <3>1. 0 \in Nat /\ \A i \in 1..0 + 1 : Len(customers[i]) \in Nat
      BY <1>1
    <3> HIDE DEF Init
    <3> QED
      BY <3>1, RowsUpToStep
  <2>2. RowsUpTo(customers, 0) = 0
    BY RowsUpToType
  <2> QED
    BY <1>1, <2>1, <2>2 DEF Rows
<1>5. Counting /\ Places /\ Fresh /\ Given
  BY <1>1, ShardAssumption DEF Counting, Places, Fresh, Given
<1>6. Filled
  BY <1>1, <1>4, ShardAssumption DEF Filled
<1>7. Named
  BY <1>2 DEF Named
<1> QED
  BY <1>3, <1>5, <1>6, <1>7 DEF IInv

LEMMA StartRunKeeps ==
  ASSUME IInv, StartRun
  PROVE  IInv'
PROOF
<1> USE DEF StartRun, dbVars
<1>0. TypeOK /\ Places /\ Filled /\ Named
  BY DEF IInv
<1>1. TypeOK'
  <2>1. split' \in 1..Len(customers) + 1 /\ left' \in 0..Target /\ pending' \in Seq(BOOLEAN)
    BY <1>0, SplitFacts, ShardAssumption DEF Places
  <2>2. kind' \in DOMAIN Child /\ runs' \in 0..MaxRuns
    BY <1>0, ChildFacts, ShardAssumption DEF TypeOK
  <2> QED
    BY <1>0, <2>1, <2>2 DEF TypeOK, Busy, Customer
<1>2. RowsUpTo(customers, 0) = 0
  BY RowsUpToType
<1>3. Counting'
  BY <1>0, <1>2, SplitFacts DEF Counting, Places
<1>4. Places' /\ Fresh' /\ Given'
  BY <1>0 DEF Places, Fresh, Given
<1>5. Filled'
  BY <1>0 DEF Filled, Rows
<1>6. Named'
  BY <1>0 DEF Named
<1> QED
  BY <1>1, <1>3, <1>4, <1>5, <1>6 DEF IInv

LEMMA CountSplitKeeps ==
  ASSUME IInv, CountSplit
  PROVE  IInv'
PROOF
<1> USE DEF CountSplit, dbVars, fillVars, childVars, history
<1>0. TypeOK /\ Counting /\ Places /\ Filled /\ Named
  BY DEF IInv
<1>1. probe \in 1..Len(customers) /\ Len(customers) \in Nat
  BY <1>0, SplitFacts DEF Counting
<1>2. Len(customers[probe]) \in Nat
  BY <1>0, <1>1, SplitFacts
<1>3. TypeOK'
  <2>1. split' \in 1..Len(customers) + 1 /\ probe' \in Nat
    BY <1>1
  <2>2. total' \in Nat /\ splitRows' \in Nat
    BY <1>0, <1>2 DEF TypeOK
  <2> QED
    BY <1>0, <2>1, <2>2 DEF TypeOK, Customer
<1>4. RowsUpTo(customers, probe' - 1) = total'
  <2> DEFINE n == probe - 1
  <2>1. n \in Nat /\ n + 1 = probe /\ probe' - 1 = n + 1
    BY <1>1
  <2>2. \A i \in 1..n + 1 : Len(customers[i]) \in Nat
    BY <1>0, <1>1, <2>1, SplitFacts
  <2>3. RowsUpTo(customers, n + 1) = RowsUpTo(customers, n) + Len(customers[n + 1])
    <3> HIDE DEF n
    <3> QED
      BY <2>1, <2>2, RowsUpToStep
  <2> QED
    BY <1>0, <2>1, <2>3 DEF Counting
<1>5. Counting'
  BY <1>0, <1>1, <1>4 DEF Counting
<1>6. Places' /\ Fresh' /\ Given'
  BY <1>0 DEF Places, Fresh, Given
<1>7. Filled'
  BY <1>0 DEF Filled, Rows
<1>8. Named'
  BY <1>0 DEF Named
<1> QED
  BY <1>3, <1>5, <1>6, <1>7, <1>8 DEF IInv

LEMMA CountedKeeps ==
  ASSUME IInv, Counted
  PROVE  IInv'
PROOF
<1> USE DEF Counted, dbVars, countVars, childVars, history
<1>0. TypeOK /\ Counting /\ Places /\ Filled /\ Named
  BY DEF IInv
<1>1. /\ left' = IF total < Target THEN Target - total ELSE 0
      /\ at' = IF total < Target THEN "filling" ELSE "done"
      /\ at = "counting" /\ mine = {} /\ mine' = {} /\ pending' = <<>> /\ pending = <<>>
      /\ Target \in Nat /\ total \in Nat
  BY <1>0, ShardAssumption DEF TypeOK, Counting
<1>2. left' \in 0..Target
  BY <1>1
<1>3. TypeOK'
  <2>1. at' \in Resting \union Busy /\ pending' \in Seq(BOOLEAN) /\ mine' = mine
    BY <1>1 DEF Resting, Busy
  <2>2. faults' \in 0..MaxFaults /\ misread' \in BOOLEAN
    <3>1. faults \in 0..MaxFaults /\ misread \in BOOLEAN /\ MaxFaults \in Nat
      BY <1>0, ShardAssumption DEF TypeOK
    <3>2. \/ faults' = faults /\ misread' = misread
          \/ faults < MaxFaults /\ faults' = faults + 1 /\ misread' = TRUE
      OBVIOUS
    <3> HIDE DEF Counted
    <3>3. faults' \in 0..MaxFaults
      BY <3>1, <3>2
    <3>4. misread' \in BOOLEAN
      BY <3>1, <3>2, Zenon
    <3> QED
      BY <3>3, <3>4
  <2> QED
    BY <1>0, <1>2, <2>1, <2>2 DEF TypeOK, Customer
<1>4. /\ probe \in 1..Len(customers) + 1 /\ Len(customers) \in Nat \ {0}
      /\ total = RowsUpTo(customers, probe - 1)
      /\ IF probe = 1 THEN split = 1 /\ splitRows = 0
         ELSE split = probe - 1 /\ splitRows = Len(customers[split])
  BY <1>0, SplitFacts DEF Counting, Places
<1>5. Counting' /\ Fresh' /\ Given'
  BY <1>1 DEF Counting, Fresh, Given
<1>6. Places'
  BY <1>0, <1>1, <1>4, ShardAssumption DEF Places
<1>7. Filled'
  <2>1. ASSUME misread' = FALSE PROVE misread = FALSE /\ probe = Len(customers) + 1
    BY <1>0, <1>4, <2>1 DEF TypeOK
  <2>2. ASSUME misread' = FALSE, at' = "filling"
        PROVE  /\ split = Len(customers) /\ splitRows = Len(customers[split])
               /\ Rows + 0 + left' <= Target
    <3>1. Rows = total
      BY <1>4, <2>1, <2>2 DEF Rows
    <3> QED
      BY <1>1, <1>4, <2>1, <2>2, <3>1
  <2> QED
    BY <1>0, <1>1, <2>1, <2>2 DEF Filled, Rows
<1>8. Named'
  BY <1>0, <1>1 DEF Named
<1> QED
  BY <1>3, <1>5, <1>6, <1>7, <1>8 DEF IInv

-----------------------------------------------------------------------------
(* Customers *)

LEMMA MakeRowKeeps ==
  ASSUME IInv, NEW hasMsisdn \in BOOLEAN, MakeRow(hasMsisdn)
  PROVE  IInv'
PROOF
<1>0. TypeOK /\ Counting /\ Places /\ Filled /\ Named /\ Fresh
  BY DEF IInv
<1>1. /\ at = "filling" /\ left > 0 /\ splitRows < Cap /\ ~FlushDue
      /\ pending' = Append(pending, hasMsisdn) /\ left' = left - 1
      /\ UNCHANGED <<customers, childTables, children, at, probe, total, split, splitRows,
                     mine, todo, kind, sending, runs, faults, misread>>
  <2>1. splitRows \in Nat /\ Cap \in Nat
    BY <1>0, ShardAssumption DEF TypeOK
  <2> QED
    BY <2>1 DEF MakeRow, SplitIsFull, dbVars, countVars, childVars, history
<1>2. left \in 0..Target /\ pending \in Seq(BOOLEAN) /\ Batch \in Nat \ {0} /\ Target \in Nat
  BY <1>0, ShardAssumption DEF TypeOK
<1>3. /\ pending' \in Seq(BOOLEAN) /\ Len(pending') = Len(pending) + 1 /\ Len(pending) \in Nat
      /\ left' \in 0..Target /\ left' + Len(pending') = left + Len(pending)
  BY <1>1, <1>2, AppendProperties
<1>4. Len(pending') <= Batch
  <2>1. CASE pending = <<>>
    BY <1>2, <1>3, <2>1
  <2>2. CASE pending # <<>>
    <3>1. ~(Len(pending) >= Batch)
      BY <1>1, <2>2 DEF FlushDue
    <3> QED
      BY <1>2, <1>3, <3>1
  <2> QED
    BY <2>1, <2>2
<1>5. TypeOK'
  BY <1>0, <1>1, <1>3 DEF TypeOK, Customer
<1>6. Counting' /\ Fresh' /\ Given'
  BY <1>0, <1>1 DEF Counting, Fresh, Given, Has, MineIn
<1>7. Places'
  <2>1. splitRows' \in Nat /\ Cap \in Nat
    BY <1>5, ShardAssumption DEF TypeOK
  <2>2. ~(splitRows' >= Cap)
    BY <1>1, <2>1
  <2> QED
    BY <1>0, <1>1, <1>4, <2>2 DEF Places
<1>8. Filled'
  <2>1. Rows' = Rows /\ Rows \in Nat
    BY <1>0, <1>1, RowsIsTotal DEF Rows
  <2>2. Rows' + Len(pending') + left' = Rows + Len(pending) + left
    BY <1>2, <1>3, <2>1
  <2> QED
    BY <1>0, <1>1, <2>1, <2>2 DEF Filled
<1>9. Named'
  BY <1>0, <1>1 DEF Named
<1> QED
  BY <1>5, <1>6, <1>7, <1>8, <1>9 DEF IInv

\* Inserting rows into a split that exists adds to it and changes no other row.
LEMMA InsertEffects ==
  ASSUME TypeOK, split <= Len(customers), Insert(pending)
  PROVE  /\ customers' \in Seq(Seq(BOOLEAN)) /\ Len(customers') = Len(customers)
         /\ \A n \in 1..Len(customers) :
              /\ n # split => customers'[n] = customers[n]
              /\ \A i \in DOMAIN customers[n] :
                   i \in DOMAIN customers'[n] /\ customers'[n][i] = customers[n][i]
         /\ Len(customers'[split]) = Len(customers[split]) + Len(pending)
         /\ \A i \in DOMAIN pending :
              /\ Len(customers[split]) + i \in DOMAIN customers'[split]
              /\ customers'[split][Len(customers[split]) + i] = pending[i]
         /\ Rows' = Rows + Len(pending)
PROOF
<1>1. /\ split \in 1..Len(customers) /\ pending \in Seq(BOOLEAN) /\ Len(pending) \in Nat
      /\ customers \in Seq(Seq(BOOLEAN)) /\ customers[split] \in Seq(BOOLEAN)
  BY SplitFacts DEF TypeOK
<1>2. /\ \A n \in 1..Len(customers) :
           customers[n] \in Seq(BOOLEAN) /\ DOMAIN customers[n] = 1..Len(customers[n])
           /\ Len(customers[n]) \in Nat
      /\ Len(customers) \in Nat /\ DOMAIN pending = 1..Len(pending)
  BY <1>1, SplitFacts
<1> DEFINE more == customers[split] \o pending
<1>3. /\ more \in Seq(BOOLEAN) /\ Len(more) = Len(customers[split]) + Len(pending)
      /\ \A i \in 1..Len(customers[split]) : more[i] = customers[split][i]
      /\ \A i \in 1..Len(pending) : more[Len(customers[split]) + i] = pending[i]
  BY <1>1
<1> HIDE DEF more
<1>4. customers' = [customers EXCEPT ![split] = more]
  BY DEF Insert, more
<1>5. /\ customers' \in Seq(Seq(BOOLEAN)) /\ Len(customers') = Len(customers)
      /\ \A n \in 1..Len(customers) : customers'[n] = IF n = split THEN more ELSE customers[n]
  BY <1>1, <1>3, <1>4
<1>6. DOMAIN more = 1..Len(customers[split]) + Len(pending)
  BY <1>3
<1>7. ASSUME NEW n \in 1..Len(customers), NEW i \in DOMAIN customers[n]
      PROVE  i \in DOMAIN customers'[n] /\ customers'[n][i] = customers[n][i]
  <2>1. CASE n = split
    <3>1. i \in 1..Len(customers[split]) /\ i \in DOMAIN more
      BY <1>1, <1>2, <1>6, <2>1
    <3> QED
      BY <1>3, <1>5, <2>1, <3>1
  <2>2. CASE n # split
    BY <1>5, <2>2
  <2> QED
    BY <2>1, <2>2
<1>8. ASSUME NEW i \in DOMAIN pending
      PROVE  /\ Len(customers[split]) + i \in DOMAIN customers'[split]
             /\ customers'[split][Len(customers[split]) + i] = pending[i]
  <2>1. Len(customers[split]) + i \in 1..Len(customers[split]) + Len(pending)
    BY <1>1, <1>2
  <2> QED
    BY <1>1, <1>2, <1>3, <1>5, <1>6, <2>1
<1>9. Rows' = Rows + Len(pending)
  <2> DEFINE n == Len(customers)
             new == customers'
             d == Len(pending)
  <2>1. RowsUpTo(new, n) = RowsUpTo(customers, n) + d
    <3>1. n \in Nat /\ d \in Nat /\ split \in 1..n
      BY <1>1, <1>2
    <3>2. \A i \in 1..n : Len(customers[i]) \in Nat
      BY <1>2
    <3>3. \A i \in 1..n : i # split => Len(new[i]) = Len(customers[i])
      BY <1>5
    <3>4. Len(new[split]) = Len(customers[split]) + d
      BY <1>1, <1>3, <1>5
    <3> HIDE DEF n, new, d
    <3> QED
      BY <3>1, <3>2, <3>3, <3>4, RowsUpToGrow
  <2> QED
    BY <1>5, <2>1 DEF Rows
<1> QED
  BY <1>1, <1>3, <1>5, <1>7, <1>8, <1>9

\* A customer inserted just now is none that anybody knows of.
LEMMA NewCustomersAreNew ==
  ASSUME IInv, split <= Len(customers), Insert(pending)
  PROVE  \A c \in NewCustomers(pending) :
           /\ c \in [split : 1..Len(customers), id : Nat \ {0}] /\ c.split = split
           /\ c.id \in DOMAIN customers'[c.split] /\ customers'[c.split][c.id] = TRUE
           /\ \A k \in 1..4 : ~Has(c, k)
PROOF
<1>0. TypeOK /\ Named
  BY DEF IInv
<1>1. /\ split \in 1..Len(customers) /\ Len(customers[split]) \in Nat
      /\ DOMAIN customers[split] = 1..Len(customers[split])
      /\ DOMAIN pending = 1..Len(pending) /\ pending \in Seq(BOOLEAN) /\ Len(pending) \in Nat
  <2>1. split \in 1..Len(customers) /\ pending \in Seq(BOOLEAN)
    BY <1>0, SplitFacts DEF TypeOK
  <2>2. Len(customers[split]) \in Nat /\ DOMAIN customers[split] = 1..Len(customers[split])
    BY <1>0, <2>1, SplitFacts
  <2> QED
    BY <2>1, <2>2
<1> SUFFICES ASSUME NEW i \in DOMAIN pending, pending[i] = TRUE,
                    NEW c, c = [split |-> split, id |-> Len(customers[split]) + i]
             PROVE  /\ c \in [split : 1..Len(customers), id : Nat \ {0}] /\ c.split = split
                    /\ c.id \in DOMAIN customers'[c.split] /\ customers'[c.split][c.id] = TRUE
                    /\ \A k \in 1..4 : ~Has(c, k)
  BY <1>1 DEF NewCustomers
<1>2. c.split = split /\ c.id = Len(customers[split]) + i
  OBVIOUS
<1>3. c \in [split : 1..Len(customers), id : Nat \ {0}]
  BY <1>1
<1>4. c.id \in DOMAIN customers'[c.split] /\ customers'[c.split][c.id] = TRUE
  BY <1>0, <1>2, InsertEffects
<1>5. c.id \notin DOMAIN customers[c.split]
  BY <1>1, <1>2
<1>6. \A k \in 1..4 : ~Has(c, k)
  BY <1>0, <1>5 DEF Named, Has
<1> QED
  BY <1>2, <1>3, <1>4, <1>6

\* What every INSERT of customers keeps, whether its answer arrives or not.
LEMMA InsertKeeps ==
  ASSUME IInv, at = "filling", FlushDue, Insert(pending),
         UNCHANGED <<childTables, children>>
  PROVE  /\ pending # <<>> /\ Len(pending) \in Nat \ {0} /\ splitRows < Cap
         /\ Len(customers') = Len(customers)
         /\ misread = FALSE =>
              /\ Rows' <= Target
              /\ \A n \in 1..Len(customers') :
                   /\ n < Len(customers') => Len(customers'[n]) >= Cap
                   /\ Len(customers'[n]) < Cap + Batch
         /\ \A k \in 1..4 : \A c \in DOMAIN children'[Child[k]] :
              /\ children'[Child[k]][c] = 1
              /\ <<Child[k], c.split>> \in childTables'
              /\ c.id \in DOMAIN customers'[c.split]
              /\ customers'[c.split][c.id] = TRUE
         /\ \A c \in mine :
              c.id \in DOMAIN customers'[c.split] /\ customers'[c.split][c.id] = TRUE
PROOF
<1>0. TypeOK /\ Places /\ Filled /\ Named
  BY DEF IInv
<1>1. /\ pending # <<>> /\ pending \in Seq(BOOLEAN) /\ Len(pending) \in Nat \ {0}
      /\ split <= Len(customers) /\ Len(pending) <= Batch /\ (splitRows >= Cap => pending = <<>>)
      /\ splitRows \in Nat /\ Cap \in Nat /\ Batch \in Nat /\ Target \in Nat /\ left \in Nat
  BY <1>0, ShardAssumption DEF TypeOK, Places, FlushDue
<1>2. splitRows < Cap
  BY <1>1
<1>3. /\ Len(customers') = Len(customers) /\ Rows' = Rows + Len(pending)
      /\ \A n \in 1..Len(customers) :
           /\ n # split => customers'[n] = customers[n]
           /\ \A i \in DOMAIN customers[n] :
                i \in DOMAIN customers'[n] /\ customers'[n][i] = customers[n][i]
      /\ Len(customers'[split]) = Len(customers[split]) + Len(pending)
  BY <1>0, <1>1, InsertEffects
<1>4. ASSUME misread = FALSE
      PROVE  /\ Rows' <= Target
             /\ \A n \in 1..Len(customers') :
                  /\ n < Len(customers') => Len(customers'[n]) >= Cap
                  /\ Len(customers'[n]) < Cap + Batch
  <2>1. /\ split = Len(customers) /\ splitRows = Len(customers[split])
        /\ Rows + Len(pending) + left <= Target /\ Rows \in Nat /\ Len(customers) \in Nat
        /\ \A n \in 1..Len(customers) :
             /\ n < Len(customers) => Len(customers[n]) >= Cap
             /\ Len(customers[n]) < Cap + Batch
    BY <1>0, <1>4, RowsIsTotal, SplitFacts DEF Filled
  <2>2. Rows' <= Target
    BY <1>1, <1>3, <2>1
  <2>3. Len(customers'[split]) < Cap + Batch
    BY <1>1, <1>2, <1>3, <2>1
  <2>4. ASSUME NEW n \in 1..Len(customers')
        PROVE  /\ n < Len(customers') => Len(customers'[n]) >= Cap
               /\ Len(customers'[n]) < Cap + Batch
    BY <1>3, <2>1, <2>3
  <2> QED
    BY <2>2, <2>4
<1>5. \A k \in 1..4 : \A c \in DOMAIN children[Child[k]] : c.split \in 1..Len(customers)
  BY <1>0 DEF Named, TypeOK
<1>6. \A c \in mine : c.split \in 1..Len(customers)
  BY <1>0 DEF TypeOK, Customer
<1>7. \A k \in 1..4 : \A c \in DOMAIN children'[Child[k]] :
        /\ children'[Child[k]][c] = 1
        /\ <<Child[k], c.split>> \in childTables'
        /\ c.id \in DOMAIN customers'[c.split]
        /\ customers'[c.split][c.id] = TRUE
  <2> SUFFICES ASSUME NEW k \in 1..4, NEW c \in DOMAIN children[Child[k]]
               PROVE  /\ children[Child[k]][c] = 1
                      /\ <<Child[k], c.split>> \in childTables
                      /\ c.id \in DOMAIN customers'[c.split]
                      /\ customers'[c.split][c.id] = TRUE
    OBVIOUS
  <2>1. /\ children[Child[k]][c] = 1 /\ <<Child[k], c.split>> \in childTables
        /\ c.id \in DOMAIN customers[c.split] /\ customers[c.split][c.id] = TRUE
    BY <1>0 DEF Named
  <2> QED
    BY <1>3, <1>5, <2>1
<1>8. \A c \in mine : c.id \in DOMAIN customers'[c.split] /\ customers'[c.split][c.id] = TRUE
  BY <1>0, <1>3, <1>6 DEF Named
<1> QED
  BY <1>1, <1>2, <1>3, <1>4, <1>7, <1>8

LEMMA FlushCustomersKeeps ==
  ASSUME IInv, FlushCustomers
  PROVE  IInv'
PROOF
<1>0. TypeOK /\ Counting /\ Places /\ Filled /\ Named /\ Fresh
  BY DEF IInv
<1>1. /\ at = "filling" /\ FlushDue /\ Insert(pending)
      /\ mine' = mine \union NewCustomers(pending)
      /\ splitRows' = splitRows + Len(pending) /\ pending' = <<>>
      /\ UNCHANGED <<childTables, children, at, probe, total, split, left,
                     todo, kind, sending, runs, faults, misread>>
  BY DEF FlushCustomers, childVars, history
<1>2. split <= Len(customers)
  BY <1>0, <1>1 DEF Places
<1>3. /\ Len(pending) \in Nat \ {0} /\ splitRows < Cap /\ splitRows \in Nat /\ left \in Nat
      /\ Len(customers') = Len(customers) /\ Len(customers) \in Nat
      /\ customers' \in Seq(Seq(BOOLEAN))
  <2>1. Len(pending) \in Nat \ {0} /\ splitRows < Cap
    BY <1>1, InsertKeeps
  <2>2. Len(customers') = Len(customers) /\ customers' \in Seq(Seq(BOOLEAN))
    BY <1>0, <1>1, <1>2, InsertEffects
  <2>3. splitRows \in Nat /\ left \in Nat /\ Len(customers) \in Nat
    BY <1>0, ShardAssumption DEF TypeOK
  <2> QED
    BY <2>1, <2>2, <2>3
<1>4. \A c \in NewCustomers(pending) :
        /\ c \in [split : 1..Len(customers), id : Nat \ {0}]
        /\ c.id \in DOMAIN customers'[c.split] /\ customers'[c.split][c.id] = TRUE
        /\ \A k \in 1..4 : ~Has(c, k)
  BY <1>1, <1>2, NewCustomersAreNew
<1>5. TypeOK'
  <2>1. mine' \subseteq Customer' /\ sending' \subseteq mine'
    BY <1>0, <1>1, <1>3, <1>4 DEF TypeOK, Customer
  <2>2. splitRows' \in Nat /\ pending' \in Seq(BOOLEAN)
    BY <1>1, <1>3
  <2> QED
    BY <1>0, <1>1, <1>3, <2>1, <2>2 DEF TypeOK
<1>6. Counting' /\ Given'
  BY <1>1 DEF Counting, Given
<1>7. Places'
  <2>1. Len(pending') = 0 /\ Len(pending') <= Batch
    BY <1>1, ShardAssumption
  <2> QED
    BY <1>0, <1>1, <1>3, <2>1 DEF Places
<1>8. Filled'
  <2>1. misread = FALSE =>
          /\ split = Len(customers) /\ splitRows = Len(customers[split])
          /\ Rows + Len(pending) + left <= Target
    BY <1>0, <1>1 DEF Filled
  <2>2. Len(pending') = 0 /\ Rows' = Rows + Len(pending) /\ Rows \in Nat
    BY <1>0, <1>1, <1>2, InsertEffects, RowsIsTotal
  <2>3. Rows' + Len(pending') + left' = Rows + Len(pending) + left
    BY <1>1, <1>3, <2>2
  <2>4. Len(customers'[split]) = Len(customers[split]) + Len(pending)
    BY <1>0, <1>1, <1>2, InsertEffects
  <2>5. misread = FALSE => /\ split' = Len(customers') /\ splitRows' = Len(customers'[split'])
                           /\ Rows' + Len(pending') + left' <= Target
    BY <1>1, <1>3, <2>1, <2>3, <2>4
  <2>6. misread = FALSE =>
          /\ Rows' <= Target
          /\ \A n \in 1..Len(customers') :
               /\ n < Len(customers') => Len(customers'[n]) >= Cap
               /\ Len(customers'[n]) < Cap + Batch
    BY <1>1, InsertKeeps
  <2> QED
    BY <1>1, <2>5, <2>6 DEF Filled
<1>9. Named'
  <2>1. \A c \in mine' : c.id \in DOMAIN customers'[c.split] /\ customers'[c.split][c.id] = TRUE
    BY <1>1, <1>4, InsertKeeps
  <2> QED
    BY <1>1, <2>1, InsertKeeps DEF Named
<1>10. Fresh'
  BY <1>0, <1>1, <1>4 DEF Fresh, Has
<1> QED
  BY <1>5, <1>6, <1>7, <1>8, <1>9, <1>10 DEF IInv

LEMMA FlushFailsKeeps ==
  ASSUME IInv, FlushFails
  PROVE  IInv'
PROOF
<1>0. TypeOK /\ Places /\ Filled /\ Named
  BY DEF IInv
<1>1. /\ at = "filling" /\ FlushDue /\ at' = "failed"
      /\ faults < MaxFaults /\ faults' = faults + 1
      /\ UNCHANGED customers \/ Insert(pending)
      /\ UNCHANGED <<childTables, children, probe, total, split, splitRows, left, pending,
                     mine, todo, kind, sending, runs, misread>>
  BY DEF FlushFails, Fault, countVars, fillVars, childVars
<1>2. faults' \in 0..MaxFaults
  BY <1>0, <1>1, ShardAssumption DEF TypeOK
<1>3. split <= Len(customers)
  BY <1>0, <1>1 DEF Places
<1>4. Len(customers') = Len(customers) /\ customers' \in Seq(Seq(BOOLEAN))
  <2>1. CASE UNCHANGED customers
    BY <1>0, <2>1 DEF TypeOK
  <2>2. CASE Insert(pending)
    BY <1>0, <1>3, <2>2, InsertEffects
  <2> QED
    BY <1>1, <2>1, <2>2
<1>5. TypeOK'
  BY <1>0, <1>1, <1>2, <1>4 DEF TypeOK, Customer, Resting
<1>6. Counting' /\ Places' /\ Fresh' /\ Given'
  BY <1>0, <1>1, <1>4 DEF Counting, Places, Fresh, Given
<1>7. Filled' /\ Named'
  <2>1. CASE UNCHANGED customers
    BY <1>0, <1>1, <2>1 DEF Filled, Named, Rows
  <2>2. CASE Insert(pending)
    BY <1>1, <2>2, InsertKeeps DEF Filled, Named
  <2> QED
    BY <1>1, <2>1, <2>2
<1> QED
  BY <1>5, <1>6, <1>7 DEF IInv

LEMMA NextSplitKeeps ==
  ASSUME IInv, NextSplit
  PROVE  IInv'
PROOF
<1>0. TypeOK /\ Places /\ Filled /\ Named /\ Fresh
  BY DEF IInv
<1>1. /\ at = "filling" /\ left > 0 /\ splitRows >= Cap /\ ~FlushDue
      /\ split' = split + 1 /\ splitRows' = 0 /\ probe' = 0 /\ at' = "creating"
      /\ UNCHANGED <<customers, childTables, children, total, left, pending, mine,
                     todo, kind, sending, runs, faults, misread>>
  BY DEF NextSplit, SplitIsFull, dbVars, fillVars, childVars, history
<1>2. pending = <<>>
  BY <1>1 DEF FlushDue, SplitIsFull
<1>3. /\ split \in Nat \ {0} /\ split <= Len(customers) /\ Len(customers) \in Nat \ {0}
      /\ Target \in Nat /\ left \in Nat /\ Rows \in Nat
  BY <1>0, <1>1, SplitFacts, RowsIsTotal, ShardAssumption DEF TypeOK, Places
<1>4. TypeOK'
  <2>1. split' \in 1..Len(customers) + 1 /\ splitRows' \in Nat /\ probe' \in Nat
    BY <1>1, <1>3
  <2> QED
    BY <1>0, <1>1, <2>1 DEF TypeOK, Customer, Busy
<1>5. Counting' /\ Given' /\ Fresh'
  BY <1>0, <1>1 DEF Counting, Given, Fresh, Has
<1>6. Places'
  BY <1>0, <1>1, <1>2 DEF Places
<1>7. Filled'
  <2>1. ASSUME misread = FALSE
        PROVE  /\ split = Len(customers) /\ Len(customers[Len(customers)]) >= Cap
               /\ Rows + left <= Target
    <3>1. split = Len(customers) /\ splitRows = Len(customers[split])
      BY <1>0, <1>1, <2>1 DEF Filled
    <3>2. Rows + 0 + left <= Target
      BY <1>0, <1>1, <1>2, <2>1 DEF Filled
    <3> QED
      BY <1>1, <1>3, <3>1, <3>2
  <2> QED
    BY <1>0, <1>1, <1>3, <2>1 DEF Filled, Rows
<1>8. Named'
  BY <1>0, <1>1 DEF Named
<1> QED
  BY <1>4, <1>5, <1>6, <1>7, <1>8 DEF IInv

LEMMA CreateTableKeeps ==
  ASSUME IInv, CreateTable
  PROVE  IInv'
PROOF
<1>0. TypeOK /\ Places /\ Filled /\ Named /\ Fresh
  BY DEF IInv
<1>1. /\ at = "creating" /\ probe' = probe + 1
      /\ at' = IF probe = 4 THEN "filling" ELSE "creating"
      /\ UNCHANGED <<children, total, split, splitRows, left, pending, mine,
                     todo, kind, sending, runs, faults, misread>>
  BY ChildFacts DEF CreateTable, fillVars, childVars, history
<1>2. /\ probe = 0 => /\ customers' = IF split > Len(customers) THEN Append(customers, <<>>)
                                      ELSE customers
                      /\ childTables' = childTables
      /\ probe # 0 => /\ childTables' = childTables \union {<<Child[probe], split>>}
                      /\ customers' = customers
  BY DEF CreateTable
<1>3. /\ split \in 1..Len(customers) + 1 /\ Len(customers) \in Nat \ {0}
      /\ probe \in 0..4 /\ (probe > 0 => split <= Len(customers))
      /\ pending = <<>> /\ splitRows = 0 /\ left \in Nat /\ Rows \in Nat
  BY <1>0, <1>1, SplitFacts, RowsIsTotal DEF TypeOK, Places
<1>4. customers \in Seq(Seq(BOOLEAN))
  BY <1>0 DEF TypeOK
<1>5. /\ customers' \in Seq(Seq(BOOLEAN)) /\ Len(customers') \in Nat
      /\ Len(customers) <= Len(customers') /\ split <= Len(customers')
      /\ Len(customers') <= Len(customers) + 1
      /\ \A n \in 1..Len(customers) : customers'[n] = customers[n]
      /\ \A n \in 1..Len(customers') : n > Len(customers) => n = split /\ customers'[n] = <<>>
  <2>1. CASE probe = 0 /\ split > Len(customers)
    <3>1. customers' = Append(customers, <<>>) /\ split = Len(customers) + 1
      BY <1>2, <1>3, <2>1
    <3>2. <<>> \in Seq(BOOLEAN)
      OBVIOUS
    <3>3. /\ customers' \in Seq(Seq(BOOLEAN)) /\ Len(customers') = Len(customers) + 1
          /\ \A n \in 1..Len(customers) : customers'[n] = customers[n]
          /\ customers'[Len(customers) + 1] = <<>>
      BY <1>4, <3>1, <3>2, AppendProperties
    <3> QED
      BY <1>3, <3>1, <3>3
  <2>2. CASE ~(probe = 0 /\ split > Len(customers))
    <3>1. customers' = customers /\ split <= Len(customers)
      BY <1>2, <1>3, <2>2
    <3> QED
      BY <1>3, <1>4, <3>1
  <2> QED
    BY <2>1, <2>2
<1>6. /\ childTables \subseteq childTables'
      /\ childTables' \subseteq Range(Child) \X (1..Len(customers'))
  <2>1. childTables \subseteq Range(Child) \X (1..Len(customers))
    BY <1>0 DEF TypeOK
  <2>2. 1..Len(customers) \subseteq 1..Len(customers')
    BY <1>3, <1>5
  <2>3. probe # 0 => Child[probe] \in Range(Child) /\ split \in 1..Len(customers')
    BY <1>3, <1>5, ChildFacts
  <2> QED
    BY <1>2, <2>1, <2>2, <2>3
<1>7. TypeOK'
  <2>1. 1..Len(customers) \subseteq 1..Len(customers') /\ split \in 1..Len(customers') + 1
    BY <1>3, <1>5
  <2>2. mine \subseteq Customer' /\ todo \subseteq 1..Len(customers')
    BY <1>0, <2>1 DEF TypeOK, Customer
  <2>3. probe' \in Nat /\ at' \in Resting \union Busy
    BY <1>1, <1>3 DEF Busy
  <2> QED
    BY <1>0, <1>1, <1>5, <1>6, <2>1, <2>2, <2>3 DEF TypeOK
<1>8. Counting' /\ Given' /\ Fresh'
  BY <1>0, <1>1 DEF Counting, Given, Fresh, Has
<1>9. Places'
  <2>1. Len(pending) = 0
    BY <1>3
  <2> QED
    BY <1>1, <1>3, <1>5, <2>1, ShardAssumption DEF Places
<1>10. Filled'
  <2> SUFFICES ASSUME misread = FALSE PROVE Filled'
    BY <1>1 DEF Filled
  <2>1. /\ Rows + left <= Target
        /\ probe = 0 => split = Len(customers) + 1 /\ Len(customers[Len(customers)]) >= Cap
        /\ probe # 0 => split = Len(customers) /\ Len(customers[split]) = 0
        /\ \A n \in 1..Len(customers) :
             /\ n < Len(customers) => Len(customers[n]) >= Cap
             /\ Len(customers[n]) < Cap + Batch
    BY <1>0, <1>1 DEF Filled
  <2>2. split = Len(customers') /\ Len(customers'[split]) = 0
    BY <1>3, <1>5, <2>1
  <2>3. Rows' = Rows
    <3>1. CASE Len(customers') = Len(customers)
      <4>1. customers' = customers
        BY <1>2, <1>3, <1>5, <2>1, <2>2, <3>1
      <4> QED
        BY <4>1 DEF Rows
    <3>2. CASE Len(customers') = Len(customers) + 1
      <4> DEFINE m == Len(customers)
                 new == customers'
      <4>1. m \in Nat /\ \A i \in 1..m : Len(customers[i]) \in Nat /\ Len(new[i]) = Len(customers[i])
        BY <1>0, <1>5, SplitFacts
      <4>2. Len(new[m + 1]) = 0 /\ \A i \in 1..m + 1 : Len(new[i]) \in Nat
        BY <2>2, <3>2, <4>1
      <4>3. RowsUpTo(new, m + 1) = RowsUpTo(new, m) + Len(new[m + 1])
        <5> HIDE DEF m, new
        <5> QED
          BY <4>1, <4>2, RowsUpToStep
      <4>4. RowsUpTo(new, m) = RowsUpTo(customers, m)
        <5> HIDE DEF m, new
        <5> QED
          BY <4>1, RowsUpToSame
      <4>5. RowsUpTo(customers, m) \in Nat
        BY <1>3 DEF Rows
      <4>6. RowsUpTo(new, m + 1) = RowsUpTo(customers, m)
        <5> HIDE DEF m, new
        <5> QED
          BY <4>2, <4>3, <4>4, <4>5
      <4> QED
        BY <3>2, <4>6 DEF Rows
    <3> QED
      BY <1>3, <1>5, <3>1, <3>2
  <2>4. ASSUME NEW n \in 1..Len(customers')
        PROVE  /\ n < Len(customers') => Len(customers'[n]) >= Cap
               /\ Len(customers'[n]) < Cap + Batch
    <3>1. CASE n <= Len(customers)
      <4>1. n \in 1..Len(customers) /\ customers'[n] = customers[n]
        BY <1>3, <1>5, <3>1
      <4>2. n < Len(customers') => n < Len(customers) \/ (n = Len(customers) /\ probe = 0)
        BY <1>3, <1>5, <2>1, <2>2, <4>1
      <4> QED
        BY <2>1, <4>1, <4>2
    <3>2. CASE n > Len(customers)
      <4>1. n = split /\ Len(customers'[n]) = 0
        BY <1>5, <2>2, <3>2
      <4> QED
        BY <1>3, <2>2, <4>1, ShardAssumption
    <3> QED
      BY <1>3, <3>1, <3>2
  <2>5. splitRows = Len(customers'[split]) /\ Len(pending) = 0
    BY <1>3, <2>2
  <2>6. Rows' <= Target /\ Rows' + left' <= Target /\ Rows' + Len(pending') + left' <= Target
    <3>1. Target \in Nat
      BY ShardAssumption
    <3> QED
      BY <1>1, <1>3, <2>1, <2>3, <2>5, <3>1
  <2>7. probe' # 0
    BY <1>1, <1>3
  <2> QED
    BY <1>1, <2>2, <2>4, <2>5, <2>6, <2>7 DEF Filled
<1>11. Named'
  <2>1. /\ \A k \in 1..4 : \A c \in DOMAIN children[Child[k]] : c.split \in 1..Len(customers)
        /\ \A c \in mine : c.split \in 1..Len(customers)
    BY <1>0 DEF Named, TypeOK, Customer
  <2>2. ASSUME NEW k \in 1..4, NEW c \in DOMAIN children[Child[k]]
        PROVE  /\ children[Child[k]][c] = 1
               /\ <<Child[k], c.split>> \in childTables'
               /\ c.id \in DOMAIN customers'[c.split]
               /\ customers'[c.split][c.id] = TRUE
    <3>1. /\ children[Child[k]][c] = 1 /\ <<Child[k], c.split>> \in childTables
          /\ c.id \in DOMAIN customers[c.split] /\ customers[c.split][c.id] = TRUE
      BY <1>0 DEF Named
    <3>2. customers'[c.split] = customers[c.split]
      BY <1>5, <2>1
    <3> QED
      BY <1>6, <3>1, <3>2
  <2>3. ASSUME NEW c \in mine
        PROVE  c.id \in DOMAIN customers'[c.split] /\ customers'[c.split][c.id] = TRUE
    <3>1. c.id \in DOMAIN customers[c.split] /\ customers[c.split][c.id] = TRUE
      BY <1>0 DEF Named
    <3>2. customers'[c.split] = customers[c.split]
      BY <1>5, <2>1
    <3> QED
      BY <3>1, <3>2
  <2> QED
    BY <1>1, <2>2, <2>3 DEF Named
<1> QED
  BY <1>7, <1>8, <1>9, <1>10, <1>11 DEF IInv

\* Whatever ends a run without touching the tables.
LEMMA StopKeeps ==
  ASSUME IInv, at' = "failed", faults' \in 0..MaxFaults,
         UNCHANGED <<dbVars, countVars, fillVars, childVars, runs, misread>>
  PROVE  IInv'
PROOF
<1>0. TypeOK /\ Places /\ Filled /\ Named
  BY DEF IInv
<1>1. UNCHANGED <<customers, childTables, children, probe, total, split, splitRows, left,
                  pending, mine, todo, kind, sending, runs, misread>>
  BY DEF dbVars, countVars, fillVars, childVars
<1>2. TypeOK'
  BY <1>0, <1>1 DEF TypeOK, Customer, Resting
<1>3. Counting' /\ Places' /\ Fresh' /\ Given'
  BY <1>0, <1>1 DEF Counting, Places, Fresh, Given
<1>4. Filled' /\ Named'
  BY <1>0, <1>1 DEF Filled, Named, Rows
<1> QED
  BY <1>2, <1>3, <1>4 DEF IInv

LEMMA FaultCounts ==
  ASSUME IInv, Fault
  PROVE  faults' \in 0..MaxFaults /\ UNCHANGED <<runs, misread>>
BY ShardAssumption DEF IInv, TypeOK, Fault

LEMMA CreateFailsKeeps ==
  ASSUME IInv, CreateFails
  PROVE  IInv'
PROOF
<1>1. /\ at' = "failed" /\ Fault
      /\ UNCHANGED <<dbVars, countVars, fillVars, childVars>>
  BY DEF CreateFails
<1> QED
  BY <1>1, FaultCounts, StopKeeps

LEMMA CrashKeeps ==
  ASSUME IInv, Crash
  PROVE  IInv'
PROOF
<1>1. /\ at' = "failed" /\ Fault
      /\ UNCHANGED <<dbVars, countVars, fillVars, childVars>>
  BY DEF Crash
<1> QED
  BY <1>1, FaultCounts, StopKeeps

-----------------------------------------------------------------------------
(* Children *)

LEMMA FinishFillingKeeps ==
  ASSUME IInv, FinishFilling
  PROVE  IInv'
PROOF
<1>0. TypeOK /\ Places /\ Filled /\ Named /\ Fresh
  BY DEF IInv
<1>1. /\ at = "filling" /\ todo' = {c.split : c \in mine}
      /\ at' = IF mine = {} THEN "done" ELSE "children"
      /\ UNCHANGED <<customers, childTables, children, probe, total, split, splitRows, left,
                     pending, mine, kind, sending, runs, faults, misread>>
  BY DEF FinishFilling, dbVars, countVars, fillVars, history
<1>2. TypeOK'
  <2>1. todo' \subseteq 1..Len(customers)
    BY <1>0, <1>1 DEF TypeOK, Customer
  <2>2. at' \in Resting \union Busy
    BY <1>1 DEF Resting, Busy
  <2> QED
    BY <1>0, <1>1, <2>1, <2>2 DEF TypeOK, Customer
<1>3. Counting' /\ Places'
  BY <1>0, <1>1 DEF Counting, Places
<1>4. Filled' /\ Named'
  BY <1>0, <1>1 DEF Filled, Named, Rows
<1>5. Fresh'
  BY <1>0, <1>1 DEF Fresh, Has
<1>6. Given'
  BY <1>1 DEF Given
<1> QED
  BY <1>2, <1>3, <1>4, <1>5, <1>6 DEF IInv

LEMMA PickSplitKeeps ==
  ASSUME IInv, NEW n \in todo, PickSplit(n)
  PROVE  IInv'
PROOF
<1>0. TypeOK /\ Places /\ Filled /\ Named /\ Fresh /\ Given
  BY DEF IInv
<1>1. /\ at = "children" /\ todo' = todo \ {n} /\ split' = n /\ kind' = 1
      /\ sending' = MineIn(n) /\ at' = "sending"
      /\ UNCHANGED <<customers, childTables, children, probe, total, splitRows, left,
                     pending, mine, runs, faults, misread>>
  BY DEF PickSplit, dbVars, fillVars, history
<1>2. MineIn(n) \subseteq mine /\ \A c \in MineIn(n) : c.split = n
  BY DEF MineIn
<1>3. TypeOK'
  <2>1. split' \in 1..Len(customers) + 1 /\ kind' \in DOMAIN Child /\ todo' \subseteq 1..Len(customers)
    BY <1>0, <1>1, ChildFacts DEF TypeOK
  <2> QED
    BY <1>0, <1>1, <1>2, <2>1 DEF TypeOK, Customer, Busy
<1>4. Counting' /\ Places'
  BY <1>0, <1>1 DEF Counting, Places
<1>5. Filled' /\ Named'
  BY <1>0, <1>1 DEF Filled, Named, Rows
<1>6. MineIn(split)' = MineIn(n)
  BY <1>1 DEF MineIn
<1>7. \A c \in mine, k \in 1..4 : c.split \in todo => ~Has(c, k)
  BY <1>0, <1>1 DEF Fresh
<1>8. \A c, k : Has(c, k)' <=> Has(c, k)
  BY <1>1 DEF Has
<1>9. Fresh'
  <2>1. n \notin todo' /\ todo' \subseteq todo
    BY <1>1
  <2>2. \A c \in MineIn(n), k \in 1..4 : ~Has(c, k)
    BY <1>2, <1>7
  <2>3. \A c \in sending' : ~Has(c, kind)'
    BY <1>1, <2>2 DEF Has
  <2> QED
    BY <1>1, <1>6, <1>7, <1>8, <2>1, <2>2, <2>3 DEF Fresh
<1>10. Given'
  <2>1. \A c \in mine, k \in 1..3 : c.split \notin todo => Has(c, k)
    BY <1>0, <1>1 DEF Given
  <2>2. todo' \union {split'} = todo
    BY <1>1
  <2> QED
    BY <1>1, <1>6, <1>8, <2>1, <2>2 DEF Given
<1> QED
  BY <1>3, <1>4, <1>5, <1>9, <1>10 DEF IInv

LEMMA AllSplitsDoneKeeps ==
  ASSUME IInv, AllSplitsDone
  PROVE  IInv'
PROOF
<1>0. TypeOK /\ Places /\ Filled /\ Named /\ Given
  BY DEF IInv
<1>1. /\ at = "children" /\ todo = {} /\ at' = "done"
      /\ UNCHANGED <<customers, childTables, children, probe, total, split, splitRows, left,
                     pending, mine, todo, kind, sending, runs, faults, misread>>
  BY DEF AllSplitsDone, dbVars, countVars, fillVars, childVars, history
<1>2. TypeOK'
  BY <1>0, <1>1 DEF TypeOK, Customer, Resting
<1>3. Counting' /\ Places' /\ Fresh'
  BY <1>0, <1>1 DEF Counting, Places, Fresh
<1>4. Filled' /\ Named'
  BY <1>0, <1>1 DEF Filled, Named, Rows
<1>5. Given'
  BY <1>0, <1>1 DEF Given, Has
<1> QED
  BY <1>2, <1>3, <1>4, <1>5 DEF IInv

\* A chunk gives each of its customers one row in the table at hand, and
\* changes no other table and no other row.
LEMMA ChunkEffects ==
  ASSUME IInv, at = "sending", TableExists,
         children' = [children EXCEPT ![Child[kind]] = @ (+) SetToBag(Chunk)],
         UNCHANGED <<customers, childTables, mine>>
  PROVE  /\ Chunk \subseteq sending /\ kind \in 1..4
         /\ DOMAIN children' = Range(Child)
         /\ \A c, k : k \in 1..4 => (Has(c, k)' <=> Has(c, k) \/ (k = kind /\ c \in Chunk))
         /\ Named'
PROOF
<1>0. TypeOK /\ Named /\ Fresh
  BY DEF IInv
<1>1. Chunk \subseteq sending
  BY DEF Chunk
<1>2. kind \in 1..4 /\ DOMAIN children = Range(Child) /\ Child[kind] \in Range(Child)
  BY <1>0, ChildFacts DEF TypeOK
<1> DEFINE old == children[Child[kind]]
           new == children'[Child[kind]]
<1>3. /\ DOMAIN children' = Range(Child)
      /\ new = old (+) SetToBag(Chunk)
      /\ \A k \in 1..4 : k # kind => children'[Child[k]] = children[Child[k]]
  BY <1>2, ChildFacts
<1>4. /\ DOMAIN SetToBag(Chunk) = Chunk /\ \A c \in Chunk : SetToBag(Chunk)[c] = 1
  BY DEF SetToBag
<1>5. /\ DOMAIN new = DOMAIN old \union Chunk
      /\ \A c \in DOMAIN new : new[c] = (IF c \in DOMAIN old THEN old[c] ELSE 0)
                                      + (IF c \in Chunk THEN 1 ELSE 0)
  <2> DEFINE chunk == Chunk
             bag == SetToBag(chunk)
  <2>1. DOMAIN bag = chunk /\ (\A c \in chunk : bag[c] = 1) /\ new = old (+) bag
    BY <1>3, <1>4
  <2> HIDE DEF new, old, bag, chunk
  <2>2. /\ DOMAIN new = DOMAIN old \union DOMAIN bag
        /\ \A c \in DOMAIN new : new[c] = (IF c \in DOMAIN old THEN old[c] ELSE 0)
                                        + (IF c \in DOMAIN bag THEN bag[c] ELSE 0)
    BY <2>1 DEF (+)
  <2> QED
    BY <2>1, <2>2 DEF chunk
<1>6. \A c \in Chunk : c \notin DOMAIN old
  BY <1>0, <1>1 DEF Fresh, Has
<1>7. \A c, k : k \in 1..4 => (Has(c, k)' <=> Has(c, k) \/ (k = kind /\ c \in Chunk))
  <2> SUFFICES ASSUME NEW c, NEW k \in 1..4
               PROVE  c \in DOMAIN children'[Child[k]] <=>
                        c \in DOMAIN children[Child[k]] \/ (k = kind /\ c \in Chunk)
    BY DEF Has
  <2>1. CASE k = kind
    BY <1>5, <2>1
  <2>2. CASE k # kind
    BY <1>3, <2>2
  <2> QED
    BY <2>1, <2>2
<1>8. ASSUME NEW k \in 1..4, NEW c \in DOMAIN children'[Child[k]]
      PROVE  /\ children'[Child[k]][c] = 1
             /\ <<Child[k], c.split>> \in childTables
             /\ c.id \in DOMAIN customers[c.split]
             /\ customers[c.split][c.id] = TRUE
  <2>1. CASE c \in DOMAIN children[Child[k]]
    <3>1. /\ children[Child[k]][c] = 1 /\ <<Child[k], c.split>> \in childTables
          /\ c.id \in DOMAIN customers[c.split] /\ customers[c.split][c.id] = TRUE
      BY <1>0, <2>1 DEF Named
    <3>2. children'[Child[k]][c] = 1
      <4>1. CASE k = kind
        <5>1. c \notin Chunk /\ old[c] = 1 /\ c \in DOMAIN old /\ c \in DOMAIN new
          BY <1>6, <2>1, <3>1, <4>1
        <5>2. new[c] = 1 + 0
          BY <1>5, <5>1
        <5> QED
          BY <4>1, <5>2
      <4>2. CASE k # kind
        BY <1>3, <3>1, <4>2
      <4> QED
        BY <4>1, <4>2
    <3> QED
      BY <3>1, <3>2
  <2>2. CASE c \notin DOMAIN children[Child[k]]
    <3>1. k = kind /\ c \in Chunk
      BY <1>3, <1>5, <2>2
    <3>2. c \in mine /\ c.split = split
      BY <1>0, <1>1, <3>1 DEF Fresh, MineIn
    <3>3. new[c] = 0 + 1
      BY <1>5, <1>6, <3>1
    <3>4. <<Child[k], c.split>> \in childTables
      BY <3>1, <3>2 DEF TableExists
    <3> QED
      BY <1>0, <3>1, <3>2, <3>3, <3>4 DEF Named
  <2> QED
    BY <2>1, <2>2
<1>9. Named'
  BY <1>0, <1>8 DEF Named
<1> QED
  BY <1>1, <1>2, <1>3, <1>7, <1>9

LEMMA InsertChunkKeeps ==
  ASSUME IInv, InsertChunk
  PROVE  IInv'
PROOF
<1>0. TypeOK /\ Places /\ Filled /\ Named /\ Fresh /\ Given
  BY DEF IInv
<1>1. /\ at = "sending" /\ TableExists
      /\ children' = [children EXCEPT ![Child[kind]] = @ (+) SetToBag(Chunk)]
      /\ sending' = sending \ Chunk
      /\ UNCHANGED <<customers, childTables, at, probe, total, split, splitRows, left,
                     pending, mine, todo, kind, runs, faults, misread>>
  BY DEF InsertChunk, countVars, fillVars, history
<1>2. /\ Chunk \subseteq sending /\ kind \in 1..4
      /\ DOMAIN children' = Range(Child)
      /\ \A c, k : k \in 1..4 => (Has(c, k)' <=> Has(c, k) \/ (k = kind /\ c \in Chunk))
      /\ Named'
  BY <1>1, ChunkEffects
<1>3. TypeOK'
  BY <1>0, <1>1, <1>2 DEF TypeOK, Customer
<1>4. Counting' /\ Places' /\ Filled'
  BY <1>0, <1>1 DEF Counting, Places, Filled, Rows
<1>5. MineIn(split)' = MineIn(split) /\ sending \subseteq MineIn(split)
  BY <1>0, <1>1 DEF MineIn, Fresh
<1>6. \A c \in MineIn(split) : c \in mine /\ c.split = split
  BY DEF MineIn
<1>7. Fresh'
  <2>1. /\ \A c \in mine, k \in 1..4 : c.split \in todo => ~Has(c, k)
        /\ split \notin todo
        /\ \A c \in sending : ~Has(c, kind)
        /\ \A c \in MineIn(split), k \in 1..4 : k > kind => ~Has(c, k)
    BY <1>0, <1>1 DEF Fresh
  <2>2. \A c \in mine, k \in 1..4 : c.split \in todo => ~Has(c, k)'
    BY <1>2, <1>5, <1>6, <2>1
  <2>3. \A c \in sending' : ~Has(c, kind)'
    <3>1. \A c : Has(c, kind)' <=> c \in DOMAIN children'[Child[kind]]
      BY <1>1 DEF Has
    <3>2. \A c : c \in DOMAIN children'[Child[kind]] <=> Has(c, kind) \/ c \in Chunk
      <4>1. \A k \in 1..4 : \A c : Has(c, k)' <=> c \in DOMAIN children'[Child[k]]
        BY DEF Has
      <4> QED
        BY <1>2, <4>1
    <3> QED
      BY <1>1, <2>1, <3>1, <3>2
  <2>4. \A c \in MineIn(split), k \in 1..4 : k > kind => ~Has(c, k)'
    BY <1>2, <2>1
  <2> QED
    BY <1>1, <1>5, <2>1, <2>2, <2>3, <2>4 DEF Fresh
<1>8. Given'
  <2>1. /\ \A c \in mine, k \in 1..3 : c.split \notin todo \union {split} => Has(c, k)
        /\ \A c \in MineIn(split), k \in 1..3 :
             k < kind \/ (k = kind /\ c \notin sending) => Has(c, k)
    BY <1>0, <1>1 DEF Given
  <2>2. \A c \in mine, k \in 1..3 : c.split \notin todo \union {split} => Has(c, k)'
    BY <1>2, <2>1
  <2>3. \A c \in MineIn(split), k \in 1..3 :
          k < kind \/ (k = kind /\ c \notin sending') => Has(c, k)'
    BY <1>1, <1>2, <2>1
  <2> QED
    BY <1>1, <1>5, <2>2, <2>3 DEF Given
<1> QED
  BY <1>2, <1>3, <1>4, <1>7, <1>8 DEF IInv


LEMMA NextKindKeeps ==
  ASSUME IInv, NextKind
  PROVE  IInv'
PROOF
<1>0. TypeOK /\ Places /\ Filled /\ Named /\ Fresh /\ Given
  BY DEF IInv
<1>1. /\ at = "sending" /\ sending = {} /\ kind < 4 /\ kind' = kind + 1
      /\ sending' \subseteq MineIn(split) /\ (kind' # 4 => sending' = MineIn(split))
      /\ UNCHANGED <<customers, childTables, children, at, probe, total, split, splitRows,
                     left, pending, mine, todo, runs, faults, misread>>
  BY ChildFacts DEF NextKind, dbVars, countVars, fillVars, history
<1>2. kind \in 1..4 /\ kind' \in 1..4
  BY <1>0, <1>1, ChildFacts DEF TypeOK
<1>3. TypeOK'
  <2>1. sending' \subseteq mine /\ kind' \in DOMAIN Child
    BY <1>1, <1>2, ChildFacts DEF MineIn
  <2> QED
    BY <1>0, <1>1, <2>1 DEF TypeOK, Customer
<1>4. Counting' /\ Places' /\ Filled' /\ Named'
  BY <1>0, <1>1 DEF Counting, Places, Filled, Named, Rows
<1>5. MineIn(split)' = MineIn(split)
  BY <1>1 DEF MineIn
<1>6. \A c, k : Has(c, k)' <=> Has(c, k)
  BY <1>1 DEF Has
<1>7. Fresh'
  <2>1. /\ \A c \in mine, k \in 1..4 : c.split \in todo => ~Has(c, k)
        /\ split \notin todo
        /\ \A c \in MineIn(split), k \in 1..4 : k > kind => ~Has(c, k)
    BY <1>0, <1>1 DEF Fresh
  <2>2. \A c \in MineIn(split), k \in 1..4 : k >= kind' => ~Has(c, k)'
    BY <1>1, <1>2, <1>6, <2>1
  <2>3. \A c \in sending' : ~Has(c, kind)'
    <3>1. \A k \in 1..4 : \A c : Has(c, k)' <=> c \in DOMAIN children'[Child[k]]
      BY DEF Has
    <3>2. \A c : Has(c, kind)' <=> c \in DOMAIN children'[Child[kind']]
      BY DEF Has
    <3> QED
      BY <1>1, <1>2, <2>2, <3>1, <3>2
  <2>4. \A c \in MineIn(split), k \in 1..4 : k > kind' => ~Has(c, k)'
    BY <1>2, <2>2
  <2> QED
    BY <1>1, <1>5, <1>6, <2>1, <2>3, <2>4 DEF Fresh
<1>8. Given'
  <2>1. /\ \A c \in mine, k \in 1..3 : c.split \notin todo \union {split} => Has(c, k)
        /\ \A c \in MineIn(split), k \in 1..3 : k <= kind => Has(c, k)
    BY <1>0, <1>1, <1>2 DEF Given
  <2>2. ASSUME NEW c \in MineIn(split), NEW k \in 1..3,
               k < kind' \/ (k = kind' /\ c \notin sending')
        PROVE  Has(c, k)
    <3>1. CASE k < kind'
      BY <1>1, <1>2, <2>1, <3>1
    <3>2. CASE k = kind' /\ c \notin sending'
      BY <1>1, <3>2
    <3> QED
      BY <2>2, <3>1, <3>2
  <2> QED
    BY <1>1, <1>5, <1>6, <2>1, <2>2 DEF Given
<1> QED
  BY <1>3, <1>4, <1>7, <1>8 DEF IInv

LEMMA KindsDoneKeeps ==
  ASSUME IInv, KindsDone
  PROVE  IInv'
PROOF
<1>0. TypeOK /\ Places /\ Filled /\ Named /\ Fresh /\ Given
  BY DEF IInv
<1>1. /\ at = "sending" /\ sending = {} /\ kind = 4 /\ at' = "children"
      /\ UNCHANGED <<customers, childTables, children, probe, total, split, splitRows, left,
                     pending, mine, todo, kind, sending, runs, faults, misread>>
  BY ChildFacts DEF KindsDone, dbVars, countVars, fillVars, childVars, history
<1>2. TypeOK'
  BY <1>0, <1>1 DEF TypeOK, Customer, Busy
<1>3. Counting' /\ Places' /\ Filled' /\ Named'
  BY <1>0, <1>1 DEF Counting, Places, Filled, Named, Rows
<1>4. \A c, k : Has(c, k)' <=> Has(c, k)
  BY <1>1 DEF Has
<1>5. Fresh'
  BY <1>0, <1>1, <1>4 DEF Fresh
<1>6. Given'
  <2>1. ASSUME NEW c \in mine, NEW k \in 1..3, c.split \notin todo
        PROVE  Has(c, k)
    <3>1. CASE c.split = split
      <4>1. c \in MineIn(split) /\ k < kind
        BY <1>1, <3>1 DEF MineIn
      <4> QED
        BY <1>0, <1>1, <4>1 DEF Given
    <3>2. CASE c.split # split
      BY <1>0, <1>1, <2>1, <3>2 DEF Given
    <3> QED
      BY <3>1, <3>2
  <2> QED
    BY <1>1, <1>4, <2>1 DEF Given
<1> QED
  BY <1>2, <1>3, <1>5, <1>6 DEF IInv

LEMMA ChunkFailsKeeps ==
  ASSUME IInv, ChunkFails
  PROVE  IInv'
PROOF
<1>0. TypeOK /\ Places /\ Filled /\ Named /\ Fresh /\ Given
  BY DEF IInv
<1>1. /\ at = "sending" /\ at' = "failed"
      /\ UNCHANGED <<customers, childTables, countVars, fillVars, childVars>>
  BY DEF ChunkFails
<1>2. CASE ~TableExists /\ UNCHANGED <<children, history>>
  <2>1. faults' \in 0..MaxFaults /\ UNCHANGED <<dbVars, runs, misread>>
    BY <1>0, <1>1, <1>2 DEF TypeOK, dbVars, history
  <2> QED
    BY <1>1, <2>1, StopKeeps
<1>3. CASE Fault /\ UNCHANGED children
  <2>1. UNCHANGED dbVars
    BY <1>1, <1>3 DEF dbVars
  <2> QED
    BY <1>1, <1>3, <2>1, FaultCounts, StopKeeps
<1>4. CASE /\ TableExists /\ Fault
           /\ children' = [children EXCEPT ![Child[kind]] = @ (+) SetToBag(Chunk)]
  <2>1. UNCHANGED <<customers, childTables, probe, total, split, splitRows, left,
                    pending, mine, todo, kind, sending, runs, misread>>
    BY <1>1, <1>4 DEF countVars, fillVars, childVars, Fault
  <2>2. faults' \in 0..MaxFaults
    BY <1>4, FaultCounts
  <2>3. DOMAIN children' = Range(Child) /\ Named'
    BY <1>1, <1>4, <2>1, ChunkEffects
  <2>4. TypeOK'
    BY <1>0, <1>1, <2>1, <2>2, <2>3 DEF TypeOK, Customer, Resting
  <2>5. Counting' /\ Places' /\ Fresh' /\ Given'
    BY <1>0, <1>1, <2>1 DEF Counting, Places, Fresh, Given
  <2>6. Filled'
    BY <1>0, <1>1, <2>1 DEF Filled, Rows
  <2> QED
    BY <2>3, <2>4, <2>5, <2>6 DEF IInv
<1> QED
  BY <1>2, <1>3, <1>4 DEF ChunkFails

-----------------------------------------------------------------------------
(* Every reachable state *)

LEMMA StutterKeeps ==
  ASSUME IInv, UNCHANGED vars
  PROVE  IInv'
PROOF
<1>1. UNCHANGED <<customers, childTables, children, at, probe, total, split, splitRows, left,
                  pending, mine, todo, kind, sending, runs, faults, misread>>
  BY DEF vars, dbVars, countVars, fillVars, childVars, history
<1>2. TypeOK /\ Counting /\ Places /\ Filled /\ Named /\ Fresh /\ Given
  BY DEF IInv
<1>3. TypeOK' /\ Counting' /\ Places'
  BY <1>1, <1>2 DEF TypeOK, Customer, Counting, Places
<1>4. Filled' /\ Named'
  BY <1>1, <1>2 DEF Filled, Named, Rows
<1>5. MineIn(split)' = MineIn(split) /\ \A c, k : Has(c, k)' <=> Has(c, k)
  BY <1>1 DEF MineIn, Has
<1>6. Fresh' /\ Given'
  BY <1>1, <1>2, <1>5 DEF Fresh, Given, Has
<1> QED
  BY <1>3, <1>4, <1>6 DEF IInv

LEMMA NextIInv ==
  ASSUME IInv, [Next]_vars
  PROVE  IInv'
PROOF
<1>1. CASE Progress
  BY <1>1, CountSplitKeeps, CountedKeeps, MakeRowKeeps, FlushCustomersKeeps, NextSplitKeeps,
     CreateTableKeeps, FinishFillingKeeps, PickSplitKeeps, InsertChunkKeeps, NextKindKeeps,
     KindsDoneKeeps, AllSplitsDoneKeeps DEF Progress
<1>2. CASE UNCHANGED vars
  BY <1>2, StutterKeeps
<1> QED
  BY <1>1, <1>2, StartRunKeeps, FlushFailsKeeps, CreateFailsKeeps, ChunkFailsKeeps,
     CrashKeeps DEF Next

LEMMA Invariance == Spec => []IInv
BY InitIInv, NextIInv, PTL DEF Spec

\* However often the seeder is killed, fails or has inserted rows whose answer
\* it never saw, its runs together insert no more customers than were asked
\* for, unless inspectExistingSplits took a failed count for a missing table.
THEOREM ShardNeverOverfills == Spec => []NoOverfill
PROOF
<1>1. ASSUME IInv
      PROVE  NoOverfill
  <2>1. misread = FALSE => Rows <= Target
    BY <1>1 DEF IInv, Filled
  <2>2. misread = FALSE \/ misread = TRUE
    BY <1>1 DEF IInv, TypeOK
  <2>3. TotalRows = Rows
    BY <1>1, RowsIsTotal DEF IInv
  <2> QED
    BY <2>1, <2>2, <2>3 DEF NoOverfill
<1> QED
  BY <1>1, Invariance, PTL

\* seedShard moves on to a new split only when the one in hand has the cap, and
\* passes the cap by less than one batch, over all the runs.
THEOREM SplitsFill == Spec => []SplitsFillInOrder
PROOF
<1>1. ASSUME IInv
      PROVE  SplitsFillInOrder
  <2>1. misread = FALSE \/ misread = TRUE
    BY <1>1 DEF IInv, TypeOK
  <2>2. DOMAIN customers = 1..Len(customers)
    BY <1>1, SplitFacts DEF IInv
  <2> QED
    BY <1>1, <2>1, <2>2 DEF IInv, Filled, SplitsFillInOrder
<1> QED
  BY <1>1, Invariance, PTL

\* A child row that seedSubscriptions and its three siblings insert is in the
\* table of its customer's split and names a customer there that has an MSISDN,
\* and no customer gets two rows in one table, whatever was run again.
THEOREM ChildrenMatch == Spec => []ChildrenMatchTheirCustomer
PROOF
<1>1. ASSUME IInv
      PROVE  ChildrenMatchTheirCustomer
  <2>1. \A k \in Range(Child) : \E j \in 1..4 : k = Child[j]
    BY ChildFacts
  <2> QED
    BY <1>1, <2>1 DEF IInv, Named, ChildrenMatchTheirCustomer
<1> QED
  BY <1>1, Invariance, PTL

\* When seedShard returns without an error, every customer the run made with an
\* MSISDN, in whichever split, has its subscription, its bill and its SIM.
THEOREM RunsSeedTheirChildren == Spec => []RunSeedsItsChildren
PROOF
<1>1. ASSUME IInv
      PROVE  RunSeedsItsChildren
  BY <1>1 DEF IInv, Given, Has, RunSeedsItsChildren
<1> QED
  BY <1>1, Invariance, PTL
=============================================================================
