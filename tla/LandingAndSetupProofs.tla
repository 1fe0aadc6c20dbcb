------------------------ MODULE LandingAndSetupProofs ------------------------
(***************************************************************************)
(* Proofs about the landing directory, for every part size, every total    *)
(* and every number of runs, kills and crashes, and about make setup, for  *)
(* all zones, companies, brands and cities.  The two are apart, and share  *)
(* what is said of lists of lists, of parts here and of statements there.  *)
(*                                                                         *)
(* Landing: the inductive invariant says where a run stands.  EndOf(r) is  *)
(* the number one past the parts run r has come to, which is never past    *)
(* the end of the directory, and is its end while a movement run is at     *)
(* work alone; later runs begin behind it.  Laid says what the parts of a  *)
(* run hold.                                                               *)
(*                                                                         *)
(* Setup: Runs(s, B) says that each statement of the list s finds what it  *)
(* needs where all of B exists, and writes over nothing that the operator  *)
(* may have edited.  It is shown of each program, and of the concatenation *)
(* of two when the first creates what the second relies on; the invariant  *)
(* needs it of the whole script.                                           *)
(***************************************************************************)
EXTENDS Landing, Setup, Integers, FiniteSetTheorems, SequenceTheorems,
        WellFoundedInduction, TLAPS

-----------------------------------------------------------------------------
(* The landing directory *)

Row == [run : Run, id : Nat \ {0}]

Writer == [at : {"new", "between", "open", "done", "killed"},
           first : Nat, total : Nat, made : Nat]

\* The number of parts.
Size == Cardinality(DOMAIN parts)

\* One past the last part that run r has opened for its rows.
EndOf(r) ==
  IF writer[r].at = "open" \/ writer[r].made % RowsPerPart # 0
  THEN PartOf(r) + 1 ELSE PartOf(r)

\* Nobody has written over the parts of run r.
Owns(r) ==
  /\ ~overlap /\ writer[r].at # "new"
  /\ kind = "snapshot" => \A s \in Run : s > r => writer[s].at = "new"

\* Rows of run r that go into its q-th part, of the first m that it writes.
Share(q, m) ==
  IF m >= (q + 1) * RowsPerPart THEN RowsPerPart ELSE m - q * RowsPerPart

\* The q-th part of run r when it holds len rows.
Block(r, q, len) == [i \in 1..len |-> [run |-> r, id |-> q * RowsPerPart + i]]

Types ==
  /\ kind \in {"movement", "snapshot"}
  /\ parts = [n \in DOMAIN parts |-> parts[n]]
  /\ \A n \in DOMAIN parts : parts[n] \in Seq(Row)
  /\ writer \in [Run -> Writer]
  /\ kills \in 0..MaxKills /\ overlap \in BOOLEAN
  /\ scan \in [on : BOOLEAN, files : Seq(Nat), part : Nat, row : Nat]
  /\ Range(scan.files) \subseteq DOMAIN parts
  /\ saved \in [part : Nat, row : Nat]
  /\ delivered \subseteq Row /\ crashes \in 0..MaxCrashes

Contiguous == Size \in Nat /\ DOMAIN parts = 0..Size - 1

\* A run that is at work has rows to write while a part is open, and is
\* between two parts only at the end of one; a run that is done has written all.
Steady ==
  \A r \in Run :
    /\ writer[r].made <= writer[r].total
    /\ writer[r].at = "open" => writer[r].made < writer[r].total
    /\ writer[r].at = "between" /\ writer[r].made < writer[r].total =>
         writer[r].made % RowsPerPart = 0
    /\ writer[r].at = "done" => writer[r].made = writer[r].total

\* Runs begin in order, and unless two overlap, after the one before has stopped.
InTurn ==
  \A r, s \in Run : r < s /\ writer[s].at # "new" =>
    writer[r].at # "new" /\ (~overlap => ~Busy(r))

\* A run never leaves a gap; a movement run that is alone works at the end of
\* the directory, behind everything the runs before it have written.
AtTheEnd ==
  \A r \in Run :
    /\ EndOf(r) <= Size
    /\ kind = "movement" /\ ~overlap =>
         /\ Busy(r) => EndOf(r) = Size
         /\ \A s \in Run : r < s /\ writer[s].at # "new" => EndOf(r) <= writer[s].first

\* What the parts of a run hold, and how long a part can be.
Laid ==
  \A r \in Run : Owns(r) =>
    \A n \in writer[r].first..EndOf(r) - 1 :
      parts[n] = Block(r, n - writer[r].first,
                       Share(n - writer[r].first, writer[r].made))

Fits == ~overlap => \A n \in DOMAIN parts : Len(parts[n]) <= RowsPerPart

IInv ==
  Types /\ Contiguous /\ Steady /\ InTurn /\ AtTheEnd /\ Laid /\ Fits

-----------------------------------------------------------------------------
(* Parts and rows *)

\* Division of a row's number by the rows of a part, and of the next one's.
LEMMA NextDivision ==
  ASSUME NEW d \in Nat \ {0}, NEW n \in Nat
  PROVE  /\ n \div d \in Nat /\ n % d \in 0..d - 1 /\ n = d * (n \div d) + (n % d)
         /\ (n + 1) % d = 0 => (n + 1) \div d = n \div d + 1 /\ n % d = d - 1
         /\ (n + 1) % d # 0 => (n + 1) \div d = n \div d /\ (n + 1) % d = (n % d) + 1
<1>1. n \div d \in Nat /\ n % d \in 0..d - 1
  OBVIOUS
<1>2. n = d * (n \div d) + (n % d)
  OBVIOUS
<1>3. ASSUME (n + 1) % d = 0
      PROVE  (n + 1) \div d = n \div d + 1 /\ n % d = d - 1
  BY <1>3
<1>4. ASSUME (n + 1) % d # 0
      PROVE  (n + 1) \div d = n \div d /\ (n + 1) % d = (n % d) + 1
  BY <1>4
<1> QED
  BY <1>1, <1>2, <1>3, <1>4

LEMMA ZeroDivision ==
  ASSUME NEW d \in Nat \ {0}
  PROVE  0 \div d = 0 /\ 0 % d = 0
  OBVIOUS

LEMMA ProductGrows ==
  ASSUME NEW d \in Nat \ {0}, NEW a \in Nat, NEW b \in Nat, a <= b
  PROVE  /\ a * d \in Nat /\ b * d \in Nat /\ a * d <= b * d
         /\ (a + 1) * d = a * d + d /\ d * a = a * d
  OBVIOUS

\* The parts before the one that the next row goes into are full.
LEMMA Shares ==
  ASSUME NEW m \in Nat
  PROVE  LET d == m \div RowsPerPart
         IN  /\ d \in Nat
             /\ \A q \in 0..d - 1 : Share(q, m) = RowsPerPart /\ Share(q, m + 1) = RowsPerPart
             /\ Share(d, m) = m % RowsPerPart /\ Share(d, m + 1) = (m % RowsPerPart) + 1
             /\ d * RowsPerPart + (m % RowsPerPart) = m
<1> DEFINE d == m \div RowsPerPart
           c == m % RowsPerPart
<1>1. RowsPerPart \in Nat \ {0}
  BY LandingAssumption
<1>2. d \in Nat /\ c \in 0..RowsPerPart - 1 /\ m = RowsPerPart * d + c
  BY <1>1, NextDivision
<1> HIDE DEF d, c
<1>3. /\ d * RowsPerPart \in Nat /\ RowsPerPart * d = d * RowsPerPart
      /\ (d + 1) * RowsPerPart = d * RowsPerPart + RowsPerPart
  BY <1>1, <1>2, ProductGrows
<1>4. ASSUME NEW q \in 0..d - 1
      PROVE  Share(q, m) = RowsPerPart /\ Share(q, m + 1) = RowsPerPart
  <2>1. (q + 1) * RowsPerPart <= d * RowsPerPart /\ (q + 1) * RowsPerPart \in Nat
    <3>1. q + 1 \in Nat /\ q + 1 <= d
      BY <1>2
    <3> QED
      BY <1>1, <1>2, <3>1, ProductGrows
  <2>2. m >= (q + 1) * RowsPerPart /\ m + 1 >= (q + 1) * RowsPerPart
    BY <1>1, <1>2, <1>3, <2>1
  <2> QED
    BY <2>2 DEF Share
<1>5. /\ m - d * RowsPerPart = c /\ (m + 1) - d * RowsPerPart = c + 1
      /\ ~(m >= (d + 1) * RowsPerPart)
      /\ m + 1 >= (d + 1) * RowsPerPart => RowsPerPart = c + 1
  BY <1>1, <1>2, <1>3
<1>6. Share(d, m) = c /\ Share(d, m + 1) = c + 1
  <2>1. Share(d, m) = m - d * RowsPerPart
    BY <1>5 DEF Share
  <2>2. Share(d, m + 1) = IF m + 1 >= (d + 1) * RowsPerPart THEN RowsPerPart
                          ELSE (m + 1) - d * RowsPerPart
    BY Zenon DEF Share
  <2> QED
    BY <1>5, <2>1, <2>2
<1>7. d * RowsPerPart + c = m
  BY <1>1, <1>2, <1>3
<1> QED
  BY <1>2, <1>4, <1>6, <1>7 DEF d, c

LEMMA Blocks ==
  ASSUME NEW r \in Run, NEW q \in Nat, NEW len \in Nat
  PROVE  /\ Block(r, q, len) \in Seq(Row) /\ Len(Block(r, q, len)) = len
         /\ Block(r, q, 0) = <<>>
         /\ Append(Block(r, q, len), [run |-> r, id |-> q * RowsPerPart + (len + 1)])
              = Block(r, q, len + 1)
<1> DEFINE row(i) == [run |-> r, id |-> q * RowsPerPart + i]
<1>1. q * RowsPerPart \in Nat
  BY LandingAssumption, ProductGrows
<1>2. \A i \in Nat \ {0} : row(i) \in Row
  BY <1>1 DEF Row
<1>3. \A k \in Nat : Block(r, q, k) = [i \in 1..k |-> row(i)]
  BY DEF Block
<1> HIDE DEF row
<1>4. \A k \in Nat : [i \in 1..k |-> row(i)] \in Seq(Row) /\ Len([i \in 1..k |-> row(i)]) = k
  BY <1>2
<1>5. Append([i \in 1..len |-> row(i)], row(len + 1)) = [i \in 1..len + 1 |-> row(i)]
  <2> DEFINE s == [i \in 1..len |-> row(i)]
             t == [i \in 1..len + 1 |-> row(i)]
  <2>1. /\ s \in Seq(Row) /\ Len(s) = len /\ t \in Seq(Row) /\ Len(t) = len + 1
        /\ \A i \in 1..len : s[i] = row(i)
        /\ \A i \in 1..len + 1 : t[i] = row(i)
    BY <1>4
  <2>2. row(len + 1) \in Row
    BY <1>2
  <2> HIDE DEF s, t
  <2>3. /\ Append(s, row(len + 1)) \in Seq(Row) /\ Len(Append(s, row(len + 1))) = len + 1
        /\ \A i \in 1..len + 1 : Append(s, row(len + 1))[i] = row(i)
    BY <2>1, <2>2
  <2>4. Append(s, row(len + 1)) = t
    BY <2>1, <2>3
  <2> QED
    BY <2>4 DEF s, t
<1>6. [i \in 1..0 |-> row(i)] = <<>>
  <2>1. [i \in 1..0 |-> row(i)] \in Seq(Row) /\ Len([i \in 1..0 |-> row(i)]) = 0
    BY <1>4
  <2> QED
    BY <2>1
<1>7. /\ Block(r, q, len) = [i \in 1..len |-> row(i)]
      /\ Block(r, q, 0) = [i \in 1..0 |-> row(i)]
      /\ Block(r, q, len + 1) = [i \in 1..len + 1 |-> row(i)]
  <2>1. 0 \in Nat /\ len + 1 \in Nat
    OBVIOUS
  <2> QED
    BY <1>3, <2>1, Zenon
<1>8. row(len + 1) = [run |-> r, id |-> q * RowsPerPart + (len + 1)]
  BY DEF row
<1> QED
  BY <1>4, <1>5, <1>6, <1>7, <1>8

-----------------------------------------------------------------------------
(* The directory *)

LEMMA Interval ==
  ASSUME NEW k \in Nat
  PROVE  Cardinality(0..k - 1) = k /\ IsFiniteSet(0..k - 1)
<1>1. 0 \in Int /\ k - 1 \in Int
  OBVIOUS
<1>2. /\ IsFiniteSet(0..k - 1)
      /\ Cardinality(0..k - 1) = IF 0 > k - 1 THEN 0 ELSE k - 1 - 0 + 1
  BY <1>1, FS_Interval
<1> QED
  BY <1>2

\* The next part number is the number of parts.
LEMMA NextIsSize ==
  ASSUME Contiguous
  PROVE  NextPartSeq = Size
<1>1. Size \in Nat /\ DOMAIN parts = 0..Size - 1
  BY DEF Contiguous
<1>2. CASE Size = 0
  BY <1>1, <1>2 DEF NextPartSeq
<1>3. CASE Size # 0
  <2>1. \E x \in 0..Size - 1 : \A y \in 0..Size - 1 : x >= y
    <3>1. Size - 1 \in 0..Size - 1 /\ \A y \in 0..Size - 1 : Size - 1 >= y
      BY <1>1, <1>3
    <3> QED
      BY <3>1
  <2>2. Max(0..Size - 1) \in 0..Size - 1 /\ \A y \in 0..Size - 1 : Max(0..Size - 1) >= y
    BY <2>1 DEF Max
  <2>3. Max(0..Size - 1) = Size - 1
    BY <1>1, <1>3, <2>2
  <2>4. DOMAIN parts # {}
    BY <1>1, <1>3
  <2> QED
    BY <1>1, <2>3, <2>4 DEF NextPartSeq
<1> QED
  BY <1>2, <1>3

\* A scan lists parts that there are.
LEMMA ListedExist ==
  ASSUME Contiguous
  PROVE  /\ Ascending(DOMAIN parts) \in Seq(Nat)
         /\ Range(Ascending(DOMAIN parts)) \subseteq DOMAIN parts
<1>1. Size \in Nat /\ DOMAIN parts = 0..Size - 1
  BY DEF Contiguous
<1> DEFINE n == Size
           up(f) == \A i, j \in DOMAIN f : i < j => f[i] < f[j]
           S == 0..n - 1
           a == CHOOSE f \in [1..n -> S] : up(f)
<1>2. Ascending(DOMAIN parts) = a
  BY <1>1 DEF Ascending, Size
<1>3. \E f \in [1..n -> S] : up(f)
  <2> DEFINE g == [i \in 1..n |-> i - 1]
  <2>0. n \in Nat
    BY <1>1
  <2> HIDE DEF n
  <2>1. g \in [1..n -> S] /\ up(g)
    BY <2>0
  <2> QED
    BY <2>1
<1> HIDE DEF S, up
<1>4. a \in [1..n -> S]
  BY <1>3
<1> HIDE DEF a
<1>5. \A i \in 1..n : a[i] \in S
  BY <1>4
<1>6. DOMAIN a = 1..n /\ Range(a) \subseteq S
  BY <1>4, <1>5 DEF Range
<1>7. a \in Seq(Nat)
  <2>1. S \subseteq Nat
    BY <1>1 DEF S
  <2>2. a \in [1..n -> Nat] /\ n \in Nat
    BY <1>1, <1>4, <2>1
  <2> HIDE DEF n
  <2> QED
    BY <2>2
<1> QED
  BY <1>1, <1>2, <1>6, <1>7 DEF S

\* What depends on one run alone.
LEMMA SameRun ==
  ASSUME NEW s \in Run, writer'[s] = writer[s]
  PROVE  EndOf(s)' = EndOf(s) /\ PartOf(s)' = PartOf(s) /\ (Busy(s)' <=> Busy(s))
  BY DEF EndOf, PartOf, Busy

\* Numbers of a run.
LEMMA RunNumbers ==
  ASSUME IInv, NEW r \in Run
  PROVE  /\ writer[r].first \in Nat /\ writer[r].made \in Nat /\ writer[r].total \in Nat
         /\ writer[r].made \div RowsPerPart \in Nat /\ writer[r].made % RowsPerPart \in Nat
         /\ PartOf(r) = writer[r].first + writer[r].made \div RowsPerPart
         /\ PartOf(r) \in Nat /\ EndOf(r) \in Nat /\ EndOf(r) \in {PartOf(r), PartOf(r) + 1}
         /\ writer[r].first <= EndOf(r)
<1>1. writer[r] \in Writer
  BY DEF IInv, Types
<1>2. writer[r].first \in Nat /\ writer[r].made \in Nat /\ writer[r].total \in Nat
  BY <1>1 DEF Writer
<1>3. writer[r].made \div RowsPerPart \in Nat /\ writer[r].made % RowsPerPart \in Nat
  <2>1. RowsPerPart \in Nat \ {0} /\ writer[r].made \in Nat
    BY <1>2, LandingAssumption
  <2> DEFINE d == RowsPerPart
             n == writer[r].made
  <2> HIDE DEF d, n
  <2>2. n \div d \in Nat /\ n % d \in 0..d - 1 /\ d \in Nat
    BY <2>1, NextDivision DEF d, n
  <2>3. n % d \in Nat
    BY <2>2
  <2> QED
    BY <2>2, <2>3 DEF d, n
<1>4. PartOf(r) = writer[r].first + writer[r].made \div RowsPerPart
  BY DEF PartOf
<1> QED
  BY <1>2, <1>3, <1>4 DEF EndOf

-----------------------------------------------------------------------------
(* The inductive invariant *)

LEMMA InitIInv == Init => IInv
<1> SUFFICES ASSUME Init PROVE IInv
  OBVIOUS
<1>1. /\ kind \in {"movement", "snapshot"} /\ parts = <<>>
      /\ writer = [r \in Run |-> [at |-> "new", first |-> 0, total |-> 0, made |-> 0]]
      /\ kills = 0 /\ overlap = FALSE
      /\ scan = [on |-> FALSE, files |-> <<>>, part |-> 0, row |-> 0]
      /\ saved = [part |-> 0, row |-> 0] /\ delivered = {} /\ crashes = 0
  BY DEF Init
<1>2. /\ <<>> \in Seq(Nat) /\ DOMAIN <<>> = {} /\ <<>> = [n \in {} |-> <<>>[n]]
      /\ Range(<<>>) = {}
  <2>1. <<>> \in Seq(Nat) /\ Len(<<>>) = 0
    OBVIOUS
  <2>2. DOMAIN <<>> = {}
    OBVIOUS
  <2>3. <<>> = [n \in DOMAIN <<>> |-> <<>>[n]]
    OBVIOUS
  <2> QED
    BY <2>1, <2>2, <2>3 DEF Range
<1>3. Types
  <2>1. /\ scan \in [on : BOOLEAN, files : Seq(Nat), part : Nat, row : Nat]
        /\ scan.files = <<>> /\ saved \in [part : Nat, row : Nat]
    BY <1>1, <1>2
  <2>2. [at |-> "new", first |-> 0, total |-> 0, made |-> 0] \in Writer
    BY DEF Writer
  <2>3. writer \in [Run -> Writer]
    BY <1>1, <2>2
  <2>4. kills \in 0..MaxKills /\ crashes \in 0..MaxCrashes
    BY <1>1, LandingAssumption
  <2>5. /\ parts = [n \in DOMAIN parts |-> parts[n]]
        /\ \A n \in DOMAIN parts : parts[n] \in Seq(Row)
    BY <1>1, <1>2
  <2> QED
    BY <1>1, <1>2, <2>1, <2>3, <2>4, <2>5 DEF Types
<1>4. Contiguous
  <2>1. Cardinality({}) = 0
    BY FS_EmptySet
  <2> QED
    BY <1>1, <1>2, <2>1 DEF Contiguous, Size
<1>5. \A r \in Run : writer[r].at = "new" /\ writer[r].made = 0 /\ writer[r].total = 0
                     /\ writer[r].first = 0
  BY <1>1
<1>6. Steady /\ InTurn
  BY <1>5 DEF Steady, InTurn
<1>7. AtTheEnd
  <2>1. 0 \div RowsPerPart = 0 /\ 0 % RowsPerPart = 0
    BY LandingAssumption, ZeroDivision
  <2>2. \A r \in Run : EndOf(r) = 0
    BY <1>5, <2>1 DEF EndOf, PartOf
  <2>3. \A r \in Run : ~Busy(r)
    BY <1>5 DEF Busy
  <2> QED
    BY <1>4, <1>5, <2>2, <2>3 DEF AtTheEnd, Contiguous
<1>8. Laid /\ Fits
  BY <1>1, <1>2, <1>5 DEF Laid, Owns, Fits
<1> QED
  BY <1>3, <1>4, <1>6, <1>7, <1>8 DEF IInv

\* Steps that leave the directory and the runs alone.
LEMMA FlowKeeps ==
  ASSUME IInv, UNCHANGED seederVars,
         /\ scan' \in [on : BOOLEAN, files : Seq(Nat), part : Nat, row : Nat]
         /\ Range(scan'.files) \subseteq DOMAIN parts
         /\ saved' \in [part : Nat, row : Nat]
         /\ delivered' \subseteq Row /\ crashes' \in 0..MaxCrashes
  PROVE  IInv'
<1>1. UNCHANGED <<kind, parts, writer, kills, overlap>>
  BY DEF seederVars
<1>2. Types'
  BY <1>1 DEF IInv, Types
<1>3. Size' = Size /\ (\A r \in Run : writer'[r] = writer[r])
  BY <1>1 DEF Size
<1>4. Contiguous' /\ Steady'
  BY <1>1, <1>3 DEF IInv, Contiguous, Steady
<1>5. \A r \in Run : EndOf(r)' = EndOf(r) /\ (Busy(r)' <=> Busy(r)) /\ (Owns(r)' <=> Owns(r))
  BY <1>1 DEF EndOf, PartOf, Busy, Owns
<1>6. InTurn' /\ AtTheEnd'
  BY <1>1, <1>3, <1>5 DEF IInv, InTurn, AtTheEnd
<1>7. Laid' /\ Fits'
  BY <1>1, <1>5 DEF IInv, Laid, Fits
<1> QED
  BY <1>2, <1>4, <1>6, <1>7 DEF IInv

LEMMA StartScanKeeps == ASSUME IInv, StartScan PROVE IInv'
<1>1. /\ scan' = [on |-> TRUE, files |-> Ascending(DOMAIN parts),
                  part |-> saved.part, row |-> saved.row]
      /\ UNCHANGED <<seederVars, saved, delivered, crashes>>
  BY DEF StartScan
<1>2. /\ saved \in [part : Nat, row : Nat] /\ delivered \subseteq Row
      /\ crashes \in 0..MaxCrashes /\ Contiguous
  BY DEF IInv, Types
<1>3. /\ Ascending(DOMAIN parts) \in Seq(Nat)
      /\ Range(Ascending(DOMAIN parts)) \subseteq DOMAIN parts
  BY <1>2, ListedExist
<1>4. /\ scan' \in [on : BOOLEAN, files : Seq(Nat), part : Nat, row : Nat]
      /\ scan'.files = Ascending(DOMAIN parts)
  BY <1>1, <1>2, <1>3
<1> QED
  BY <1>1, <1>2, <1>3, <1>4, FlowKeeps

\* The other steps of the flow; a row that is delivered is one of a part.
LEMMA ScanKeeps == ASSUME IInv, Scan \/ CrashScan PROVE IInv'
<1>1. /\ scan \in [on : BOOLEAN, files : Seq(Nat), part : Nat, row : Nat]
      /\ Range(scan.files) \subseteq DOMAIN parts
      /\ saved \in [part : Nat, row : Nat] /\ delivered \subseteq Row
      /\ crashes \in 0..MaxCrashes
      /\ \A n \in DOMAIN parts : parts[n] \in Seq(Row)
  BY DEF IInv, Types
<1>r. scan = [on |-> scan.on, files |-> scan.files, part |-> scan.part, row |-> scan.row]
  BY <1>1
<1>s. ASSUME scan' = [scan EXCEPT !.on = FALSE]
      PROVE  /\ scan' \in [on : BOOLEAN, files : Seq(Nat), part : Nat, row : Nat]
             /\ scan'.files = scan.files
  <2>2. scan' = [on |-> FALSE, files |-> scan.files, part |-> scan.part, row |-> scan.row]
    BY <1>r, <1>s
  <2> QED
    BY <1>1, <2>2
<1>2. CASE DeliverRow
  <2>1. /\ scan.part < Len(scan.files) /\ ~(scan.row >= Len(parts[File]))
        /\ delivered' = delivered \union {parts[File][scan.row + 1]}
        /\ scan' = [scan EXCEPT !.row = @ + 1]
        /\ UNCHANGED <<seederVars, saved, crashes>>
    BY <1>2 DEF DeliverRow, InFile, AtEndOfFile
  <2>2. scan.files \in Seq(Nat) /\ scan.part \in Nat /\ scan.row \in Nat
    BY <1>1
  <2>3. File \in DOMAIN parts
    <3>1. Len(scan.files) \in Nat /\ DOMAIN scan.files = 1..Len(scan.files)
      BY <2>2, LenProperties
    <3>2. scan.part + 1 \in DOMAIN scan.files
      BY <2>1, <2>2, <3>1
    <3> QED
      BY <1>1, <3>2 DEF File, Range
  <2>4. parts[File][scan.row + 1] \in Row
    <3>1. parts[File] \in Seq(Row) /\ Len(parts[File]) \in Nat
      BY <1>1, <2>3, LenProperties
    <3>2. scan.row + 1 \in 1..Len(parts[File])
      BY <2>1, <2>2, <3>1
    <3> QED
      BY <3>1, <3>2, ElementOfSeq
  <2>5. /\ scan' \in [on : BOOLEAN, files : Seq(Nat), part : Nat, row : Nat]
        /\ scan'.files = scan.files
    <3>1. scan' = [on |-> scan.on, files |-> scan.files, part |-> scan.part,
                   row |-> scan.row + 1]
      BY <1>r, <2>1
    <3> QED
      BY <1>1, <2>2, <3>1
  <2> QED
    BY <1>1, <2>1, <2>4, <2>5, FlowKeeps
<1>3. CASE NextFile
  <2>1. /\ scan' = [scan EXCEPT !.part = @ + 1, !.row = 0]
        /\ UNCHANGED <<seederVars, saved, delivered, crashes>>
    BY <1>3 DEF NextFile
  <2>2. /\ scan' \in [on : BOOLEAN, files : Seq(Nat), part : Nat, row : Nat]
        /\ scan'.files = scan.files
    <3>1. scan' = [on |-> scan.on, files |-> scan.files, part |-> scan.part + 1, row |-> 0]
      BY <1>r, <2>1
    <3> QED
      BY <1>1, <3>1
  <2> QED
    BY <1>1, <2>1, <2>2, FlowKeeps
<1>6. CASE EndScan
  <2>1. /\ scan' = [scan EXCEPT !.on = FALSE]
        /\ UNCHANGED <<seederVars, saved, delivered, crashes>>
    BY <1>6 DEF EndScan
  <2> QED
    BY <1>1, <1>s, <2>1, FlowKeeps
<1>4. CASE SaveProgress
  <2>1. /\ saved' = [part |-> scan.part, row |-> scan.row]
        /\ UNCHANGED <<seederVars, scan, delivered, crashes>>
    BY <1>4 DEF SaveProgress, Place
  <2>2. saved' \in [part : Nat, row : Nat]
    BY <1>1, <2>1
  <2> QED
    BY <1>1, <2>1, <2>2, FlowKeeps
<1>5. CASE CrashScan
  <2>1. /\ scan' = [scan EXCEPT !.on = FALSE] /\ crashes < MaxCrashes /\ crashes' = crashes + 1
        /\ UNCHANGED <<seederVars, saved, delivered>>
    BY <1>5 DEF CrashScan
  <2>3. crashes' \in 0..MaxCrashes
    BY <1>1, <2>1, LandingAssumption
  <2> QED
    BY <1>1, <1>s, <2>1, <2>3, FlowKeeps
<1> QED
  BY <1>2, <1>3, <1>4, <1>5, <1>6 DEF Scan

\* A run that begins finds the others stopped, or there is an overlap from now on.
LEMMA BeginKeeps ==
  ASSUME IInv, NEW r \in Run, NEW first,
         (kind = "movement" /\ first = Size) \/ (kind = "snapshot" /\ first = 0),
         Begin(r, first)
  PROVE  IInv'
<1>1. PICK total \in Totals :
        writer' = [writer EXCEPT ![r] =
          [at |-> "between", first |-> first, total |-> total, made |-> 0]]
  BY DEF Begin
<1>2. /\ writer[r].at = "new" /\ \A s \in Run : s < r => writer[s].at # "new"
      /\ overlap' = (overlap \/ \E s \in Run : Busy(s))
      /\ UNCHANGED <<kind, parts, kills, flowVars>>
  BY DEF Begin
<1>3. /\ writer \in [Run -> Writer] /\ total \in Nat /\ first \in Nat
      /\ Size \in Nat /\ DOMAIN parts = 0..Size - 1
  BY LandingAssumption DEF IInv, Types, Contiguous
<1>4. /\ writer'[r].at = "between" /\ writer'[r].first = first
      /\ writer'[r].total = total /\ writer'[r].made = 0
      /\ \A s \in Run : s # r => writer'[s] = writer[s]
  BY <1>1, <1>3
<1>5. UNCHANGED <<kind, parts, kills, scan, saved, delivered, crashes>> /\ Size' = Size
  BY <1>2 DEF flowVars, Size
<1>6. ~overlap' => ~overlap /\ \A s \in Run : ~Busy(s)
  BY <1>2
<1>7. overlap' \in BOOLEAN
  BY <1>2 DEF IInv, Types
<1>8. EndOf(r)' = first /\ Size >= first
  <2>1. 0 \div RowsPerPart = 0 /\ 0 % RowsPerPart = 0
    BY LandingAssumption, ZeroDivision
  <2> QED
    BY <1>3, <1>4, <2>1 DEF EndOf, PartOf
<1>9. \A s \in Run : s # r => EndOf(s)' = EndOf(s) /\ (Busy(s)' <=> Busy(s))
  BY <1>4, SameRun
<1>10. \A s \in Run : s \in Nat
  BY DEF Run
<1>11. Types'
  <2>1. [at |-> "between", first |-> first, total |-> total, made |-> 0] \in Writer
    BY <1>3 DEF Writer
  <2>2. writer' \in [Run -> Writer]
    BY <1>1, <1>3, <2>1
  <2> QED
    BY <1>5, <1>7, <2>2 DEF IInv, Types
<1>12. Contiguous'
  BY <1>5 DEF IInv, Contiguous
<1>13. Steady'
  <2>1. 0 % RowsPerPart = 0
    BY LandingAssumption, ZeroDivision
  <2> QED
    BY <1>3, <1>4, <2>1 DEF IInv, Steady
<1>14. InTurn'
  <2> SUFFICES ASSUME NEW p \in Run, NEW s \in Run, p < s, writer'[s].at # "new"
               PROVE  writer'[p].at # "new" /\ (~overlap' => ~Busy(p)')
    BY DEF InTurn
  <2>1. CASE s = r
    <3>1. p # r
      BY <1>10, <2>1
    <3> QED
      BY <1>2, <1>4, <1>6, <1>9, <2>1, <3>1
  <2>2. CASE s # r /\ p = r
    BY <1>2, <1>4, <2>2 DEF IInv, InTurn
  <2>3. CASE s # r /\ p # r
    BY <1>4, <1>6, <1>9, <2>3 DEF IInv, InTurn
  <2> QED
    BY <2>1, <2>2, <2>3
<1>15. AtTheEnd'
  <2> SUFFICES ASSUME NEW p \in Run
               PROVE  /\ EndOf(p)' <= Size
                      /\ kind = "movement" /\ ~overlap' =>
                           /\ Busy(p)' => EndOf(p)' = Size
                           /\ \A s \in Run : p < s /\ writer'[s].at # "new" =>
                                EndOf(p)' <= writer'[s].first
    BY <1>5 DEF AtTheEnd
  <2>1. \A s \in Run : r < s => writer[s].at = "new"
    BY <1>2 DEF IInv, InTurn
  <2>2. CASE p = r
    <3>1. \A s \in Run : r < s => writer'[s].at = "new"
      BY <1>4, <1>10, <2>1
    <3> QED
      BY <1>3, <1>8, <2>2, <3>1
  <2>3. CASE p # r
    <3>1. EndOf(p) <= Size
      BY DEF IInv, AtTheEnd
    <3>2. ASSUME NEW s \in Run, p < s, writer'[s].at # "new", kind = "movement", ~overlap'
          PROVE  EndOf(p) <= writer'[s].first
      <4>1. CASE s = r
        BY <1>4, <3>1, <3>2, <4>1
      <4>2. CASE s # r
        BY <1>4, <1>6, <3>2, <4>2 DEF IInv, AtTheEnd
      <4> QED
        BY <4>1, <4>2
    <3> QED
      BY <1>6, <1>9, <2>3, <3>1, <3>2
  <2> QED
    BY <2>2, <2>3
<1>16. Laid'
  <2> SUFFICES ASSUME NEW p \in Run, Owns(p)',
                      NEW n \in writer'[p].first..EndOf(p)' - 1
               PROVE  parts[n] = Block(p, n - writer'[p].first,
                                       Share(n - writer'[p].first, writer'[p].made))
    BY <1>5 DEF Laid
  <2>1. CASE p = r
    BY <1>3, <1>4, <1>8, <2>1
  <2>2. CASE p # r
    <3>1. writer[p].at # "new" /\ ~overlap
      BY <1>4, <1>6, <2>2 DEF Owns
    <3>2. p < r
      BY <1>2, <1>10, <2>2, <3>1 DEF IInv, InTurn
    <3>3. kind # "snapshot"
      BY <1>4, <1>5, <3>2, <1>10 DEF Owns
    <3>4. Owns(p)
      BY <3>1, <3>3 DEF Owns
    <3> QED
      BY <1>4, <1>9, <2>2, <3>4 DEF IInv, Laid
  <2> QED
    BY <2>1, <2>2
<1>17. Fits'
  BY <1>5, <1>6 DEF IInv, Fits
<1> QED
  BY <1>11, <1>12, <1>13, <1>14, <1>15, <1>16, <1>17 DEF IInv

\* A run that stops, whether it has ended or was killed.
LEMMA StopKeeps ==
  ASSUME IInv, NEW r \in Run, EndRun(r) \/ Kill(r)
  PROVE  IInv'
<1>1. /\ Busy(r)
      /\ writer' = [writer EXCEPT ![r].at = IF EndRun(r) THEN "done" ELSE "killed"]
      /\ UNCHANGED <<kind, parts, overlap, flowVars>> /\ kills' \in 0..MaxKills
      /\ EndRun(r) => writer[r].at = "between" /\ writer[r].made = writer[r].total
  <2>1. kills \in 0..MaxKills
    BY DEF IInv, Types
  <2>2. CASE EndRun(r)
    BY <2>1, <2>2 DEF EndRun, Busy
  <2>3. CASE Kill(r) /\ ~EndRun(r)
    BY <2>1, <2>3, LandingAssumption DEF Kill, Busy
  <2> QED
    BY <2>2, <2>3
<1>2. writer \in [Run -> Writer] /\ writer[r] \in Writer
  BY DEF IInv, Types
<1>3. /\ writer'[r].at \in {"done", "killed"}
      /\ writer'[r].at = "done" => writer[r].made = writer[r].total
      /\ writer'[r].first = writer[r].first /\ writer'[r].total = writer[r].total
      /\ writer'[r].made = writer[r].made
      /\ \A s \in Run : s # r => writer'[s] = writer[s]
  BY <1>1, <1>2 DEF Writer
<1>4. UNCHANGED <<kind, parts, overlap, scan, saved, delivered, crashes>> /\ Size' = Size
  BY <1>1 DEF flowVars, Size
<1>5. /\ PartOf(r) \in Nat /\ EndOf(r) \in Nat /\ writer[r].first \in Nat
      /\ EndOf(r) \in {PartOf(r), PartOf(r) + 1}
  BY RunNumbers
<1>6. EndOf(r)' <= EndOf(r) /\ EndOf(r)' \in Nat /\ ~Busy(r)'
  <2>1. PartOf(r)' = PartOf(r)
    BY <1>3 DEF PartOf
  <2> QED
    BY <1>3, <1>5, <2>1 DEF EndOf, Busy
<1>7. \A s \in Run : s # r => EndOf(s)' = EndOf(s) /\ (Busy(s)' <=> Busy(s))
  BY <1>3, SameRun
<1>8. writer[r].at # "new" /\ \A s \in Run : writer'[s].at = "new" <=> writer[s].at = "new"
  BY <1>1, <1>3 DEF Busy
<1>9. Types'
  <2>1. writer' \in [Run -> Writer]
    <3>1. [writer[r] EXCEPT !.at = IF EndRun(r) THEN "done" ELSE "killed"] \in Writer
      BY <1>2 DEF Writer
    <3> QED
      BY <1>1, <1>2, <3>1
  <2> QED
    BY <1>1, <1>4, <2>1 DEF IInv, Types
<1>10. Contiguous'
  BY <1>4 DEF IInv, Contiguous
<1>11. Steady'
  BY <1>3 DEF IInv, Steady
<1>12. InTurn'
  BY <1>4, <1>6, <1>7, <1>8 DEF IInv, InTurn
<1>13. AtTheEnd'
  <2> SUFFICES ASSUME NEW p \in Run
               PROVE  /\ EndOf(p)' <= Size
                      /\ kind = "movement" /\ ~overlap =>
                           /\ Busy(p)' => EndOf(p)' = Size
                           /\ \A s \in Run : p < s /\ writer'[s].at # "new" =>
                                EndOf(p)' <= writer'[s].first
    BY <1>4 DEF AtTheEnd
  <2>1. EndOf(p)' <= EndOf(p) /\ EndOf(p) \in Nat /\ EndOf(p)' \in Nat
    BY <1>6, <1>7, RunNumbers
  <2>2. \A s \in Run : writer'[s].first = writer[s].first /\ writer[s].first \in Nat
    BY <1>3, RunNumbers
  <2>3. EndOf(p) <= Size /\ Size \in Nat
    BY DEF IInv, AtTheEnd, Contiguous
  <2>4. EndOf(p)' <= Size
    BY <2>1, <2>3
  <2>5. kind = "movement" /\ ~overlap /\ Busy(p)' => EndOf(p)' = Size
    BY <1>6, <1>7 DEF IInv, AtTheEnd
  <2>6. ASSUME kind = "movement", ~overlap, NEW s \in Run, p < s, writer'[s].at # "new"
        PROVE  EndOf(p)' <= writer'[s].first
    <3>1. EndOf(p) <= writer[s].first
      BY <1>8, <2>6 DEF IInv, AtTheEnd
    <3> QED
      BY <2>1, <2>2, <3>1
  <2> QED
    BY <2>4, <2>5, <2>6
<1>14. Laid'
  <2> SUFFICES ASSUME NEW p \in Run, Owns(p)',
                      NEW n \in writer'[p].first..EndOf(p)' - 1
               PROVE  parts[n] = Block(p, n - writer'[p].first,
                                       Share(n - writer'[p].first, writer'[p].made))
    BY <1>4 DEF Laid
  <2>1. Owns(p)
    BY <1>4, <1>8 DEF Owns
  <2>2. /\ writer'[p].first = writer[p].first /\ writer'[p].made = writer[p].made
        /\ EndOf(p)' <= EndOf(p) /\ EndOf(p) \in Nat /\ EndOf(p)' \in Nat
        /\ writer[p].first \in Nat
    BY <1>3, <1>6, <1>7, RunNumbers
  <2>3. n \in writer[p].first..EndOf(p) - 1
    BY <2>2
  <2> QED
    BY <2>1, <2>2, <2>3 DEF IInv, Laid
<1>15. Fits'
  BY <1>4 DEF IInv, Fits
<1> QED
  BY <1>9, <1>10, <1>11, <1>12, <1>13, <1>14, <1>15 DEF IInv

\* Parts that nobody has written over lie before those of the run at work.
LEMMA Others ==
  ASSUME IInv, NEW r \in Run, Busy(r), NEW s \in Run, s # r, Owns(s)
  PROVE  EndOf(s) <= writer[r].first
<1>1. writer[r].at # "new" /\ ~overlap /\ writer[s].at # "new"
  BY DEF Busy, Owns
<1>2. ~(r < s)
  BY <1>1 DEF IInv, InTurn
<1>3. s < r
  BY <1>2 DEF Run
<1>4. kind = "movement"
  BY <1>1, <1>3 DEF IInv, Types, Owns
<1>5. EndOf(s) <= writer[r].first
  BY <1>1, <1>3, <1>4 DEF IInv, AtTheEnd
<1> QED
  BY <1>5

\* A busy run that is not overlapped owns its parts.
LEMMA BusyOwns ==
  ASSUME IInv, NEW r \in Run, Busy(r), ~overlap
  PROVE  Owns(r)
<1>1. ASSUME NEW s \in Run, s > r
      PROVE  writer[s].at = "new"
  <2>1. r < s
    BY <1>1 DEF Run
  <2> QED
    BY <2>1 DEF IInv, InTurn
<1> QED
  BY <1>1 DEF Owns, Busy

LEMMA OpenPartKeeps ==
  ASSUME IInv, NEW r \in Run, OpenPart(r)
  PROVE  IInv'
<1> DEFINE p == PartOf(r)
<1>1. /\ writer[r].at = "between" /\ writer[r].made < writer[r].total
      /\ parts' = [n \in DOMAIN parts \union {p} |-> IF n = p THEN <<>> ELSE parts[n]]
      /\ writer' = [writer EXCEPT ![r].at = "open"]
      /\ UNCHANGED <<kind, kills, overlap, flowVars>>
  BY DEF OpenPart
<1>2. /\ writer \in [Run -> Writer] /\ writer[r] \in Writer
      /\ Size \in Nat /\ DOMAIN parts = 0..Size - 1
      /\ \A n \in DOMAIN parts : parts[n] \in Seq(Row)
  BY DEF IInv, Types, Contiguous
<1>3. /\ writer'[r].at = "open" /\ writer'[r].first = writer[r].first
      /\ writer'[r].total = writer[r].total /\ writer'[r].made = writer[r].made
      /\ \A s \in Run : s # r => writer'[s] = writer[s]
  BY <1>1, <1>2 DEF Writer
<1>4. UNCHANGED <<kind, kills, overlap, scan, saved, delivered, crashes>>
  BY <1>1 DEF flowVars
<1>5. writer[r].made % RowsPerPart = 0
  BY <1>1 DEF IInv, Steady
<1>6. p \in Nat /\ EndOf(r) = p /\ p <= Size /\ writer[r].first \in Nat /\ writer[r].made \in Nat
  <2>1. EndOf(r) = p
    BY <1>1, <1>5 DEF EndOf
  <2> QED
    BY <2>1, RunNumbers DEF IInv, AtTheEnd
<1>7. PartOf(r)' = p /\ EndOf(r)' = p + 1 /\ Busy(r) /\ Busy(r)'
  BY <1>1, <1>3 DEF PartOf, EndOf, Busy
<1>8. \A s \in Run : s # r => EndOf(s)' = EndOf(s) /\ (Busy(s)' <=> Busy(s))
  BY <1>3, SameRun
<1>9. \A s \in Run : /\ writer'[s].at = "new" <=> writer[s].at = "new"
                     /\ writer'[s].first = writer[s].first /\ writer'[s].made = writer[s].made
                     /\ (Busy(s)' <=> Busy(s))
  BY <1>1, <1>3, <1>7, <1>8
<1> HIDE DEF p
<1>10. /\ DOMAIN parts' = DOMAIN parts \union {p} /\ parts'[p] = <<>>
       /\ \A n \in DOMAIN parts : n # p => parts'[n] = parts[n]
       /\ parts' = [n \in DOMAIN parts' |-> parts'[n]]
  BY <1>1
<1>11. /\ Size' \in Nat /\ DOMAIN parts' = 0..Size' - 1
       /\ Size' = IF p = Size THEN Size + 1 ELSE Size
  <2>1. CASE p = Size
    <3>1. DOMAIN parts' = 0..(Size + 1) - 1 /\ Size + 1 \in Nat
      BY <1>2, <1>10, <2>1
    <3>2. Cardinality(DOMAIN parts') = Size + 1
      BY <3>1, Interval
    <3> QED
      BY <2>1, <3>1, <3>2 DEF Size
  <2>2. CASE p # Size
    <3>1. DOMAIN parts' = DOMAIN parts
      BY <1>2, <1>6, <1>10, <2>2
    <3>2. Size' = Size
      BY <3>1 DEF Size
    <3> QED
      BY <1>2, <2>2, <3>1, <3>2
  <2> QED
    BY <2>1, <2>2
<1>12. Types'
  <2>1. writer' \in [Run -> Writer]
    <3>1. [writer[r] EXCEPT !.at = "open"] \in Writer
      BY <1>2 DEF Writer
    <3> QED
      BY <1>1, <1>2, <3>1
  <2>2. \A n \in DOMAIN parts' : parts'[n] \in Seq(Row)
    <3>1. <<>> \in Seq(Row)
      OBVIOUS
    <3> QED
      BY <1>2, <1>10, <3>1
  <2> QED
    BY <1>4, <1>10, <2>1, <2>2 DEF IInv, Types
<1>13. Contiguous'
  BY <1>11 DEF Contiguous
<1>14. Steady'
  BY <1>1, <1>3 DEF IInv, Steady
<1>15. InTurn'
  BY <1>4, <1>9 DEF IInv, InTurn
<1>16. AtTheEnd'
  <2>1. \A s \in Run : EndOf(s) \in Nat /\ EndOf(s) <= Size
    BY RunNumbers DEF IInv, AtTheEnd
  <2> SUFFICES ASSUME NEW q \in Run
               PROVE  /\ EndOf(q)' <= Size'
                      /\ kind = "movement" /\ ~overlap =>
                           /\ Busy(q) => EndOf(q)' = Size'
                           /\ \A s \in Run : q < s /\ writer[s].at # "new" =>
                                EndOf(q)' <= writer[s].first
    BY <1>4, <1>9 DEF AtTheEnd
  <2>2. CASE q = r
    <3>1. p + 1 <= Size'
      BY <1>2, <1>6, <1>11
    <3>2. kind = "movement" /\ ~overlap => p = Size
      BY <1>6, <1>7 DEF IInv, AtTheEnd
    <3>3. \A s \in Run : r < s /\ writer[s].at # "new" => overlap
      BY <1>7 DEF IInv, InTurn
    <3> QED
      BY <1>7, <1>11, <2>2, <3>1, <3>2, <3>3
  <2>3. CASE q # r
    <3>1. EndOf(q) <= Size'
      BY <1>2, <1>11, <2>1
    <3>2. ~overlap => ~Busy(q)
      <4>1. q < r \/ r < q
        BY <2>3 DEF Run
      <4>2. Busy(q) => writer[q].at # "new"
        BY DEF Busy
      <4>3. writer[r].at # "new"
        BY <1>1
      <4> QED
        BY <1>7, <4>1, <4>2, <4>3 DEF IInv, InTurn
    <3>3. \A s \in Run : kind = "movement" /\ ~overlap /\ q < s /\ writer[s].at # "new" =>
            EndOf(q) <= writer[s].first
      BY DEF IInv, AtTheEnd
    <3> QED
      BY <1>8, <2>3, <3>1, <3>2, <3>3
  <2> QED
    BY <2>2, <2>3
<1>17. \A s \in Run : Owns(s)' => Owns(s)
  BY <1>4, <1>9 DEF Owns
<1>18. Laid'
  <2> SUFFICES ASSUME NEW q \in Run, Owns(q), NEW n \in writer[q].first..EndOf(q)' - 1
               PROVE  parts'[n] = Block(q, n - writer[q].first,
                                        Share(n - writer[q].first, writer[q].made))
    BY <1>9, <1>17 DEF Laid
  <2>0. /\ writer[q].first \in Nat /\ EndOf(q) \in Nat /\ EndOf(q) <= Size
        /\ writer[r].first <= EndOf(r)
    BY RunNumbers DEF IInv, AtTheEnd
  <2>1. CASE q = r /\ n = p
    <3> DEFINE d == writer[r].made \div RowsPerPart
    <3>1. d \in Nat /\ Share(d, writer[r].made) = writer[r].made % RowsPerPart
      BY <1>6, Shares
    <3>2. p = writer[r].first + d
      BY DEF p, PartOf
    <3> HIDE DEF d
    <3>3. p - writer[r].first = d
      BY <1>6, <3>1, <3>2
    <3>4. Block(r, d, 0) = <<>>
      BY <3>1, Blocks
    <3> QED
      BY <1>5, <1>10, <2>1, <3>1, <3>3, <3>4
  <2>2. CASE n # p /\ n \in writer[q].first..EndOf(q) - 1
    <3>1. n \in DOMAIN parts
      BY <1>2, <2>0, <2>2
    <3> QED
      BY <1>10, <2>2, <3>1 DEF IInv, Laid
  <2>3. CASE q = r /\ n # p
    <3>1. n \in writer[q].first..EndOf(q) - 1
      BY <1>6, <1>7, <2>0, <2>3
    <3> QED
      BY <2>2, <2>3, <3>1
  <2>4. CASE q # r
    <3>1. n \in writer[q].first..EndOf(q) - 1
      BY <1>8, <2>4
    <3>2. EndOf(q) <= writer[r].first
      BY <1>7, <2>4, Others
    <3>3. n # p
      BY <1>6, <2>0, <3>1, <3>2
    <3> QED
      BY <2>2, <3>1, <3>3
  <2> QED
    BY <2>1, <2>3, <2>4
<1>19. Fits'
  <2>1. Len(<<>>) <= RowsPerPart
    BY LandingAssumption
  <2> QED
    BY <1>4, <1>10, <2>1 DEF IInv, Fits
<1> QED
  BY <1>12, <1>13, <1>14, <1>15, <1>16, <1>18, <1>19 DEF IInv

\* A row goes to the end of the part its run has open, as the next of its rows.
LEMMA WriteRowKeeps ==
  ASSUME IInv, NEW r \in Run, WriteRow(r)
  PROVE  IInv'
<1> DEFINE p   == PartOf(r)
           m   == writer[r].made
           d   == m \div RowsPerPart
           row == [run |-> r, id |-> m + 1]
           w   == [writer[r] EXCEPT !.made = @ + 1]
           next == IF IsFull(w) THEN [w EXCEPT !.at = "between"] ELSE w
<1>1. /\ writer[r].at = "open"
      /\ parts' = [parts EXCEPT ![p] = Append(@, [run |-> r, id |-> w.made])]
      /\ writer' = [writer EXCEPT ![r] = next]
      /\ UNCHANGED <<kind, kills, overlap, flowVars>>
  BY DEF WriteRow
<1>2. /\ writer \in [Run -> Writer] /\ writer[r] \in Writer
      /\ Size \in Nat /\ DOMAIN parts = 0..Size - 1
      /\ \A n \in DOMAIN parts : parts[n] \in Seq(Row)
      /\ parts = [n \in DOMAIN parts |-> parts[n]]
  BY DEF IInv, Types, Contiguous
<1>3. /\ m \in Nat /\ m < writer[r].total /\ writer[r].total \in Nat
      /\ writer[r].first \in Nat /\ p \in Nat /\ d \in Nat
      /\ p = writer[r].first + d /\ EndOf(r) = p + 1 /\ EndOf(r) <= Size
  <2>1. EndOf(r) = p + 1
    BY <1>1 DEF EndOf
  <2> QED
    BY <1>1, <2>1, RunNumbers DEF IInv, Steady, AtTheEnd
<1>4. /\ w \in Writer /\ w.made = m + 1 /\ w.at = "open"
      /\ w.first = writer[r].first /\ w.total = writer[r].total
  <2>1. writer[r] = [at |-> "open", first |-> writer[r].first,
                     total |-> writer[r].total, made |-> m]
    BY <1>1, <1>2 DEF Writer
  <2>2. w = [at |-> "open", first |-> writer[r].first,
             total |-> writer[r].total, made |-> m + 1]
    BY <2>1
  <2> HIDE DEF w
  <2> QED
    BY <1>3, <2>2 DEF Writer
<1>5. IsFull(w) <=> m + 1 = writer[r].total \/ (m + 1) % RowsPerPart = 0
  BY <1>4 DEF IsFull
<1> HIDE DEF w
<1>6. /\ next \in Writer /\ next.made = m + 1
      /\ next.first = writer[r].first /\ next.total = writer[r].total
      /\ next.at = IF IsFull(w) THEN "between" ELSE "open"
  <2>1. w = [at |-> w.at, first |-> w.first, total |-> w.total, made |-> w.made]
    BY <1>4 DEF Writer
  <2>2. [w EXCEPT !.at = "between"] =
          [at |-> "between", first |-> w.first, total |-> w.total, made |-> w.made]
    BY <2>1
  <2>3. [at |-> "between", first |-> w.first, total |-> w.total, made |-> w.made] \in Writer
    BY <1>4 DEF Writer
  <2>4. CASE IsFull(w)
    BY <1>4, <2>2, <2>3, <2>4
  <2>5. CASE ~IsFull(w)
    BY <1>4, <2>5
  <2> QED
    BY <2>4, <2>5
<1> HIDE DEF next
<1>7. /\ writer'[r] = next /\ writer' \in [Run -> Writer]
      /\ \A s \in Run : s # r => writer'[s] = writer[s]
  BY <1>1, <1>2, <1>6
<1>8. /\ writer'[r].made = m + 1 /\ writer'[r].first = writer[r].first
      /\ writer'[r].total = writer[r].total
      /\ writer'[r].at = "between" \/ writer'[r].at = "open"
      /\ writer'[r].at = "between" <=>
           m + 1 = writer[r].total \/ (m + 1) % RowsPerPart = 0
  BY <1>5, <1>6, <1>7
<1>9. UNCHANGED <<kind, kills, overlap, scan, saved, delivered, crashes>>
  BY <1>1 DEF flowVars
<1> HIDE DEF p, d, m
<1>10. EndOf(r)' = p + 1
  <2>1. RowsPerPart \in Nat \ {0}
    BY LandingAssumption
  <2>2. /\ (m + 1) % RowsPerPart = 0 => (m + 1) \div RowsPerPart = d + 1
        /\ (m + 1) % RowsPerPart # 0 => (m + 1) \div RowsPerPart = d
    BY <1>3, <2>1, NextDivision DEF d
  <2>3. PartOf(r)' = writer[r].first + ((m + 1) \div RowsPerPart)
    BY <1>8 DEF PartOf
  <2>4. CASE (m + 1) % RowsPerPart = 0
    <3>1. PartOf(r)' = p + 1
      BY <1>3, <2>2, <2>3, <2>4
    <3>2. writer'[r].at # "open" /\ writer'[r].made % RowsPerPart = 0
      BY <1>8, <2>4
    <3> QED
      BY <3>1, <3>2 DEF EndOf
  <2>5. CASE (m + 1) % RowsPerPart # 0
    <3>1. PartOf(r)' = p
      BY <1>3, <2>2, <2>3, <2>5
    <3>2. writer'[r].made % RowsPerPart # 0
      BY <1>8, <2>5
    <3> QED
      BY <3>1, <3>2 DEF EndOf
  <2> QED
    BY <2>4, <2>5
<1>11. Busy(r) /\ Busy(r)'
  BY <1>1, <1>8 DEF Busy
<1>12. \A s \in Run : /\ writer'[s].at = "new" <=> writer[s].at = "new"
                      /\ writer'[s].first = writer[s].first
                      /\ EndOf(s)' = EndOf(s) /\ (Busy(s)' <=> Busy(s))
  <2> TAKE s \in Run
  <2>1. CASE s = r
    BY <1>1, <1>3, <1>8, <1>10, <1>11, <2>1
  <2>2. CASE s # r
    BY <1>7, <2>2, SameRun
  <2> QED
    BY <2>1, <2>2
<1>13. p \in DOMAIN parts
  BY <1>2, <1>3
<1>14. /\ DOMAIN parts' = DOMAIN parts /\ parts'[p] = Append(parts[p], row)
       /\ \A n \in DOMAIN parts : n # p => parts'[n] = parts[n]
       /\ parts' = [n \in DOMAIN parts' |-> parts'[n]]
  BY <1>1, <1>2, <1>4, <1>13
<1>15. row \in Row
  BY <1>3 DEF Row
<1> HIDE DEF row
<1>16. Size' = Size
  BY <1>14 DEF Size
<1>17. Types'
  <2>1. \A n \in DOMAIN parts' : parts'[n] \in Seq(Row)
    <3>1. parts[p] \in Seq(Row)
      BY <1>2, <1>13
    <3>2. Append(parts[p], row) \in Seq(Row)
      BY <1>15, <3>1, AppendProperties
    <3> QED
      BY <1>2, <1>14, <3>2
  <2> QED
    BY <1>7, <1>9, <1>14, <2>1 DEF IInv, Types
<1>18. Contiguous'
  BY <1>14, <1>16 DEF IInv, Contiguous
<1>19. Steady'
  <2> SUFFICES ASSUME NEW s \in Run
               PROVE  /\ writer'[s].made <= writer'[s].total
                      /\ writer'[s].at = "open" => writer'[s].made < writer'[s].total
                      /\ writer'[s].at = "between" /\ writer'[s].made < writer'[s].total =>
                           writer'[s].made % RowsPerPart = 0
                      /\ writer'[s].at = "done" => writer'[s].made = writer'[s].total
    BY DEF Steady
  <2>1. CASE s = r
    <3>1. m + 1 <= writer[r].total
      BY <1>3
    <3>2. writer'[r].at = "open" => m + 1 # writer[r].total
      BY <1>8
    <3>3. writer'[r].at = "open" => m + 1 < writer[r].total
      BY <1>3, <3>1, <3>2
    <3>4. writer'[r].at = "between" /\ m + 1 < writer[r].total => (m + 1) % RowsPerPart = 0
      BY <1>3, <1>8
    <3> QED
      BY <1>8, <2>1, <3>1, <3>3, <3>4
  <2>2. CASE s # r
    BY <1>7, <2>2 DEF IInv, Steady
  <2> QED
    BY <2>1, <2>2
<1>20. InTurn'
  BY <1>9, <1>12 DEF IInv, InTurn
<1>21. AtTheEnd'
  BY <1>9, <1>12, <1>16 DEF IInv, AtTheEnd
<1>22. \A s \in Run : Owns(s)' <=> Owns(s)
  BY <1>9, <1>12 DEF Owns
<1>23. Owns(r) => parts[p] = Block(r, d, m % RowsPerPart)
  <2> SUFFICES ASSUME Owns(r)
               PROVE  parts[p] = Block(r, d, m % RowsPerPart)
    OBVIOUS
  <2>1. p \in writer[r].first..EndOf(r) - 1 /\ p - writer[r].first = d
    BY <1>3
  <2>2. parts[p] = Block(r, d, Share(d, m))
    BY <2>1 DEF IInv, Laid, m
  <2> QED
    BY <1>3, <2>2, Shares DEF d
<1>24. Laid'
  <2> SUFFICES ASSUME NEW s \in Run, Owns(s), NEW n \in writer[s].first..EndOf(s) - 1
               PROVE  parts'[n] = Block(s, n - writer[s].first,
                                        Share(n - writer[s].first, writer'[s].made))
    BY <1>12, <1>22 DEF Laid
  <2>0. /\ writer[s].first \in Nat /\ EndOf(s) \in Nat /\ EndOf(s) <= Size
        /\ n \in DOMAIN parts
    BY <1>2, RunNumbers, SMTT(30) DEF IInv, AtTheEnd
  <2>1. CASE s = r /\ n = p
    <3>1. m % RowsPerPart \in Nat
      BY <1>3, RunNumbers DEF m
    <3>2. d * RowsPerPart + (m % RowsPerPart) = m /\ Share(d, m + 1) = (m % RowsPerPart) + 1
      BY <1>3, Shares DEF d
    <3> DEFINE c == m % RowsPerPart
               k == d * RowsPerPart
    <3>3. k \in Nat
      BY <1>3, LandingAssumption, ProductGrows
    <3>4. k + (c + 1) = m + 1
      <4>1. c \in Nat /\ k + c = m
        BY <3>1, <3>2
      <4> HIDE DEF c, k
      <4> QED
        BY <1>3, <3>3, <4>1
    <3>5. row = [run |-> r, id |-> k + (c + 1)]
      BY <3>4 DEF row
    <3>6. Append(Block(r, d, c), row) = Block(r, d, c + 1)
      BY <1>3, <3>1, <3>5, Blocks
    <3>7. n - writer[s].first = d /\ writer'[s].made = m + 1
      BY <1>3, <1>8, <2>1
    <3> QED
      BY <1>14, <1>23, <2>1, <3>2, <3>6, <3>7
  <2>2. CASE s = r /\ n # p
    <3> DEFINE q == n - writer[r].first
    <3>1. q \in 0..d - 1
      <4>1. n \in writer[r].first..EndOf(r) - 1 /\ n # p
        BY <2>2
      <4> QED
        BY <1>3, <4>1
    <3>2. Share(q, m) = RowsPerPart /\ Share(q, m + 1) = RowsPerPart
      BY <1>3, <3>1, Shares DEF d
    <3>3. parts[n] = Block(r, q, Share(q, m))
      BY <2>2 DEF IInv, Laid, m
    <3> QED
      BY <1>8, <1>14, <2>0, <2>2, <3>2, <3>3
  <2>3. CASE s # r
    <3>1. EndOf(s) <= writer[r].first
      BY <1>11, <2>3, Others
    <3>2. n # p
      BY <1>3, <2>0, <3>1
    <3> QED
      BY <1>7, <1>14, <2>0, <2>3, <3>2 DEF IInv, Laid
  <2> QED
    BY <2>1, <2>2, <2>3
<1>25. Fits'
  <2> SUFFICES ASSUME ~overlap, NEW n \in DOMAIN parts
               PROVE  Len(parts'[n]) <= RowsPerPart
    BY <1>9, <1>14 DEF Fits
  <2>1. CASE n = p
    <3>1. Owns(r)
      BY <1>11, BusyOwns
    <3>2. m % RowsPerPart \in 0..RowsPerPart - 1 /\ RowsPerPart \in Nat
      BY <1>3, LandingAssumption, NextDivision
    <3>3. parts[p] = Block(r, d, m % RowsPerPart)
      BY <1>23, <3>1
    <3>4. Len(parts[p]) = m % RowsPerPart
      <4> DEFINE c == m % RowsPerPart
      <4>1. c \in Nat
        BY <3>2
      <4>2. parts[p] = Block(r, d, c)
        BY <3>3
      <4> HIDE DEF c
      <4>3. Len(Block(r, d, c)) = c
        BY <1>3, <4>1, Blocks
      <4>4. Len(parts[p]) = c
        BY <4>2, <4>3
      <4> QED
        BY <4>4 DEF c
    <3>5. Len(parts'[p]) = (m % RowsPerPart) + 1
      BY <1>2, <1>13, <1>14, <1>15, <3>4, AppendProperties
    <3> QED
      BY <2>1, <3>2, <3>5
  <2>2. CASE n # p
    BY <1>14, <2>2 DEF IInv, Fits
  <2> QED
    BY <2>1, <2>2
<1> QED
  BY <1>17, <1>18, <1>19, <1>20, <1>21, <1>24, <1>25 DEF IInv

LEMMA NextIInv == IInv /\ [Next]_vars => IInv'
<1> SUFFICES ASSUME IInv, [Next]_vars
             PROVE  IInv'
  OBVIOUS
<1>0. NextPartSeq = Size
  BY NextIsSize DEF IInv
<1>1. ASSUME NEW r \in Run, StartMovement(r)
      PROVE  IInv'
  BY <1>0, <1>1, BeginKeeps DEF StartMovement
<1>2. ASSUME NEW r \in Run, StartSnapshot(r)
      PROVE  IInv'
  BY <1>2, BeginKeeps DEF StartSnapshot
<1>3. ASSUME NEW r \in Run, Write(r)
      PROVE  IInv'
  BY <1>3, OpenPartKeeps, WriteRowKeeps, StopKeeps DEF Write
<1>4. ASSUME NEW r \in Run, Kill(r)
      PROVE  IInv'
  BY <1>4, StopKeeps
<1>5. CASE StartScan
  BY <1>5, StartScanKeeps
<1>6. CASE Scan \/ CrashScan
  BY <1>6, ScanKeeps
<1>7. CASE UNCHANGED vars
  <2>1. UNCHANGED <<seederVars, scan, saved, delivered, crashes>>
    BY <1>7 DEF vars, flowVars
  <2>2. /\ scan \in [on : BOOLEAN, files : Seq(Nat), part : Nat, row : Nat]
        /\ Range(scan.files) \subseteq DOMAIN parts
        /\ saved \in [part : Nat, row : Nat]
        /\ delivered \subseteq Row /\ crashes \in 0..MaxCrashes
    BY DEF IInv, Types
  <2> QED
    BY <2>1, <2>2, FlowKeeps
<1> QED
  BY <1>1, <1>2, <1>3, <1>4, <1>5, <1>6, <1>7 DEF Next

LEMMA Invariance == Spec => []IInv
  BY InitIInv, NextIInv, PTL DEF Spec

-----------------------------------------------------------------------------
(* Theorems *)

\* Whichever runs are killed, fail or overlap, the numbers of the parts are
\* 0, 1, 2, ... without a gap: NextPartSeq finds the end of the directory, and
\* an index into the sorted list of the parts stays the number of a part.
THEOREM NumbersHaveNoGap == Spec => []PartsAreContiguous
<1>1. ASSUME IInv
      PROVE  PartsAreContiguous
  <2>1. \A n \in DOMAIN parts : Range(parts[n]) \subseteq [run : Run, id : Nat \ {0}]
    <3> TAKE n \in DOMAIN parts
    <3>1. parts[n] \in Seq(Row)
      BY <1>1 DEF IInv, Types
    <3>2. DOMAIN parts[n] = 1..Len(parts[n]) /\ \A i \in 1..Len(parts[n]) : parts[n][i] \in Row
      BY <3>1, LenProperties, ElementOfSeq
    <3> QED
      BY <3>2 DEF Range, Row
  <2>2. ASSUME NEW r \in Run
        PROVE  /\ writer[r].at \in {"new", "between", "open", "done", "killed"}
               /\ writer[r].made <= writer[r].total
               /\ writer[r].at = "open" => PartOf(r) \in DOMAIN parts
    <3>1. writer[r] \in Writer
      BY <1>1 DEF IInv, Types
    <3>2. writer[r].at \in {"new", "between", "open", "done", "killed"}
      BY <3>1 DEF Writer
    <3>3. writer[r].made <= writer[r].total
      BY <1>1 DEF IInv, Steady
    <3>4. ASSUME writer[r].at = "open"
          PROVE  PartOf(r) \in DOMAIN parts
      <4>1. EndOf(r) = PartOf(r) + 1 /\ EndOf(r) <= Size /\ PartOf(r) \in Nat
        BY <1>1, <3>4, RunNumbers DEF EndOf, IInv, AtTheEnd
      <4>2. Size \in Nat /\ DOMAIN parts = 0..Size - 1
        BY <1>1 DEF IInv, Contiguous
      <4> QED
        BY <4>1, <4>2
    <3> QED
      BY <3>2, <3>3, <3>4
  <2>3. \A n \in DOMAIN parts : Len(parts[n]) <= RowsPerPart \/ overlap
    BY <1>1 DEF IInv, Fits
  <2>4. TypeOK
    BY <1>1, <2>1, <2>2, <2>3 DEF IInv, Types, TypeOK, Row
  <2> QED
    BY <1>1, <2>4 DEF IInv, Contiguous, Size, PartsAreContiguous
<1> QED
  BY <1>1, Invariance, PTL

\* A step of the seeder that changes a part of the movement directory appends
\* to the one the writing run has open: no new run, and no run that was killed
\* before, makes a run open a part that there is.
LEMMA StepKeepsParts ==
  ASSUME IInv, [Next]_vars, kind = "movement", ~overlap', NEW n \in DOMAIN parts
  PROVE  /\ IsPrefix(parts[n], parts'[n])
         /\ parts'[n] # parts[n] =>
              \E r \in Run : writer[r].at = "open" /\ PartOf(r) = n
<1>0. parts[n] \in Seq(Row) /\ Size \in Nat /\ DOMAIN parts = 0..Size - 1
  BY DEF IInv, Types, Contiguous
<1>1. IsPrefix(parts[n], parts[n])
  <2>1. Len(parts[n]) \in Nat
    BY <1>0, LenProperties
  <2> QED
    BY <2>1 DEF IsPrefix
<1>2. CASE parts' = parts
  BY <1>1, <1>2
<1>3. ASSUME NEW r \in Run, OpenPart(r)
      PROVE  parts'[n] = parts[n]
  <2>1. /\ writer[r].at = "between" /\ writer[r].made < writer[r].total /\ ~overlap
        /\ parts' = [k \in DOMAIN parts \union {PartOf(r)} |->
                       IF k = PartOf(r) THEN <<>> ELSE parts[k]]
    BY <1>3 DEF OpenPart
  <2>2. EndOf(r) = PartOf(r)
    BY <2>1 DEF IInv, Steady, EndOf
  <2>3. EndOf(r) = Size
    BY <2>1 DEF IInv, AtTheEnd, Busy
  <2>4. n # PartOf(r)
    BY <1>0, <2>2, <2>3
  <2> QED
    BY <2>1, <2>4
<1>4. ASSUME NEW r \in Run, WriteRow(r)
      PROVE  /\ IsPrefix(parts[n], parts'[n])
             /\ parts'[n] # parts[n] => writer[r].at = "open" /\ PartOf(r) = n
  <2> DEFINE row == [run |-> r, id |-> writer[r].made + 1]
  <2>1. /\ writer[r].at = "open"
        /\ parts' = [parts EXCEPT ![PartOf(r)] =
             Append(@, [run |-> r, id |-> [writer[r] EXCEPT !.made = @ + 1].made])]
    BY <1>4 DEF WriteRow
  <2>2. CASE n # PartOf(r)
    BY <1>1, <2>1, <2>2
  <2>3. CASE n = PartOf(r)
    <3>1. writer[r] \in Writer /\ writer[r].made \in Nat
      BY RunNumbers DEF IInv, Types
    <3>2. [writer[r] EXCEPT !.made = @ + 1].made = writer[r].made + 1
      BY <3>1 DEF Writer
    <3>3. row \in Row /\ parts'[n] = Append(parts[n], row)
      BY <2>1, <2>3, <3>1, <3>2 DEF Row
    <3> HIDE DEF row
    <3>4. Len(parts[n]) \in Nat
      BY <1>0, LenProperties
    <3>5. IsPrefix(parts[n], Append(parts[n], row))
      <4> DEFINE s == parts[n]
                 t == Append(s, row)
                 k == Len(s)
      <4>1. /\ s \in Seq(Row) /\ t \in Seq(Row) /\ Len(t) = k + 1 /\ k \in Nat
            /\ \A i \in 1..k : s[i] \in Row /\ t[i] = s[i]
        BY <1>0, <3>3, <3>4, AppendProperties, ElementOfSeq
      <4> HIDE DEF s, t, k
      <4>2. /\ SubSeq(s, 1, k) \in Seq(Row) /\ SubSeq(t, 1, k) \in Seq(Row)
            /\ Len(SubSeq(s, 1, k)) = k /\ Len(SubSeq(t, 1, k)) = k
            /\ \A i \in 1..k : SubSeq(s, 1, k)[i] = s[i] /\ SubSeq(t, 1, k)[i] = t[i]
        BY <4>1
      <4>3. SubSeq(s, 1, k) = SubSeq(t, 1, k)
        BY <4>1, <4>2
      <4>4. k <= Len(t)
        BY <4>1
      <4> QED
        BY <4>3, <4>4 DEF IsPrefix, s, t, k
    <3> QED
      BY <2>1, <2>3, <3>3, <3>5
  <2> QED
    BY <2>2, <2>3
<1>5. \/ parts' = parts
      \/ \E r \in Run : OpenPart(r) \/ WriteRow(r)
  BY DEF Next, StartMovement, StartSnapshot, Begin, Write, EndRun, Kill, StartScan, Scan,
         DeliverRow, NextFile, SaveProgress, EndScan, CrashScan, seederVars, vars
<1> QED
  BY <1>1, <1>2, <1>3, <1>4, <1>5

\* "Existing part files are never touched": while runs do not overlap, each part
\* only grows, under the run that has it open, for good.
THEOREM PartsOnlyGrow == Spec => PartsAreKept
<1>1. IInv /\ [Next]_vars =>
        [kind = "movement" /\ ~overlap' =>
           \A n \in DOMAIN parts :
             /\ IsPrefix(parts[n], parts'[n])
             /\ parts'[n] # parts[n] =>
                  \E r \in Run : writer[r].at = "open" /\ PartOf(r) = n]_vars
  BY StepKeepsParts
<1> QED
  BY <1>1, Invariance, PTL DEF Spec, PartsAreKept

-----------------------------------------------------------------------------
(* The parts of a run, one after the other *)

\* Induction, from the library's theorem on least elements: a set that holds 0
\* and the successor of each of its numbers holds every natural number.
LEMMA NaturalInduction ==
  ASSUME NEW S, 0 \in S, \A n \in Nat : n \in S => n + 1 \in S
  PROVE  Nat \subseteq S
PROOF
<1> DEFINE T == Nat \ S
           R == OpToRel(<, Nat)
<1> SUFFICES ASSUME T # {} PROVE FALSE
  OBVIOUS
<1>1. PICK x \in T : \A y \in T : ~ (<<y, x>> \in R)
  <2>1. T \subseteq Nat
    OBVIOUS
  <2> HIDE DEF T
  <2> QED
    BY <2>1, NatLessThanWellFounded, WFMin
<1>2. x \in Nat /\ x # 0
  OBVIOUS
<1>3. x - 1 \in Nat /\ x - 1 < x /\ x - 1 + 1 = x
  BY <1>2
<1>4. x - 1 \notin S
  BY <1>3
<1>5. <<x - 1, x>> \in R
  BY <1>2, <1>3 DEF OpToRel
<1> QED
  BY <1>1, <1>3, <1>4, <1>5

\* The number of parts that t rows fill, d rows to a part.
LEMMA Ceiling ==
  ASSUME NEW d \in Nat \ {0}, NEW t \in Nat
  PROVE  LET c == (t + d - 1) \div d
         IN  /\ c \in Nat
             /\ c = IF t % d = 0 THEN t \div d ELSE (t \div d) + 1
             /\ c * d >= t
             /\ \A q \in 0..c - 1 : q * d < t
<1> DEFINE c == (t + d - 1) \div d
           a == t \div d
           b == t % d
<1>1. /\ a \in Nat /\ b \in 0..d - 1 /\ t = d * a + b
  OBVIOUS
<1>2. t + d - 1 \in Nat
  OBVIOUS
<1>4. c \in Nat /\ t + d - 1 = d * c + ((t + d - 1) % d) /\ (t + d - 1) % d \in 0..d-1
  <2> DEFINE m == t + d - 1
  <2> HIDE DEF m
  <2>1. m \div d \in Nat /\ m = d * (m \div d) + (m % d) /\ m % d \in 0..d-1
    BY <1>2 DEF m
  <2> QED
    BY <2>1 DEF m
<1> DEFINE e == (t + d - 1) % d
<1> HIDE DEF a, b, c, e
<1>5. c = IF b = 0 THEN a ELSE a + 1
  <2>0. t + d - 1 = d * c + e /\ e \in 0..d-1 /\ c \in Nat
    BY <1>4 DEF e, c
  <2>1. CASE b = 0
    <3>1. d * c + e = d * a + (d - 1)
      BY <1>1, <2>0, <2>1
    <3> QED
      BY <1>1, <2>0, <2>1, <3>1
  <2>2. CASE b # 0
    <3>1. d * c + e = d * (a + 1) + (b - 1) /\ b - 1 \in 0..d-1 /\ a + 1 \in Nat
      BY <1>1, <2>0, <2>2
    <3> QED
      BY <1>1, <2>0, <2>2, <3>1
  <2> QED
    BY <2>1, <2>2
<1>6. c \in Nat
  BY <1>4 DEF c
<1>7. c * d >= t
  <2>1. CASE b = 0
    BY <1>1, <1>5, <2>1
  <2>2. CASE b # 0
    BY <1>1, <1>5, <2>2
  <2> QED
    BY <2>1, <2>2
<1>8. ASSUME NEW q \in 0..c-1 PROVE q * d < t
  <2>1. CASE b = 0
    <3>1. q + 1 <= a /\ q \in Nat
      BY <1>1, <1>5, <2>1
    <3>2. (q + 1) * d <= a * d
      BY <1>1, <3>1
    <3> QED
      BY <1>1, <2>1, <3>1, <3>2
  <2>2. CASE b # 0
    <3>1. q <= a /\ q \in Nat
      BY <1>1, <1>5, <2>2
    <3>2. q * d <= a * d
      BY <1>1, <3>1
    <3> QED
      BY <1>1, <2>2, <3>1, <3>2
  <2> QED
    BY <2>1, <2>2
<1> QED
  BY <1>5, <1>6, <1>7, <1>8 DEF a, b, c

\* The numbers of an interval in ascending order.
LEMMA AscendingInterval ==
  ASSUME NEW a \in Nat, NEW k \in Nat
  PROVE  Ascending(a..a + k - 1) = [i \in 1..k |-> a + i - 1]
<1> DEFINE S == a..a + k - 1
           up(f) == \A i, j \in DOMAIN f : i < j => f[i] < f[j]
           e == CHOOSE f \in [1..k -> S] : up(f)
           g == [i \in 1..k |-> a + i - 1]
<1>1. Cardinality(S) = k
  <2>1. a \in Int /\ a + k - 1 \in Int
    OBVIOUS
  <2>2. Cardinality(a..a + k - 1) = IF a > a + k - 1 THEN 0 ELSE (a + k - 1) - a + 1
    BY <2>1, FS_Interval
  <2> QED
    BY <2>2
<1>2. Ascending(S) = e
  BY <1>1 DEF Ascending
<1>3. g \in [1..k -> S] /\ up(g)
  OBVIOUS
<1>4. e \in [1..k -> S] /\ up(e)
  <2>1. \E f \in [1..k -> S] : up(f)
    BY <1>3
  <2> HIDE DEF S, up
  <2> QED
    BY <2>1
<1> HIDE DEF e
<1>5. /\ \A i \in 1..k : e[i] \in Nat /\ a <= e[i] /\ e[i] <= a + k - 1
      /\ \A i, j \in 1..k : i < j => e[i] < e[j]
  <2>1. \A i \in 1..k : e[i] \in S
    BY <1>4
  <2>2. \A i \in 1..k : e[i] \in Nat /\ a <= e[i] /\ e[i] <= a + k - 1
    BY <2>1
  <2> QED
    BY <1>4, <2>2
<1>6. \A m \in Nat : m + 1 <= k => e[m + 1] >= a + m
  <2> DEFINE T == {m \in Nat : m + 1 <= k => e[m + 1] >= a + m}
  <2>1. 0 \in T
    BY <1>5
  <2>2. ASSUME NEW m \in Nat, m \in T
        PROVE  m + 1 \in T
    <3> SUFFICES ASSUME m + 1 + 1 <= k
                 PROVE  e[m + 1 + 1] >= a + (m + 1)
      OBVIOUS
    <3>1. m + 1 \in 1..k /\ m + 1 + 1 \in 1..k
      OBVIOUS
    <3>2. e[m + 1] >= a + m
      BY <2>2, <3>1
    <3>3. e[m + 1] < e[m + 1 + 1] /\ e[m + 1] \in Nat /\ e[m + 1 + 1] \in Nat
      BY <1>5, <3>1
    <3> QED
      BY <3>2, <3>3
  <2> HIDE DEF T
  <2>3. Nat \subseteq T
    BY <2>1, <2>2, NaturalInduction
  <2> QED
    BY <2>3 DEF T
<1>7. \A m \in Nat : m + 1 <= k => e[k - m] <= (a + k - 1) - m
  <2> DEFINE T == {m \in Nat : m + 1 <= k => e[k - m] <= (a + k - 1) - m}
  <2>1. 0 \in T
    BY <1>5
  <2>2. ASSUME NEW m \in Nat, m \in T
        PROVE  m + 1 \in T
    <3> SUFFICES ASSUME m + 1 + 1 <= k
                 PROVE  e[k - (m + 1)] <= (a + k - 1) - (m + 1)
      OBVIOUS
    <3>1. k - m \in 1..k /\ k - (m + 1) \in 1..k /\ k - (m + 1) < k - m
      OBVIOUS
    <3>2. e[k - m] <= (a + k - 1) - m
      BY <2>2, <3>1
    <3>3. e[k - (m + 1)] < e[k - m] /\ e[k - m] \in Nat /\ e[k - (m + 1)] \in Nat
      BY <1>5, <3>1
    <3> QED
      BY <3>2, <3>3
  <2> HIDE DEF T
  <2>3. Nat \subseteq T
    BY <2>1, <2>2, NaturalInduction
  <2> QED
    BY <2>3 DEF T
<1>8. \A i \in 1..k : e[i] = a + i - 1
  <2> TAKE i \in 1..k
  <2>1. i - 1 \in Nat /\ (i - 1) + 1 <= k /\ (i - 1) + 1 = i
    OBVIOUS
  <2>2. e[i] >= a + (i - 1)
    BY <1>6, <2>1
  <2>3. k - i \in Nat /\ (k - i) + 1 <= k /\ k - (k - i) = i
    OBVIOUS
  <2>4. e[i] <= (a + k - 1) - (k - i)
    <3>1. e[k - (k - i)] <= (a + k - 1) - (k - i)
      BY <1>7, <2>3
    <3> QED
      BY <2>3, <3>1
  <2>5. e[i] \in Nat
    BY <1>5
  <2> QED
    BY <2>2, <2>4, <2>5
<1>9. e = g
  BY <1>4, <1>8
<1> QED
  BY <1>2, <1>9

\* f adds up the first n of a list of lists, one after the other.
AddsUp(f, seqs, n) ==
  \A i \in 1..n : f[i] = IF i = 1 THEN seqs[i] ELSE f[i - 1] \o seqs[i]

\* A flattened sequence is the last of its partial concatenations.
LEMMA FlattenByPrefixes ==
  ASSUME NEW n \in Nat \ {0}, NEW seqs, Len(seqs) = n, NEW g,
         AddsUp(g, seqs, n)
  PROVE  FlattenSeq(seqs) = g[n]
<1> DEFINE ok(f) == f = [i \in 1..n |-> IF i = 1 THEN seqs[i] ELSE f[i - 1] \o seqs[i]]
           c == CHOOSE f : ok(f)
<1>0. \A i \in 1..n : g[i] = IF i = 1 THEN seqs[i] ELSE g[i - 1] \o seqs[i]
  BY DEF AddsUp
<1>1. FlattenSeq(seqs) = c[n]
  BY DEF FlattenSeq
<1>2. ok(c)
  <2> DEFINE h == [i \in 1..n |-> g[i]]
  <2>1. \A i \in 1..n : i # 1 => h[i - 1] = g[i - 1]
    OBVIOUS
  <2>2. ok(h)
    BY <1>0, <2>1
  <2> HIDE DEF ok, h
  <2> QED
    BY <2>2
<1> HIDE DEF c
<1>3. \A i \in 1..n : c[i] = IF i = 1 THEN seqs[i] ELSE c[i - 1] \o seqs[i]
  <2> DEFINE F == [i \in 1..n |-> IF i = 1 THEN seqs[i] ELSE c[i - 1] \o seqs[i]]
  <2>1. c = F
    BY <1>2
  <2>2. \A i \in 1..n : F[i] = IF i = 1 THEN seqs[i] ELSE c[i - 1] \o seqs[i]
    OBVIOUS
  <2> HIDE DEF F, ok
  <2> QED
    BY <2>1, <2>2, Zenon
<1>4. \A m \in Nat : m + 1 <= n => c[m + 1] = g[m + 1]
  <2> DEFINE T == {m \in Nat : m + 1 <= n => c[m + 1] = g[m + 1]}
  <2>1. 0 \in T
    <3>1. 1 \in 1..n /\ 0 + 1 = 1
      OBVIOUS
    <3>2. c[1] = seqs[1] /\ g[1] = seqs[1]
      BY <1>0, <1>3, <3>1
    <3> QED
      BY <3>1, <3>2
  <2>2. ASSUME NEW m \in Nat, m \in T
        PROVE  m + 1 \in T
    <3> DEFINE x == m + 1 + 1
    <3> SUFFICES ASSUME x <= n
                 PROVE  c[x] = g[x]
      OBVIOUS
    <3>1. x \in 1..n /\ x # 1 /\ x - 1 = m + 1 /\ m + 1 <= n
      OBVIOUS
    <3>2. c[m + 1] = g[m + 1]
      BY <2>2, <3>1
    <3> HIDE DEF x
    <3>3. c[x] = c[x - 1] \o seqs[x] /\ g[x] = g[x - 1] \o seqs[x]
      BY <1>0, <1>3, <3>1
    <3> QED
      BY <3>1, <3>2, <3>3
  <2> HIDE DEF T
  <2>3. Nat \subseteq T
    BY <2>1, <2>2, NaturalInduction
  <2> QED
    BY <2>3 DEF T
<1>5. n - 1 \in Nat /\ n - 1 + 1 = n /\ n - 1 + 1 <= n
  OBVIOUS
<1> QED
  BY <1>1, <1>4, <1>5

\* The first m rows of run r.
Rows(r, m) == [i \in 1..m |-> [run |-> r, id |-> i]]

\* The first a rows and the block after them are the first a + b rows.
LEMMA RowsGrow ==
  ASSUME NEW r \in Run, NEW q \in Nat, NEW b \in Nat
  PROVE  Rows(r, q * RowsPerPart) \o Block(r, q, b) = Rows(r, q * RowsPerPart + b)
<1> DEFINE a == q * RowsPerPart
           s == [i \in 1..a |-> [run |-> r, id |-> i]]
           t == [i \in 1..b |-> [run |-> r, id |-> a + i]]
           u == [i \in 1..a + b |-> [run |-> r, id |-> i]]
<1>1. a \in Nat
  BY LandingAssumption, ProductGrows
<1>2. Rows(r, q * RowsPerPart) = s /\ Block(r, q, b) = t /\ Rows(r, q * RowsPerPart + b) = u
  BY DEF Rows, Block
<1> HIDE DEF a
<1>3. /\ s \in Seq(Row) /\ Len(s) = a /\ t \in Seq(Row) /\ Len(t) = b
      /\ u \in Seq(Row) /\ Len(u) = a + b
      /\ \A i \in 1..a : s[i] = [run |-> r, id |-> i]
      /\ \A i \in 1..b : t[i] = [run |-> r, id |-> a + i]
      /\ \A i \in 1..a + b : u[i] = [run |-> r, id |-> i]
  BY <1>1 DEF Row
<1> HIDE DEF s, t, u
<1>4. /\ s \o t \in Seq(Row) /\ Len(s \o t) = a + b
      /\ \A i \in 1..a + b : (s \o t)[i] = IF i <= a THEN s[i] ELSE t[i - a]
  <2>1. /\ s \o t \in Seq(Row) /\ Len(s \o t) = Len(s) + Len(t)
        /\ \A i \in 1..Len(s) + Len(t) :
             (s \o t)[i] = IF i <= Len(s) THEN s[i] ELSE t[i - Len(s)]
    <3>1. s \in Seq(Row) /\ t \in Seq(Row)
      BY <1>3
    <3> QED
      BY <3>1, ConcatProperties
  <2> QED
    BY <1>3, <2>1
<1>5. ASSUME NEW i \in 1..a + b
      PROVE  (s \o t)[i] = u[i]
  <2>1. CASE i <= a
    <3>1. i \in 1..a
      BY <1>1, <2>1
    <3> QED
      BY <1>3, <1>4, <2>1, <3>1
  <2>2. CASE ~(i <= a)
    <3>1. i - a \in 1..b /\ a + (i - a) = i
      BY <1>1, <2>2
    <3>2. (s \o t)[i] = t[i - a]
      BY <1>4, <2>2
    <3>3. t[i - a] = [run |-> r, id |-> a + (i - a)]
      BY <1>3, <3>1
    <3> QED
      BY <1>3, <3>1, <3>2, <3>3
  <2> QED
    BY <2>1, <2>2
<1>6. s \o t = u
  <2> DEFINE v == s \o t
  <2>1. v \in Seq(Row) /\ u \in Seq(Row) /\ Len(v) = Len(u) /\ \A i \in 1..Len(v) : v[i] = u[i]
    BY <1>3, <1>4, <1>5
  <2> HIDE DEF v
  <2>2. v = u
    BY <2>1, SeqEqual
  <2> QED
    BY <2>2 DEF v
<1> QED
  BY <1>2, <1>6

\* The blocks of t rows, RowsPerPart to each, are the rows in order.
LEMMA BlocksAreRows ==
  ASSUME NEW r \in Run, NEW t \in Nat, NEW c \in Nat \ {0}, NEW seqs,
         Len(seqs) = c, \A q \in 0..c - 1 : q * RowsPerPart < t,
         c * RowsPerPart >= t,
         \A i \in 1..c : seqs[i] = Block(r, i - 1, Share(i - 1, t))
  PROVE  FlattenSeq(seqs) = Rows(r, t)
<1> DEFINE upto(i) == IF i * RowsPerPart <= t THEN i * RowsPerPart ELSE t
           g == [i \in 1..c |-> Rows(r, upto(i))]
<1>0. RowsPerPart \in Nat \ {0}
  BY LandingAssumption
<1>1. ASSUME NEW i \in 1..c
      PROVE  /\ upto(i - 1) = (i - 1) * RowsPerPart
             /\ Share(i - 1, t) \in Nat
             /\ upto(i) = (i - 1) * RowsPerPart + Share(i - 1, t)
  <2> DEFINE q == i - 1
             a == q * RowsPerPart
  <2>1. q \in Nat /\ q \in 0..c - 1 /\ q + 1 = i
    OBVIOUS
  <2>2. a \in Nat /\ i * RowsPerPart = a + RowsPerPart
    <3> HIDE DEF q
    <3>1. q <= q
      BY <2>1
    <3>2. q * RowsPerPart \in Nat /\ (q + 1) * RowsPerPart = q * RowsPerPart + RowsPerPart
      BY <1>0, <2>1, <3>1, ProductGrows
    <3> QED
      BY <2>1, <3>2
  <2>3. a < t
    BY <2>1
  <2>4. Share(q, t) = IF t >= a + RowsPerPart THEN RowsPerPart ELSE t - a
    BY <2>1, <2>2 DEF Share
  <2>5. upto(i) = IF a + RowsPerPart <= t THEN a + RowsPerPart ELSE t
    BY <2>2
  <2>6. upto(q) = a
    <3>1. upto(q) = IF a <= t THEN a ELSE t
      OBVIOUS
    <3> HIDE DEF a, upto
    <3> QED
      BY <2>2, <2>3, <3>1
  <2> HIDE DEF a, upto
  <2>7. Share(q, t) \in Nat /\ upto(i) = a + Share(q, t)
    BY <1>0, <2>2, <2>3, <2>4, <2>5
  <2> QED
    BY <2>6, <2>7 DEF a
<1>2. \A i \in 1..c : g[i] = Rows(r, upto(i))
  OBVIOUS
<1>3. upto(c) = t
  <2>1. c * RowsPerPart \in Nat
    BY <1>0, ProductGrows
  <2> QED
    BY <2>1
<1>4. upto(0) = 0
  BY <1>0
<1> HIDE DEF g, upto
<1>5. ASSUME NEW i \in 1..c
      PROVE  g[i] = Rows(r, upto(i - 1)) \o seqs[i]
  <2>1. /\ upto(i - 1) = (i - 1) * RowsPerPart /\ Share(i - 1, t) \in Nat
        /\ upto(i) = (i - 1) * RowsPerPart + Share(i - 1, t)
    BY <1>1
  <2>2. i - 1 \in Nat
    OBVIOUS
  <2> DEFINE q == i - 1
             b == Share(q, t)
  <2>3. Rows(r, q * RowsPerPart) \o Block(r, q, b) = Rows(r, q * RowsPerPart + b)
    <3>1. q \in Nat /\ b \in Nat
      BY <2>1, <2>2
    <3> HIDE DEF q, b
    <3> QED
      BY <3>1, RowsGrow
  <2>4. seqs[i] = Block(r, q, b)
    OBVIOUS
  <2> QED
    BY <1>2, <2>1, <2>3, <2>4
<1>6. \A i \in 1..c : g[i] = IF i = 1 THEN seqs[i] ELSE g[i - 1] \o seqs[i]
  <2> TAKE i \in 1..c
  <2>1. CASE i = 1
    <3>1. g[1] = Rows(r, 0) \o seqs[1]
      <4>1. 1 - 1 = 0
        OBVIOUS
      <4> QED
        BY <1>4, <1>5, <2>1, <4>1
    <3>2. Rows(r, 0) = <<>>
      <4>1. [k \in 1..0 |-> [run |-> r, id |-> k]] = <<>>
        <5>1. /\ [k \in 1..0 |-> [run |-> r, id |-> k]] \in Seq(Row)
              /\ Len([k \in 1..0 |-> [run |-> r, id |-> k]]) = 0
          BY DEF Row
        <5> QED
          BY <5>1
      <4> QED
        BY <4>1 DEF Rows
    <3>3. seqs[1] \in Seq(Row)
      <4>1. seqs[1] = Block(r, 0, Share(0, t)) /\ Share(0, t) \in Nat
        <5>1. 1 - 1 = 0
          OBVIOUS
        <5> QED
          BY <1>1, <2>1, <5>1
      <4> DEFINE b == Share(0, t)
      <4>2. 0 \in Nat /\ b \in Nat /\ seqs[1] = Block(r, 0, b)
        BY <4>1
      <4> HIDE DEF b
      <4>3. Block(r, 0, b) \in Seq(Row)
        BY <4>2, Blocks, Zenon
      <4> QED
        BY <4>2, <4>3, Zenon
    <3>4. <<>> \o seqs[1] = seqs[1]
      BY <3>3
    <3> QED
      BY <2>1, <3>1, <3>2, <3>4
  <2>2. CASE i # 1
    <3>1. i - 1 \in 1..c
      BY <2>2
    <3>2. g[i - 1] = Rows(r, upto(i - 1))
      BY <1>2, <3>1
    <3> QED
      BY <1>5, <2>2, <3>2
  <2> QED
    BY <2>1, <2>2
<1>7. FlattenSeq(seqs) = g[c]
  <2>1. AddsUp(g, seqs, c)
    BY <1>6 DEF AddsUp
  <2> QED
    BY <2>1, FlattenByPrefixes
<1> QED
  BY <1>2, <1>3, <1>7

\* Whatever was killed before it, a run that ends alone has put each of its rows
\* once and in order into consecutive parts, and no later run of the movement
\* seeder, and none of the snapshot seeder that has begun, has touched them.
THEOREM EndedRunsAreWhole == Spec => []RunIsWhole
<1>1. ASSUME IInv
      PROVE  RunIsWhole
  <2> SUFFICES ASSUME NEW r \in Run, writer[r].at = "done", ~overlap,
                      kind = "snapshot" => \A s \in Run : s > r => writer[s].at = "new"
               PROVE  Written(r) = Rows(r, writer[r].total)
    BY DEF RunIsWhole, Rows
  <2> DEFINE t == writer[r].total
             f == writer[r].first
             c == (t + RowsPerPart - 1) \div RowsPerPart
             mine == DOMAIN parts \intersect f..f + c - 1
             files == Ascending(mine)
             seqs == [k \in DOMAIN files |-> parts[files[k]]]
  <2>1. Written(r) = FlattenSeq(seqs)
    BY DEF Written
  <2>2. Owns(r) /\ writer[r].made = t
    BY <1>1 DEF Owns, IInv, Steady
  <2>3. /\ t \in Nat /\ f \in Nat /\ EndOf(r) \in Nat /\ EndOf(r) <= Size
        /\ PartOf(r) = f + (t \div RowsPerPart) /\ t \div RowsPerPart \in Nat
        /\ Size \in Nat /\ DOMAIN parts = 0..Size - 1
    BY <1>1, <2>2, RunNumbers DEF IInv, AtTheEnd, Contiguous
  <2>4. /\ c \in Nat
        /\ c = IF t % RowsPerPart = 0 THEN t \div RowsPerPart ELSE (t \div RowsPerPart) + 1
        /\ c * RowsPerPart >= t
        /\ \A q \in 0..c - 1 : q * RowsPerPart < t
    BY <2>3, LandingAssumption, Ceiling
  <2> HIDE DEF c
  <2>5. EndOf(r) = f + c
    <3>1. EndOf(r) = IF t % RowsPerPart # 0 THEN PartOf(r) + 1 ELSE PartOf(r)
      BY <2>2 DEF EndOf
    <3> QED
      BY <2>3, <2>4, <3>1
  <2>6. \A n \in f..f + c - 1 : parts[n] = Block(r, n - f, Share(n - f, t))
    <3>1. \A n \in f..EndOf(r) - 1 : parts[n] = Block(r, n - f, Share(n - f, t))
      BY <1>1, <2>2 DEF IInv, Laid
    <3>2. f..f + c - 1 = f..EndOf(r) - 1
      BY <2>3, <2>4, <2>5
    <3> QED
      BY <3>1, <3>2
  <2>7. mine = f..f + c - 1
    BY <2>3, <2>4, <2>5, SMTT(30)
  <2> HIDE DEF t, f, mine
  <2>8. files = [i \in 1..c |-> f + i - 1]
    <3>1. Ascending(f..f + c - 1) = [i \in 1..c |-> f + i - 1]
      BY <2>3, <2>4, AscendingInterval
    <3> QED
      BY <2>7, <3>1
  <2> HIDE DEF files
  <2>9. /\ DOMAIN files = 1..c
        /\ \A i \in 1..c : files[i] \in f..f + c - 1 /\ files[i] - f = i - 1
    BY <2>3, <2>4, <2>8
  <2>10. \A i \in 1..c : seqs[i] = Block(r, i - 1, Share(i - 1, t))
    BY <2>6, <2>9
  <2>11. CASE c = 0
    <3>1. t = 0
      BY <2>3, <2>4, <2>11, LandingAssumption
    <3>2. seqs = <<>>
      <4>1. seqs = [k \in 1..0 |-> parts[files[k]]]
        BY <2>9, <2>11
      <4>2. /\ [k \in 1..0 |-> parts[files[k]]] \in Seq(Nat)
            /\ Len([k \in 1..0 |-> parts[files[k]]]) = 0
        OBVIOUS
      <4> QED
        BY <4>1, <4>2
    <3>3. FlattenSeq(<<>>) = <<>>
      BY DEF FlattenSeq
    <3>4. Rows(r, 0) = <<>>
      <4>1. /\ [k \in 1..0 |-> [run |-> r, id |-> k]] \in Seq(Row)
            /\ Len([k \in 1..0 |-> [run |-> r, id |-> k]]) = 0
        BY DEF Row
      <4> QED
        BY <4>1 DEF Rows
    <3> QED
      BY <2>1, <3>1, <3>2, <3>3, <3>4 DEF t
  <2>12. CASE c # 0
    <3>1. Len(seqs) = c
      BY <2>4, <2>9
    <3> HIDE DEF seqs
    <3>2. FlattenSeq(seqs) = Rows(r, t)
      BY <2>3, <2>4, <2>10, <2>12, <3>1, BlocksAreRows
    <3> QED
      BY <2>1, <3>2 DEF t
  <2> QED
    BY <2>11, <2>12
<1> QED
  BY <1>1, Invariance, PTL

-----------------------------------------------------------------------------
(* Setup: lists of lists *)

\* Every list of lists can be added up.
LEMMA PartialLists ==
  ASSUME NEW S, NEW n \in Nat, NEW seqs \in [1..n -> Seq(S)]
  PROVE  \E f \in [1..n -> Seq(S)] : AddsUp(f, seqs, n)
<1> DEFINE T == {m \in Nat : m <= n => \E f \in [1..m -> Seq(S)] : AddsUp(f, seqs, m)}
<1>1. 0 \in T
  <2>1. [i \in 1..0 |-> <<>>] \in [1..0 -> Seq(S)] /\ AddsUp([i \in 1..0 |-> <<>>], seqs, 0)
    BY DEF AddsUp
  <2> QED
    BY <2>1
<1>2. ASSUME NEW m \in Nat, m \in T
      PROVE  m + 1 \in T
  <2> SUFFICES ASSUME m + 1 <= n
               PROVE  \E f \in [1..m + 1 -> Seq(S)] : AddsUp(f, seqs, m + 1)
    OBVIOUS
  <2>1. PICK f \in [1..m -> Seq(S)] : AddsUp(f, seqs, m)
    BY <1>2
  <2> DEFINE last == IF m = 0 THEN seqs[1] ELSE f[m] \o seqs[m + 1]
             g == [i \in 1..m + 1 |-> IF i <= m THEN f[i] ELSE last]
  <2>2. last \in Seq(S)
    <3>1. CASE m = 0
      <4>1. 1 \in 1..n
        BY <3>1
      <4> QED
        BY <3>1, <4>1
    <3>2. CASE m # 0
      <4>1. m \in 1..m /\ m + 1 \in 1..n
        BY <3>2
      <4>2. f[m] \in Seq(S) /\ seqs[m + 1] \in Seq(S)
        BY <4>1
      <4>3. f[m] \o seqs[m + 1] \in Seq(S)
        BY <4>2, ConcatProperties
      <4> QED
        BY <3>2, <4>3
    <3> QED
      BY <3>1, <3>2
  <2>3. \A i \in 1..m + 1 : i <= m => i \in 1..m /\ f[i] \in Seq(S)
    OBVIOUS
  <2>4. g \in [1..m + 1 -> Seq(S)]
    BY <2>2, <2>3
  <2>5. ASSUME NEW i \in 1..m + 1
        PROVE  g[i] = IF i = 1 THEN seqs[i] ELSE g[i - 1] \o seqs[i]
    <3> HIDE DEF last
    <3>1. CASE i <= m
      <4>1. i \in 1..m /\ (i # 1 => i - 1 \in 1..m + 1 /\ i - 1 <= m)
        BY <3>1
      <4>2. g[i] = f[i] /\ (i # 1 => g[i - 1] = f[i - 1])
        BY <3>1, <4>1
      <4>3. f[i] = IF i = 1 THEN seqs[i] ELSE f[i - 1] \o seqs[i]
        BY <2>1, <4>1 DEF AddsUp
      <4> QED
        BY <4>2, <4>3
    <3>2. CASE ~ (i <= m)
      <4>1. i = m + 1 /\ (i = 1 <=> m = 0)
        BY <3>2
      <4>2. g[i] = last
        BY <3>2
      <4>3. CASE m = 0
        BY <4>1, <4>2, <4>3 DEF last
      <4>4. CASE m # 0
        <5>1. m \in 1..m + 1 /\ m <= m /\ i - 1 = m
          BY <4>1, <4>4
        <5>2. g[m] = f[m]
          BY <5>1
        <5> QED
          BY <4>1, <4>2, <4>4, <5>1, <5>2 DEF last
      <4> QED
        BY <4>3, <4>4
    <3> QED
      BY <3>1, <3>2
  <2> HIDE DEF g
  <2>6. AddsUp(g, seqs, m + 1)
    BY <2>5 DEF AddsUp
  <2> QED
    BY <2>4, <2>6
<1> HIDE DEF T
<1>3. Nat \subseteq T
  BY <1>1, <1>2, NaturalInduction
<1> QED
  BY <1>3 DEF T

\* A flattened list, when some property of lists holds of each of its lists
\* and of the concatenation of two lists that have it: it has it too.
LEMMA FlattenKeeps ==
  ASSUME NEW S, NEW n \in Nat \ {0}, NEW seqs \in [1..n -> Seq(S)], NEW Good,
         \A i \in 1..n : seqs[i] \in Good,
         \A s, t \in Seq(S) : s \in Good /\ t \in Good => s \o t \in Good
  PROVE  FlattenSeq(seqs) \in Seq(S) /\ FlattenSeq(seqs) \in Good
<1>1. PICK f \in [1..n -> Seq(S)] : AddsUp(f, seqs, n)
  <2>1. n \in Nat
    OBVIOUS
  <2> QED
    BY <2>1, PartialLists, Zenon
<1>2. Len(seqs) = n
  OBVIOUS
<1>3. FlattenSeq(seqs) = f[n]
  BY <1>1, <1>2, FlattenByPrefixes
<1> DEFINE T == {m \in Nat : m + 1 <= n => f[m + 1] \in Good}
<1>4. 0 \in T
  <2>1. 1 \in 1..n /\ 0 + 1 = 1
    OBVIOUS
  <2>2. f[1] = seqs[1]
    BY <1>1, <2>1 DEF AddsUp
  <2> QED
    BY <2>1, <2>2
<1>5. ASSUME NEW m \in Nat, m \in T
      PROVE  m + 1 \in T
  <2> SUFFICES ASSUME m + 1 + 1 <= n
               PROVE  f[m + 1 + 1] \in Good
    OBVIOUS
  <2>1. /\ m + 1 \in 1..n /\ m + 1 + 1 \in 1..n /\ m + 1 <= n
        /\ m + 1 + 1 # 1 /\ (m + 1 + 1) - 1 = m + 1
    OBVIOUS
  <2>2. f[m + 1 + 1] = f[m + 1] \o seqs[m + 1 + 1]
    BY <1>1, <2>1 DEF AddsUp
  <2>3. f[m + 1] \in Good /\ f[m + 1] \in Seq(S)
    BY <1>5, <2>1
  <2>4. seqs[m + 1 + 1] \in Good /\ seqs[m + 1 + 1] \in Seq(S)
    BY <2>1
  <2> QED
    BY <2>2, <2>3, <2>4
<1> HIDE DEF T
<1>6. Nat \subseteq T
  BY <1>4, <1>5, NaturalInduction
<1>7. n - 1 \in Nat /\ n - 1 + 1 = n /\ n - 1 + 1 <= n /\ n \in 1..n
  OBVIOUS
<1>8. f[n] \in Good
  <2>1. n - 1 \in T
    BY <1>6, <1>7
  <2> QED
    BY <1>7, <2>1 DEF T
<1> QED
  BY <1>3, <1>7, <1>8

\* The lists of any family, flattened.
LEMMA FlattenInSeq ==
  ASSUME NEW S, NEW n \in Nat, NEW seqs \in [1..n -> Seq(S)]
  PROVE  FlattenSeq(seqs) \in Seq(S)
<1>1. CASE n = 0
  <2>1. seqs \in Seq(S) /\ Len(seqs) = 0
    BY <1>1
  <2> QED
    BY <2>1 DEF FlattenSeq
<1>2. CASE n # 0
  <2>1. \A s, t \in Seq(S) : s \o t \in Seq(S)
    BY ConcatProperties
  <2> QED
    BY <1>2, <2>1, FlattenKeeps
<1> QED
  BY <1>1, <1>2

-----------------------------------------------------------------------------
(* Lists of statements *)

IsList(s) == \E S : s \in Seq(S)

\* The two tables whose rows every setup writes again.
Rewritten == {<<"auxdb", "wal_positions">>, <<"snowflake", "MERCHANT_RISK_PROFILE">>}

Gives(s) == {s[i].path : i \in 1..Len(s)}

\* Where the servers and all of B exist, each statement finds what it needs.
Finds(s, B) ==
  \A i \in 1..Len(s) : \A x \in s[i].needs :
    \/ Len(x) = 1 \/ x \in B
    \/ \E j \in 1..i - 1 : x = s[j].path

\* Nothing is written over that the operator may have edited.
Careful(s) ==
  \A i \in 1..Len(s) : s[i].does = "rewrite" => Front(s[i].path) \in Rewritten

\* A list of statements that can be sent where all of B exists.
Runs(s, B) == IsList(s) /\ Finds(s, B) /\ Careful(s)

\* What needs less runs as well.
LEMMA RunsWithMore ==
  ASSUME NEW s, NEW B, NEW C, B \subseteq C, Runs(s, B)
  PROVE  Runs(s, C)
BY DEF Runs, Finds

\* Elements of a list, by position.
LEMMA ListAt ==
  ASSUME NEW s, IsList(s)
  PROVE  Len(s) \in Nat /\ DOMAIN s = 1..Len(s) /\ s \in Seq(Range(s))
<1>1. PICK S : s \in Seq(S)
  BY DEF IsList
<1>2. Len(s) \in Nat /\ DOMAIN s = 1..Len(s) /\ s \in [1..Len(s) -> S]
  BY <1>1, LenProperties
<1>3. s \in [1..Len(s) -> Range(s)]
  BY <1>2 DEF Range
<1> QED
  BY <1>2, <1>3

\* The one of a concatenation.
LEMMA ConcatAt ==
  ASSUME NEW s, IsList(s), NEW t, IsList(t)
  PROVE  /\ IsList(s \o t)
         /\ Len(s) \in Nat /\ Len(t) \in Nat /\ Len(s \o t) = Len(s) + Len(t)
         /\ \A i \in 1..Len(s) : (s \o t)[i] = s[i]
         /\ \A i \in 1..Len(t) : (s \o t)[Len(s) + i] = t[i]
<1> DEFINE S == Range(s) \union Range(t)
<1>1. Len(s) \in Nat /\ Len(t) \in Nat /\ s \in Seq(Range(s)) /\ t \in Seq(Range(t))
  BY ListAt
<1>2. Range(s) \subseteq S /\ Range(t) \subseteq S
  OBVIOUS
<1> HIDE DEF S
<1>3. s \in Seq(S) /\ t \in Seq(S)
  BY <1>1, <1>2, SeqMonotonic
<1>4. /\ s \o t \in Seq(S) /\ Len(s \o t) = Len(s) + Len(t)
      /\ \A i \in 1..Len(s) + Len(t) :
           (s \o t)[i] = IF i <= Len(s) THEN s[i] ELSE t[i - Len(s)]
  BY <1>3, ConcatProperties
<1>5. ASSUME NEW i \in 1..Len(s)
      PROVE  (s \o t)[i] = s[i]
  BY <1>1, <1>4
<1>6. ASSUME NEW i \in 1..Len(t)
      PROVE  (s \o t)[Len(s) + i] = t[i]
  <2>1. Len(s) + i \in 1..Len(s) + Len(t) /\ ~ (Len(s) + i <= Len(s))
        /\ (Len(s) + i) - Len(s) = i
    BY <1>1
  <2> QED
    BY <1>4, <2>1
<1> QED
  BY <1>1, <1>4, <1>5, <1>6 DEF IsList

\* A second list may rely on what the first one creates.
LEMMA RunsConcat ==
  ASSUME NEW B, NEW s, NEW t, Runs(s, B), Runs(t, B \union Gives(s))
  PROVE  Runs(s \o t, B)
<1> DEFINE u == s \o t
<1>1. /\ IsList(s) /\ Finds(s, B) /\ Careful(s)
      /\ IsList(t) /\ Finds(t, B \union Gives(s)) /\ Careful(t)
  BY DEF Runs
<1>2. /\ IsList(u)
      /\ Len(s) \in Nat /\ Len(t) \in Nat /\ Len(u) = Len(s) + Len(t)
      /\ \A i \in 1..Len(s) : u[i] = s[i]
      /\ \A i \in 1..Len(t) : u[Len(s) + i] = t[i]
  BY <1>1, ConcatAt
<1> HIDE DEF u
<1>3. \A i \in 1..Len(u) :
        i \in 1..Len(s) \/ (i - Len(s) \in 1..Len(t) /\ Len(s) + (i - Len(s)) = i)
  BY <1>2
<1>4. \A i \in 1..Len(u) :
        \/ i \in 1..Len(s) /\ u[i] = s[i]
        \/ i - Len(s) \in 1..Len(t) /\ u[i] = t[i - Len(s)]
  BY <1>2, <1>3
<1>5. Careful(u)
  BY <1>1, <1>4 DEF Careful
<1>6. Finds(u, B)
  <2> SUFFICES ASSUME NEW i \in 1..Len(u), NEW x \in u[i].needs, Len(x) # 1, x \notin B
               PROVE  \E j \in 1..i - 1 : x = u[j].path
    BY DEF Finds
  <2>1. CASE i \in 1..Len(s)
    <3>1. x \in s[i].needs
      BY <1>2, <2>1
    <3>2. PICK j \in 1..i - 1 : x = s[j].path
      BY <1>1, <2>1, <3>1 DEF Finds
    <3>3. j \in 1..Len(s)
      BY <1>2, <2>1
    <3> QED
      BY <1>2, <3>2, <3>3
  <2>2. CASE i - Len(s) \in 1..Len(t) /\ Len(s) + (i - Len(s)) = i
    <3> DEFINE k == i - Len(s)
    <3>1. k \in 1..Len(t) /\ Len(s) + k = i
      BY <2>2
    <3> HIDE DEF k
    <3>2. x \in t[k].needs
      BY <1>2, <3>1
    <3>3. x \in Gives(s) \/ \E j \in 1..k - 1 : x = t[j].path
      BY <1>1, <3>1, <3>2 DEF Finds
    <3>4. CASE x \in Gives(s)
      <4>1. PICK j \in 1..Len(s) : x = s[j].path
        BY <3>4 DEF Gives
      <4>2. j \in 1..i - 1
        BY <1>2, <3>1
      <4> QED
        BY <1>2, <4>1, <4>2
    <3>5. CASE \E j \in 1..k - 1 : x = t[j].path
      <4>1. PICK j \in 1..k - 1 : x = t[j].path
        BY <3>5
      <4>2. j \in 1..Len(t) /\ Len(s) + j \in 1..i - 1
        BY <1>2, <3>1
      <4>3. u[Len(s) + j] = t[j]
        BY <1>2, <4>2
      <4> QED
        BY <4>1, <4>2, <4>3
    <3> QED
      BY <3>3, <3>4, <3>5
  <2> QED
    BY <1>3, <2>1, <2>2
<1> QED
  BY <1>2, <1>5, <1>6 DEF Runs, u

\* Two lists that do not need each other.
LEMMA RunsBoth ==
  ASSUME NEW B, NEW s, NEW t, Runs(s, B), Runs(t, B)
  PROVE  Runs(s \o t, B)
<1>1. Runs(t, B \union Gives(s))
  <2>1. B \subseteq B \union Gives(s)
    OBVIOUS
  <2> QED
    BY <2>1, RunsWithMore
<1> QED
  BY <1>1, RunsConcat

\* Lists that do not need each other, one after the other.
LEMMA RunsFlatten ==
  ASSUME NEW B, NEW n \in Nat, NEW seqs, IsList(seqs), Len(seqs) = n,
         \A i \in 1..n : Runs(seqs[i], B)
  PROVE  Runs(FlattenSeq(seqs), B)
<1> DEFINE S == UNION {Range(seqs[i]) : i \in 1..n}
           Good == {s \in Seq(S) : Runs(s, B)}
<1>1. DOMAIN seqs = 1..n /\ seqs \in [1..n -> Range(seqs)]
  BY ListAt
<1>2. ASSUME NEW i \in 1..n
      PROVE  seqs[i] \in Seq(S)
  <2>1. seqs[i] \in Seq(Range(seqs[i]))
    BY ListAt DEF Runs
  <2>2. Range(seqs[i]) \subseteq S
    OBVIOUS
  <2> HIDE DEF S
  <2> QED
    BY <2>1, <2>2, SeqMonotonic
<1> HIDE DEF S
<1>3. seqs \in [1..n -> Seq(S)]
  BY <1>1, <1>2
<1>4. CASE n = 0
  <2>1. FlattenSeq(seqs) = seqs
    BY <1>4 DEF FlattenSeq
  <2> QED
    BY <1>4, <2>1 DEF Runs, Finds, Careful
<1>5. CASE n # 0
  <2>1. \A i \in 1..n : seqs[i] \in Good
    BY <1>2
  <2>2. \A s, t \in Seq(S) : s \in Good /\ t \in Good => s \o t \in Good
    BY RunsBoth, ConcatProperties
  <2>3. FlattenSeq(seqs) \in Good
    <3> HIDE DEF Good
    <3>1. n \in Nat \ {0}
      BY <1>5
    <3> QED
      BY <1>3, <2>1, <2>2, <3>1, FlattenKeeps
  <2> QED
    BY <2>3
<1> QED
  BY <1>4, <1>5

\* Statements that need nothing of each other.
LEMMA RunsApart ==
  ASSUME NEW B, NEW n \in Nat, NEW s, s = [i \in 1..n |-> s[i]],
         \A i \in 1..n : /\ \A x \in s[i].needs : Len(x) = 1 \/ x \in B
                         /\ s[i].does # "rewrite"
  PROVE  Runs(s, B)
<1>1. s \in Seq({s[i] : i \in 1..n}) /\ Len(s) = n
  OBVIOUS
<1> QED
  BY <1>1 DEF Runs, Finds, Careful, IsList

LEMMA ConnectRuns ==
  ASSUME NEW database, NEW B
  PROVE  Runs(Connect(database), B)
<1> DEFINE r == Statement(<<database>>, {<<database>>}, "connect", FALSE)
           s == <<r>>
<1>1. r.needs = {<<database>>} /\ r.does = "connect" /\ Len(<<database>>) = 1
  BY DEF Statement
<1>2. "connect" # "rewrite"
  OBVIOUS
<1> HIDE DEF r
<1>3. s = [i \in 1..1 |-> s[i]] /\ \A i \in 1..1 : s[i] = r
  OBVIOUS
<1> HIDE DEF s
<1>4. \A i \in 1..1 : (\A x \in s[i].needs : Len(x) = 1 \/ x \in B) /\ s[i].does # "rewrite"
  BY <1>1, <1>2, <1>3
<1>5. 1 \in Nat
  OBVIOUS
<1>6. Runs(s, B)
  BY <1>3, <1>4, <1>5, RunsApart
<1> QED
  BY <1>6 DEF Connect, r, s

\* The paths below one parent.
Below(parent, names) == {Append(parent, names[i]) : i \in 1..Len(names)}

\* The same statement for each name below one parent.
Spread(s, parent, names, does, soft) ==
  /\ IsList(s) /\ Len(s) = Len(names)
  /\ \A i \in 1..Len(names) :
       s[i] = Statement(Append(parent, names[i]), {parent}, does, soft)

LEMMA EachAt ==
  ASSUME NEW parent, NEW names, NEW does, NEW soft, IsList(names)
  PROVE  Spread(Each(parent, names, does, soft), parent, names, does, soft)
<1> DEFINE r(i) == Statement(Append(parent, names[i]), {parent}, does, soft)
           s == Each(parent, names, does, soft)
<1>1. Len(names) \in Nat /\ DOMAIN names = 1..Len(names)
  BY ListAt
<1>2. s = [i \in 1..Len(names) |-> r(i)]
  BY <1>1 DEF Each
<1> HIDE DEF r, s
<1>3. s \in Seq({r(i) : i \in 1..Len(names)}) /\ Len(s) = Len(names)
  BY <1>1, <1>2
<1>4. \A i \in 1..Len(names) : s[i] = r(i)
  BY <1>2
<1> QED
  BY <1>3, <1>4 DEF IsList, Spread, r, s

LEMMA EachGives ==
  ASSUME NEW parent, NEW names, NEW does, NEW soft, IsList(names)
  PROVE  Gives(Each(parent, names, does, soft)) = Below(parent, names)
<1> DEFINE s == Each(parent, names, does, soft)
<1>1. Spread(s, parent, names, does, soft)
  BY EachAt
<1> HIDE DEF s
<1>2. ASSUME NEW i \in 1..Len(names)
      PROVE  s[i].path = Append(parent, names[i])
  <2>1. s[i] = Statement(Append(parent, names[i]), {parent}, does, soft)
    BY <1>1 DEF Spread
  <2> QED
    BY <2>1 DEF Statement
<1>3. Gives(s) = Below(parent, names)
  BY <1>1, <1>2 DEF Spread, Gives, Below
<1> QED
  BY <1>3 DEF s

LEMMA EachRuns ==
  ASSUME NEW B, NEW parent, NEW names, NEW does, NEW soft,
         Len(parent) = 1 \/ parent \in B, IsList(names),
         does = "rewrite" =>
           /\ parent \in Rewritten
           /\ \A i \in 1..Len(names) : Front(Append(parent, names[i])) = parent
  PROVE  Runs(Each(parent, names, does, soft), B)
<1> DEFINE s == Each(parent, names, does, soft)
<1>1. Spread(s, parent, names, does, soft)
  BY EachAt
<1> HIDE DEF s
<1>2. IsList(s) /\ Len(s) = Len(names)
  BY <1>1 DEF Spread
<1>3. ASSUME NEW i \in 1..Len(s)
      PROVE  /\ s[i].path = Append(parent, names[i])
             /\ s[i].needs = {parent} /\ s[i].does = does
  <2>1. s[i] = Statement(Append(parent, names[i]), {parent}, does, soft)
    BY <1>1, <1>2 DEF Spread
  <2> QED
    BY <2>1 DEF Statement
<1>4. Finds(s, B)
  BY <1>3 DEF Finds
<1>5. Careful(s)
  BY <1>2, <1>3 DEF Careful
<1> QED
  BY <1>2, <1>4, <1>5 DEF Runs, s

LEMMA CreateRuns ==
  ASSUME NEW B, NEW parent, NEW names, Len(parent) = 1 \/ parent \in B, IsList(names)
  PROVE  Runs(Create(parent, names), B)
<1> DEFINE d == "create"
           f == FALSE
<1>1. d # "rewrite"
  OBVIOUS
<1> HIDE DEF d, f
<1>2. Runs(Each(parent, names, d, f), B)
  BY <1>1, EachRuns
<1> QED
  BY <1>2 DEF Create, d, f

LEMMA CreateGives ==
  ASSUME NEW parent, NEW names, IsList(names)
  PROVE  Gives(Create(parent, names)) = Below(parent, names)
<1> DEFINE d == "create"
           f == FALSE
<1> HIDE DEF d, f
<1>1. Gives(Each(parent, names, d, f)) = Below(parent, names)
  BY EachGives
<1> QED
  BY <1>1 DEF Create, d, f

\* What fails is only a warning.
LEMMA SoftRuns ==
  ASSUME NEW B, NEW parent, NEW names, Len(parent) = 1 \/ parent \in B, IsList(names)
  PROVE  Runs(Each(parent, names, "create", TRUE), B)
<1> DEFINE d == "create"
           f == TRUE
<1>1. d # "rewrite"
  OBVIOUS
<1> HIDE DEF d, f
<1>2. Runs(Each(parent, names, d, f), B)
  BY <1>1, EachRuns
<1> QED
  BY <1>2 DEF d, f

LEMMA SoftGives ==
  ASSUME NEW parent, NEW names, IsList(names)
  PROVE  Gives(Each(parent, names, "create", TRUE)) = Below(parent, names)
<1> DEFINE d == "create"
           f == TRUE
<1> HIDE DEF d, f
<1>1. Gives(Each(parent, names, d, f)) = Below(parent, names)
  BY EachGives
<1> QED
  BY <1>1 DEF d, f

\* Rows of any list of names.
LEMMA SeedRuns ==
  ASSUME NEW B, NEW parent, NEW names, Len(parent) = 1 \/ parent \in B, IsList(names)
  PROVE  Runs(Each(parent, names, "seed", FALSE), B)
<1> DEFINE d == "seed"
           f == FALSE
<1>1. d # "rewrite"
  OBVIOUS
<1> HIDE DEF d, f
<1>2. Runs(Each(parent, names, d, f), B)
  BY <1>1, EachRuns
<1> QED
  BY <1>2 DEF d, f

\* The numbers of seeded rows.
LEMMA RowNumbers == IsList([n \in 1..SeedRows |-> ToString(n)])
<1>1. SeedRows \in Nat
  BY SetupAssumption
<1> DEFINE N(n) == ToString(n)
           S == {N(n) : n \in 1..SeedRows}
<1> HIDE DEF N
<1>2. [n \in 1..SeedRows |-> N(n)] \in Seq(S)
  BY <1>1
<1> HIDE DEF S
<1>3. [n \in 1..SeedRows |-> ToString(n)] \in Seq(S)
  BY <1>2 DEF N
<1> QED
  BY <1>3 DEF IsList

LEMMA SeedRowsRun ==
  ASSUME NEW B, NEW parent, Len(parent) = 1 \/ parent \in B
  PROVE  Runs(Seed(parent), B)
BY RowNumbers, SeedRuns DEF Seed

\* A list written out.
LEMMA LiteralList ==
  ASSUME NEW n \in Nat, NEW t, t = [i \in 1..n |-> t[i]]
  PROVE  IsList(t) /\ Len(t) = n
<1>1. t \in Seq({t[i] : i \in 1..n}) /\ Len(t) = n
  OBVIOUS
<1> QED
  BY <1>1 DEF IsList

\* A list with one element more.
Longer(q, s, e) ==
  /\ IsList(q) /\ Len(q) = Len(s) + 1
  /\ \A i \in 1..Len(s) : q[i] = s[i]
  /\ q[Len(s) + 1] = e

LEMMA AppendAt ==
  ASSUME NEW s, NEW e, IsList(s)
  PROVE  Longer(Append(s, e), s, e)
<1> DEFINE S == Range(s) \union {e}
<1>1. Len(s) \in Nat /\ s \in Seq(Range(s)) /\ Range(s) \subseteq S /\ e \in S
  BY ListAt
<1> HIDE DEF S
<1>2. s \in Seq(S)
  BY <1>1, SeqMonotonic
<1> DEFINE q == Append(s, e)
<1>3. q \in Seq(S) /\ Len(q) = Len(s) + 1
  BY <1>1, <1>2, AppendProperties
<1>4. (\A i \in 1..Len(s) : q[i] = s[i]) /\ q[Len(s) + 1] = e
  BY <1>1, <1>2, AppendProperties
<1> QED
  BY <1>1, <1>3, <1>4 DEF IsList, Longer

\* Paths of two and three names, written out.
LEMMA ShortPaths ==
  ASSUME NEW a, NEW b, NEW c
  PROVE  /\ Append(<<a>>, b) = <<a, b>> /\ Append(<<a, b>>, c) = <<a, b, c>>
         /\ Len(<<a>>) = 1
<1> DEFINE S == {a, b, c}
<1>1. a \in S /\ b \in S /\ c \in S
  OBVIOUS
<1> HIDE DEF S
<1>2. Append(<<a>>, b) = <<a, b>>
  <2> DEFINE q == Append(<<a>>, b)
  <2>1. q \in Seq(S) /\ Len(q) = 2 /\ q[1] = a /\ q[2] = b
    <3>1. <<a>> \in Seq(S) /\ Len(<<a>>) = 1 /\ <<a>>[1] = a
      BY <1>1
    <3> QED
      BY <1>1, <3>1, AppendProperties
  <2> HIDE DEF q
  <2>2. \A i \in 1..2 : q[i] = <<a, b>>[i]
    <3>1. \A i \in 1..2 : i = 1 \/ i = 2
      OBVIOUS
    <3> QED
      BY <2>1, <3>1
  <2>3. <<a, b>> \in Seq(S) /\ Len(<<a, b>>) = 2
    BY <1>1
  <2>4. q = <<a, b>>
    BY <2>1, <2>2, <2>3, SeqEqual
  <2> QED
    BY <2>4 DEF q
<1>3. Append(<<a, b>>, c) = <<a, b, c>>
  <2> DEFINE q == Append(<<a, b>>, c)
  <2>1. q \in Seq(S) /\ Len(q) = 3 /\ q[1] = a /\ q[2] = b /\ q[3] = c
    <3>1. <<a, b>> \in Seq(S) /\ Len(<<a, b>>) = 2 /\ <<a, b>>[1] = a /\ <<a, b>>[2] = b
      BY <1>1
    <3> QED
      BY <1>1, <3>1, AppendProperties
  <2> HIDE DEF q
  <2>2. \A i \in 1..3 : q[i] = <<a, b, c>>[i]
    <3>1. \A i \in 1..3 : i = 1 \/ i = 2 \/ i = 3
      OBVIOUS
    <3> QED
      BY <2>1, <3>1
  <2>3. <<a, b, c>> \in Seq(S) /\ Len(<<a, b, c>>) = 3
    BY <1>1
  <2>4. q = <<a, b, c>>
    BY <2>1, <2>2, <2>3, SeqEqual
  <2> QED
    BY <2>4 DEF q
<1> QED
  BY <1>2, <1>3

\* What a concatenation creates.
LEMMA GivesConcat ==
  ASSUME NEW s, NEW t, IsList(s), IsList(t)
  PROVE  Gives(s \o t) = Gives(s) \union Gives(t)
<1> DEFINE u == s \o t
<1>1. /\ Len(s) \in Nat /\ Len(t) \in Nat /\ Len(u) = Len(s) + Len(t)
      /\ \A i \in 1..Len(s) : u[i] = s[i]
      /\ \A i \in 1..Len(t) : u[Len(s) + i] = t[i]
  BY ConcatAt
<1> HIDE DEF u
<1>2. \A i \in 1..Len(u) :
        i \in 1..Len(s) \/ (i - Len(s) \in 1..Len(t) /\ Len(s) + (i - Len(s)) = i)
  BY <1>1
<1>3. \A i \in 1..Len(u) :
        \/ i \in 1..Len(s) /\ u[i] = s[i]
        \/ i - Len(s) \in 1..Len(t) /\ u[i] = t[i - Len(s)]
  BY <1>1, <1>2
<1>4. Gives(u) \subseteq Gives(s) \union Gives(t)
  BY <1>3 DEF Gives
<1>5. Gives(s) \subseteq Gives(u)
  <2>1. \A i \in 1..Len(s) : i \in 1..Len(u)
    BY <1>1
  <2> QED
    BY <1>1, <2>1 DEF Gives
<1>6. Gives(t) \subseteq Gives(u)
  <2>1. \A i \in 1..Len(t) : Len(s) + i \in 1..Len(u)
    BY <1>1
  <2> QED
    BY <1>1, <2>1 DEF Gives
<1> QED
  BY <1>4, <1>5, <1>6 DEF u

\* Two lists one after the other, and what is there when both are through.
Follows(u, s, t, B) == Runs(u, B) /\ Gives(s) \subseteq Gives(u) /\ Gives(t) \subseteq Gives(u)

\* A list may rely on what the one before it creates.
LEMMA RunsAfter ==
  ASSUME NEW B, NEW s, NEW t, NEW C, Runs(s, B), Runs(t, C), C \subseteq B \union Gives(s)
  PROVE  Follows(s \o t, s, t, B)
<1>1. Runs(t, B \union Gives(s))
  BY RunsWithMore
<1>2. Runs(s \o t, B)
  BY <1>1, RunsConcat
<1>3. IsList(s) /\ IsList(t)
  BY DEF Runs
<1>4. Gives(s \o t) = Gives(s) \union Gives(t)
  BY <1>3, GivesConcat
<1> QED
  BY <1>2, <1>4 DEF Follows

-----------------------------------------------------------------------------
(* Case 1 *)

\* The constants are lists.
LEMMA Geography ==
  /\ Len(Zones) \in Nat /\ DOMAIN Zones = 1..Len(Zones)
  /\ \A z \in 1..Len(Zones) : IsList(Zones[z].states) /\ Zones[z].states \in Seq(STRING)
  /\ Len(Companies) \in Nat /\ DOMAIN Companies = 1..Len(Companies)
  /\ \A i \in 1..Len(Companies) :
       Companies[i].sharding \in {"zone_state", "zone_only", "state_only"}
  /\ IsList(Brands) /\ IsList(Cities)
<1>1. /\ Len(Zones) \in Nat /\ DOMAIN Zones = 1..Len(Zones)
      /\ \A z \in 1..Len(Zones) : Zones[z] \in [name : STRING, states : Seq(STRING)]
  BY SetupAssumption, LenProperties
<1>2. \A z \in 1..Len(Zones) : Zones[z].states \in Seq(STRING)
  BY <1>1
<1>3. /\ Len(Companies) \in Nat /\ DOMAIN Companies = 1..Len(Companies)
      /\ \A i \in 1..Len(Companies) :
           Companies[i] \in [name : STRING,
                             sharding : {"zone_state", "zone_only", "state_only"}]
  BY SetupAssumption, LenProperties
<1>4. IsList(Brands) /\ IsList(Cities)
  BY SetupAssumption DEF IsList
<1>5. \A z \in 1..Len(Zones) : IsList(Zones[z].states)
  BY <1>2 DEF IsList
<1> QED
  BY <1>1, <1>2, <1>3, <1>4, <1>5

LEMMA StatesAreAList == IsList(States)
<1> DEFINE seqs == [z \in 1..Len(Zones) |-> Zones[z].states]
<1>1. Len(Zones) \in Nat /\ seqs \in [1..Len(Zones) -> Seq(STRING)]
  BY Geography
<1>2. States = FlattenSeq(seqs)
  BY Geography DEF States
<1> HIDE DEF seqs
<1>3. States \in Seq(STRING)
  BY <1>1, <1>2, FlattenInSeq
<1> QED
  BY <1>3 DEF IsList

\* However a company shards, the suffixes of its tables are a list.
LEMMA SuffixList ==
  ASSUME NEW sharding \in {"zone_state", "zone_only", "state_only"}
  PROVE  IsList(ShardSuffixes(sharding))
<1>1. CASE sharding = "zone_state"
  <2> DEFINE pair(z, s) == <<Zones[z].name, Zones[z].states[s]>>
             S == UNION {{pair(z, s) : s \in 1..Len(Zones[z].states)} : z \in 1..Len(Zones)}
             pairs(z) == [s \in 1..Len(Zones[z].states) |-> pair(z, s)]
             seqs == [z \in 1..Len(Zones) |-> pairs(z)]
  <2>1. ASSUME NEW z \in 1..Len(Zones)
        PROVE  /\ DOMAIN Zones[z].states = 1..Len(Zones[z].states)
               /\ Len(Zones[z].states) \in Nat
    BY Geography, ListAt
  <2>2. ShardSuffixes(sharding) =
          FlattenSeq([z \in DOMAIN Zones |->
            [s \in DOMAIN Zones[z].states |-> <<Zones[z].name, Zones[z].states[s]>>]])
    BY <1>1 DEF ShardSuffixes
  <2>3. [z \in DOMAIN Zones |->
            [s \in DOMAIN Zones[z].states |-> <<Zones[z].name, Zones[z].states[s]>>]] = seqs
    BY <2>1, Geography
  <2>4. ASSUME NEW z \in 1..Len(Zones), NEW s \in 1..Len(Zones[z].states)
        PROVE  pair(z, s) \in S
    OBVIOUS
  <2> HIDE DEF pair, S
  <2>5. seqs \in [1..Len(Zones) -> Seq(S)]
    <3>1. ASSUME NEW z \in 1..Len(Zones)
          PROVE  pairs(z) \in Seq(S)
      BY <2>1, <2>4
    <3> HIDE DEF pairs
    <3> QED
      BY <3>1
  <2> HIDE DEF seqs
  <2>6. ShardSuffixes(sharding) \in Seq(S)
    BY <2>2, <2>3, <2>5, Geography, FlattenInSeq
  <2> QED
    BY <2>6 DEF IsList
<1>2. CASE sharding = "zone_only"
  <2> DEFINE s == [z \in 1..Len(Zones) |-> <<Zones[z].name>>]
  <2>1. sharding # "zone_state"
    BY <1>2
  <2>2. ShardSuffixes(sharding) = s
    BY <1>2, <2>1, Geography DEF ShardSuffixes
  <2>3. s = [z \in 1..Len(Zones) |-> s[z]]
    OBVIOUS
  <2> HIDE DEF s
  <2> QED
    BY <2>2, <2>3, Geography, LiteralList
<1>3. CASE sharding = "state_only"
  <2> DEFINE s == [z \in 1..Len(States) |-> <<States[z]>>]
  <2>1. sharding # "zone_state" /\ sharding # "zone_only"
    BY <1>3
  <2>2. Len(States) \in Nat /\ DOMAIN States = 1..Len(States)
    BY StatesAreAList, ListAt
  <2>3. ShardSuffixes(sharding) = s
    BY <1>3, <2>1, <2>2 DEF ShardSuffixes
  <2>4. s = [z \in 1..Len(States) |-> s[z]]
    OBVIOUS
  <2> HIDE DEF s
  <2> QED
    BY <2>2, <2>3, <2>4, LiteralList
<1> QED
  BY <1>1, <1>2, <1>3

\* Split 1 of every table of every shard needs the company's database only.
LEMMA InitialSplitsRun ==
  ASSUME NEW i \in 1..Len(Companies)
  PROVE  Runs(InitialSplits(Companies[i]), {})
<1> DEFINE database == Companies[i].name
           set == ShardSuffixes(Companies[i].sharding)
           r(t, suffix) == Statement(<<database, Five[t]>> \o suffix, {<<database>>}, "create", FALSE)
           one(suffix) == [t \in DOMAIN Five |-> r(t, suffix)]
           seqs == [k \in DOMAIN set |-> one(set[k])]
<1>1. IsList(set)
  BY Geography, SuffixList
<1>2. InitialSplits(Companies[i]) = FlattenSeq(seqs)
  BY DEF InitialSplits, ForEach
<1> HIDE DEF set
<1>3. ASSUME NEW suffix
      PROVE  Runs(one(suffix), {})
  <2> DEFINE s == one(suffix)
             B == {}
  <2>1. ASSUME NEW t
        PROVE  /\ r(t, suffix).needs = {<<database>>} /\ r(t, suffix).does = "create"
               /\ Len(<<database>>) = 1 /\ "create" # "rewrite"
    BY DEF Statement
  <2> HIDE DEF r, B
  <2>2. DOMAIN Five = 1..5 /\ 5 \in Nat
    BY DEF Five
  <2>3. s = [t \in 1..5 |-> s[t]]
    BY <2>2
  <2>4. ASSUME NEW t \in 1..5
        PROVE  s[t] = r(t, suffix)
    BY <2>2
  <2> HIDE DEF s
  <2>5. \A t \in 1..5 : /\ \A x \in s[t].needs : Len(x) = 1 \/ x \in B
                       /\ s[t].does # "rewrite"
    BY <2>1, <2>4
  <2>6. Runs(s, B)
    BY <2>2, <2>3, <2>5, RunsApart
  <2> QED
    BY <2>6 DEF s, B
<1> HIDE DEF one
<1>4. Len(set) \in Nat /\ DOMAIN set = 1..Len(set)
  BY <1>1, ListAt
<1>5. seqs = [k \in 1..Len(set) |-> seqs[k]] /\ \A k \in 1..Len(set) : Runs(seqs[k], {})
  BY <1>3, <1>4
<1> HIDE DEF seqs
<1>6. IsList(seqs) /\ Len(seqs) = Len(set)
  BY <1>4, <1>5, LiteralList
<1> QED
  BY <1>2, <1>4, <1>5, <1>6, RunsFlatten

LEMMA MySQLSchemaRuns == Runs(MySQLSchema, {})
<1> DEFINE one(i) == Connect(Companies[i].name) \o InitialSplits(Companies[i])
           seqs == [i \in DOMAIN Companies |-> one(i)]
<1>1. MySQLSchema = FlattenSeq(seqs)
  BY DEF MySQLSchema, ForEach
<1>2. ASSUME NEW i \in 1..Len(Companies)
      PROVE  Runs(one(i), {})
  BY ConnectRuns, InitialSplitsRun, RunsBoth
<1> HIDE DEF one
<1>3. seqs = [i \in 1..Len(Companies) |-> seqs[i]] /\ \A i \in 1..Len(Companies) : Runs(seqs[i], {})
  BY <1>2, Geography
<1> HIDE DEF seqs
<1>4. IsList(seqs) /\ Len(seqs) = Len(Companies)
  BY <1>3, Geography, LiteralList
<1> QED
  BY <1>1, <1>3, <1>4, Geography, RunsFlatten

\* The tables of case 1 in PostgreSQL.
LEMMA Tables1 ==
  /\ IsList(Five) /\ Len(Five) = 5 /\ Five[1] = "customers"
  /\ IsList(Partitioned) /\ Len(Partitioned) = 6
  /\ \A t \in 1..5 : Partitioned[t] = Five[t]
  /\ IsList(Append(Partitioned, "customer_merge_log"))
  /\ Len(Append(Partitioned, "customer_merge_log")) = 7
  /\ \A t \in 1..6 : Append(Partitioned, "customer_merge_log")[t] = Partitioned[t]
  /\ Append(Partitioned, "customer_merge_log")[7] = "customer_merge_log"
<1>1. Five = [t \in 1..5 |-> Five[t]] /\ Five[1] = "customers" /\ 5 \in Nat
  BY DEF Five
<1>2. IsList(Five) /\ Len(Five) = 5
  BY <1>1, LiteralList
<1> DEFINE six == Append(Five, "network_assignments")
<1> HIDE DEF six
<1>3. IsList(six) /\ Len(six) = 6 /\ \A t \in 1..5 : six[t] = Five[t]
  <2> DEFINE e == "network_assignments"
  <2> HIDE DEF e
  <2>1. Longer(Append(Five, e), Five, e)
    BY <1>2, AppendAt
  <2> QED
    BY <1>2, <2>1 DEF Longer, six, e
<1> DEFINE all == Append(six, "customer_merge_log")
<1>4. /\ IsList(all) /\ Len(all) = 7 /\ \A t \in 1..6 : all[t] = six[t]
      /\ all[7] = "customer_merge_log"
  <2> DEFINE e == "customer_merge_log"
  <2> HIDE DEF e
  <2>1. Longer(Append(six, e), six, e)
    BY <1>3, AppendAt
  <2> QED
    BY <1>3, <2>1 DEF Longer, e
<1> QED
  BY <1>1, <1>2, <1>3, <1>4 DEF Partitioned, six

\* The partitions need the partitioned tables, and nothing but their own zone.
LEMMA PartitionsRun ==
  ASSUME NEW B, \A t \in 1..6 : Append(Curated, Partitioned[t]) \in B
  PROVE  Runs(CreateCuratedPartitions, B)
<1> DEFINE table(t) == Append(Curated, Partitioned[t])
           zone(z, t) == Append(table(t), Zones[z].name)
           one(z, t) == Create(table(t), <<Zones[z].name>>) \o Create(zone(z, t), Zones[z].states)
           ofZone(z) == [t \in DOMAIN Partitioned |-> one(z, t)]
           seqs == [z \in DOMAIN Zones |-> FlattenSeq(ofZone(z))]
<1>1. CreateCuratedPartitions = FlattenSeq(seqs)
  BY DEF CreateCuratedPartitions, ForEach
<1>2. ASSUME NEW z \in 1..Len(Zones), NEW t \in 1..6
      PROVE  Runs(one(z, t), B)
  <2> DEFINE name == Zones[z].name
             first == Create(table(t), <<name>>)
             second == Create(zone(z, t), Zones[z].states)
  <2>1. table(t) \in B
    OBVIOUS
  <2>2. <<name>> = [k \in 1..1 |-> <<name>>[k]] /\ <<name>>[1] = name /\ 1 \in Nat
    OBVIOUS
  <2>3. IsList(<<name>>) /\ Len(<<name>>) = 1
    BY <2>2, LiteralList
  <2> HIDE DEF table, name
  <2>4. Runs(first, B)
    BY <2>1, <2>3, CreateRuns
  <2>5. Gives(first) = Below(table(t), <<name>>)
    BY <2>3, CreateGives
  <2>6. zone(z, t) \in Gives(first)
    <3>1. zone(z, t) = Append(table(t), <<name>>[1])
      BY <2>2 DEF name
    <3>2. 1 \in 1..Len(<<name>>)
      BY <2>3
    <3> HIDE DEF zone
    <3> QED
      BY <2>5, <3>1, <3>2 DEF Below
  <2> HIDE DEF zone
  <2>7. Runs(second, {zone(z, t)})
    BY Geography, CreateRuns
  <2> HIDE DEF first, second
  <2>8. {zone(z, t)} \subseteq B \union Gives(first)
    BY <2>6
  <2>9. Runs(first \o second, B)
    BY <2>4, <2>7, <2>8, RunsAfter DEF Follows
  <2> QED
    BY <2>9 DEF first, second, name
<1> HIDE DEF one
<1>3. ASSUME NEW z \in 1..Len(Zones)
      PROVE  Runs(FlattenSeq(ofZone(z)), B)
  <2> DEFINE s == ofZone(z)
  <2>1. DOMAIN Partitioned = 1..6
    BY Tables1, ListAt
  <2>2. s = [t \in 1..6 |-> s[t]] /\ (\A t \in 1..6 : Runs(s[t], B)) /\ 6 \in Nat
    BY <1>2, <2>1
  <2> HIDE DEF s
  <2>3. IsList(s) /\ Len(s) = 6
    BY <2>2, LiteralList
  <2>4. Runs(FlattenSeq(s), B)
    BY <2>2, <2>3, RunsFlatten
  <2> QED
    BY <2>4 DEF s
<1> HIDE DEF ofZone
<1>4. seqs = [z \in 1..Len(Zones) |-> seqs[z]] /\ \A z \in 1..Len(Zones) : Runs(seqs[z], B)
  BY <1>3, Geography
<1> HIDE DEF seqs
<1>5. IsList(seqs) /\ Len(seqs) = Len(Zones)
  BY <1>4, Geography, LiteralList
<1> QED
  BY <1>1, <1>4, <1>5, Geography, RunsFlatten

\* What one of the statements creates.
LEMMA CreateAt ==
  ASSUME NEW parent, NEW names, IsList(names), NEW i \in 1..Len(names)
  PROVE  Append(parent, names[i]) \in Gives(Create(parent, names))
<1>1. Gives(Create(parent, names)) = Below(parent, names)
  BY CreateGives
<1> QED
  BY <1>1 DEF Below

\* The schemas, and the tables of each of them.
LEMMA SchemasRun ==
  /\ Runs(CreateSchemas, {})
  /\ Append(Dest, "raw") \in Gives(CreateSchemas)
  /\ Append(Dest, "staging") \in Gives(CreateSchemas)
  /\ Append(Dest, "curated") \in Gives(CreateSchemas)
  /\ Append(Dest, "audit") \in Gives(CreateSchemas)
<1> DEFINE names == <<"raw", "staging", "curated", "audit">>
           none == {}
<1>1. /\ names = [i \in 1..4 |-> names[i]] /\ 4 \in Nat
      /\ 1 \in 1..4 /\ 2 \in 1..4 /\ 3 \in 1..4 /\ 4 \in 1..4
  OBVIOUS
<1>2. names[1] = "raw" /\ names[2] = "staging" /\ names[3] = "curated" /\ names[4] = "audit"
  OBVIOUS
<1>3. CreateSchemas = Create(Dest, names) /\ Len(Dest) = 1
  BY DEF CreateSchemas, Dest
<1> HIDE DEF names, none
<1>4. IsList(names) /\ Len(names) = 4
  BY <1>1, LiteralList
<1>5. Runs(CreateSchemas, none)
  BY <1>3, <1>4, CreateRuns
<1>6. \A i \in 1..4 : Append(Dest, names[i]) \in Gives(CreateSchemas)
  BY <1>3, <1>4, CreateAt
<1> QED
  BY <1>1, <1>2, <1>5, <1>6 DEF none

LEMMA RawTablesRun ==
  /\ Runs(CreateRawTables, {Append(Dest, "raw")})
  /\ \A t \in 1..5 : Append(Append(Dest, "raw"), Five[t]) \in Gives(CreateRawTables)
<1> DEFINE parent == Append(Dest, "raw")
           B == {parent}
<1>1. parent \in B /\ CreateRawTables = Create(parent, Five)
  BY DEF CreateRawTables
<1> HIDE DEF parent, B
<1>2. Runs(CreateRawTables, B)
  BY <1>1, Tables1, CreateRuns
<1>3. \A t \in 1..5 : Append(parent, Five[t]) \in Gives(CreateRawTables)
  BY <1>1, Tables1, CreateAt
<1> QED
  BY <1>2, <1>3 DEF parent, B

LEMMA StagingTablesRun ==
  /\ Runs(CreateStagingTables, {Append(Dest, "staging")})
  /\ Append(Append(Dest, "staging"), "customers") \in Gives(CreateStagingTables)
<1> DEFINE parent == Append(Dest, "staging")
           B == {parent}
<1>1. parent \in B /\ CreateStagingTables = Create(parent, Five) /\ 1 \in 1..5
  BY DEF CreateStagingTables
<1> HIDE DEF parent, B
<1>2. Runs(CreateStagingTables, B)
  BY <1>1, Tables1, CreateRuns
<1>3. \A t \in 1..5 : Append(parent, Five[t]) \in Gives(CreateStagingTables)
  BY <1>1, Tables1, CreateAt
<1> QED
  BY <1>1, <1>2, <1>3, Tables1 DEF parent, B

LEMMA CuratedTablesRun ==
  /\ Runs(CreateCuratedTables, {Curated})
  /\ \A t \in 1..6 : Append(Curated, Partitioned[t]) \in Gives(CreateCuratedTables)
  /\ Append(Curated, "customer_merge_log") \in Gives(CreateCuratedTables)
<1> DEFINE all == Append(Partitioned, "customer_merge_log")
           B == {Curated}
<1>1. Curated \in B /\ CreateCuratedTables = Create(Curated, all) /\ 7 \in 1..7
      /\ \A t \in 1..6 : t \in 1..7
  BY DEF CreateCuratedTables
<1>2. /\ IsList(all) /\ Len(all) = 7 /\ \A t \in 1..6 : all[t] = Partitioned[t]
      /\ all[7] = "customer_merge_log"
  BY Tables1
<1> HIDE DEF all, B
<1>3. Runs(CreateCuratedTables, B)
  BY <1>1, <1>2, CreateRuns
<1>4. \A t \in 1..7 : Append(Curated, all[t]) \in Gives(CreateCuratedTables)
  BY <1>1, <1>2, CreateAt
<1> QED
  BY <1>1, <1>2, <1>3, <1>4 DEF B

LEMMA AuditTablesRun ==
  /\ Runs(CreateAuditTables, {Append(Dest, "audit")})
  /\ AuditTrail \in Gives(CreateAuditTables)
<1> DEFINE parent == Append(Dest, "audit")
           names == <<"audit_trail">>
           B == {parent}
<1>1. parent \in B /\ CreateAuditTables = Create(parent, names) /\ 1 \in 1..1
  BY DEF CreateAuditTables
<1>2. names = [i \in 1..1 |-> names[i]] /\ names[1] = "audit_trail" /\ 1 \in Nat
  OBVIOUS
<1>3. AuditTrail = Append(parent, "audit_trail")
  BY ShortPaths DEF AuditTrail, Dest
<1> HIDE DEF parent, names, B
<1>4. IsList(names) /\ Len(names) = 1
  BY <1>2, LiteralList
<1>5. Runs(CreateAuditTables, B)
  BY <1>1, <1>4, CreateRuns
<1>6. Append(parent, names[1]) \in Gives(CreateAuditTables)
  BY <1>1, <1>4, CreateAt
<1> QED
  BY <1>2, <1>3, <1>5, <1>6 DEF parent, B

\* Lists of a few names.
LEMMA FewNames ==
  ASSUME NEW a, NEW b, NEW c
  PROVE  IsList(<<a>>) /\ IsList(<<a, b>>) /\ IsList(<<a, b, c>>)
<1>1. <<a>> \in Seq({a}) /\ <<a, b>> \in Seq({a, b}) /\ <<a, b, c>> \in Seq({a, b, c})
  OBVIOUS
<1> QED
  BY <1>1 DEF IsList

\* The tables that have indexes of their own.
Indexed ==
  {<<"destination", "raw", Five[t]>> : t \in 1..5} \union
  {<<"destination", "staging", "customers">>, AuditTrail,
   Append(Curated, "customer_merge_log")}

LEMMA IndexesRun == Runs(CreateIndexes, Indexed)
<1> DEFINE raw == <<"destination", "raw", "customers">>
           B == Indexed
           one(t) == Create(<<"destination", "raw", t>>, <<"msisdn">>)
           seqs == [i \in DOMAIN Tail(Five) |-> one(Tail(Five)[i])]
           first == Create(raw, <<"msisdn", "source">>)
           second == FlattenSeq(seqs)
           third == Create(<<"destination", "staging", "customers">>, <<"msisdn", "canonical">>)
           fourth == Create(AuditTrail, <<"msisdn", "changed_at", "batch">>)
           fifth == Create(Append(Curated, "customer_merge_log"), <<"msisdn">>)
<1>1. CreateIndexes = first \o second \o third \o fourth \o fifth
  BY DEF CreateIndexes, ForEach
<1>2. \A t \in 1..5 : <<"destination", "raw", Five[t]>> \in B
  BY DEF Indexed
<1>3. <<"destination", "staging", "customers">> \in B /\ AuditTrail \in B
      /\ Append(Curated, "customer_merge_log") \in B
  BY DEF Indexed
<1>4. Five[1] = "customers" /\ 1 \in 1..5
  BY Tables1
<1> HIDE DEF B
<1>5. Runs(first, B)
  <2> DEFINE names == <<"msisdn", "source">>
  <2>1. IsList(names)
    BY FewNames
  <2>2. raw \in B
    BY <1>2, <1>4
  <2> HIDE DEF names, raw
  <2>3. Runs(Create(raw, names), B)
    BY <2>1, <2>2, CreateRuns
  <2> QED
    BY <2>3 DEF names, raw
<1>6. Runs(second, B)
  <2>1. DOMAIN Tail(Five) = 1..4 /\ 4 \in Nat
    BY DEF Five
  <2>2. \A i \in 1..4 : \E t \in 1..5 : Tail(Five)[i] = Five[t]
    <3>1. \A i \in 1..4 : i + 1 \in 1..5 /\ Tail(Five)[i] = Five[i + 1]
      BY DEF Five
    <3> QED
      BY <3>1
  <2>3. ASSUME NEW i \in 1..4
        PROVE  Runs(one(Tail(Five)[i]), B)
    <3> DEFINE path == <<"destination", "raw", Tail(Five)[i]>>
               names == <<"msisdn">>
    <3>1. path \in B
      BY <1>2, <2>2
    <3>2. IsList(names)
      BY FewNames
    <3> HIDE DEF path, names
    <3>3. Runs(Create(path, names), B)
      BY <3>1, <3>2, CreateRuns
    <3> QED
      BY <3>3 DEF path, names
  <2> HIDE DEF one
  <2>4. seqs = [i \in 1..4 |-> seqs[i]] /\ \A i \in 1..4 : Runs(seqs[i], B)
    BY <2>1, <2>3
  <2> HIDE DEF seqs
  <2>5. IsList(seqs) /\ Len(seqs) = 4
    BY <2>1, <2>4, LiteralList
  <2> QED
    BY <2>1, <2>4, <2>5, RunsFlatten
<1>7. Runs(third, B)
  <2> DEFINE names == <<"msisdn", "canonical">>
             path == <<"destination", "staging", "customers">>
  <2>1. IsList(names) /\ path \in B
    BY <1>3, FewNames
  <2> HIDE DEF names, path
  <2>2. Runs(Create(path, names), B)
    BY <2>1, CreateRuns
  <2> QED
    BY <2>2 DEF names, path
<1>8. Runs(fourth, B)
  <2> DEFINE names == <<"msisdn", "changed_at", "batch">>
  <2>1. IsList(names)
    BY FewNames
  <2> HIDE DEF names
  <2>2. Runs(Create(AuditTrail, names), B)
    BY <1>3, <2>1, CreateRuns
  <2> QED
    BY <2>2 DEF names
<1>9. Runs(fifth, B)
  <2> DEFINE names == <<"msisdn">>
             path == Append(Curated, "customer_merge_log")
  <2>1. IsList(names) /\ path \in B
    BY <1>3, FewNames
  <2> HIDE DEF names, path
  <2>2. Runs(Create(path, names), B)
    BY <2>1, CreateRuns
  <2> QED
    BY <2>2 DEF names, path
<1> HIDE DEF first, second, third, fourth, fifth
<1>10. Runs(first \o second, B)
  BY <1>5, <1>6, RunsBoth
<1>11. Runs(first \o second \o third, B)
  BY <1>7, <1>10, RunsBoth
<1>12. Runs(first \o second \o third \o fourth, B)
  BY <1>8, <1>11, RunsBoth
<1>13. Runs(first \o second \o third \o fourth \o fifth, B)
  BY <1>9, <1>12, RunsBoth
<1> QED
  BY <1>1, <1>13 DEF B

\* Each program of postgres_schema finds what the ones before it have created.
LEMMA PostgresSchemaRuns == Runs(PostgresSchema, {})
<1> DEFINE none == {}
           s1 == Connect("destination")
           s2 == s1 \o CreateSchemas
           s3 == s2 \o CreateRawTables
           s4 == s3 \o CreateStagingTables
           s5 == s4 \o CreateCuratedTables
           s6 == s5 \o CreateCuratedPartitions
           s7 == s6 \o CreateAuditTables
           s8 == s7 \o CreateIndexes
<1>1. PostgresSchema = s8
  BY DEF PostgresSchema
<1>2. Runs(s1, none)
  BY ConnectRuns
<1>3. /\ Runs(CreateSchemas, none)
      /\ Runs(CreateRawTables, {Append(Dest, "raw")})
      /\ Runs(CreateStagingTables, {Append(Dest, "staging")})
      /\ Runs(CreateCuratedTables, {Curated})
      /\ Runs(CreateAuditTables, {Append(Dest, "audit")})
  BY SchemasRun, RawTablesRun, StagingTablesRun, CuratedTablesRun, AuditTablesRun
<1> DEFINE Split == {Append(Curated, Partitioned[t]) : t \in 1..6}
<1>4. Runs(CreateCuratedPartitions, Split)
  <2>1. \A t \in 1..6 : Append(Curated, Partitioned[t]) \in Split
    OBVIOUS
  <2> HIDE DEF Split
  <2> QED
    BY <2>1, PartitionsRun
<1> HIDE DEF none, s1, Split
<1>5. Follows(s2, s1, CreateSchemas, none)
  <2>1. none \subseteq none \union Gives(s1)
    OBVIOUS
  <2> QED
    BY <1>2, <1>3, <2>1, RunsAfter
<1> HIDE DEF s2
<1>6. {Append(Dest, "raw"), Append(Dest, "staging"), Curated, Append(Dest, "audit")}
        \subseteq Gives(s2)
  BY <1>5, SchemasRun DEF Follows, Curated
<1>7. Follows(s3, s2, CreateRawTables, none)
  <2>1. {Append(Dest, "raw")} \subseteq none \union Gives(s2) /\ Runs(s2, none)
    BY <1>5, <1>6 DEF Follows
  <2> QED
    BY <1>3, <2>1, RunsAfter
<1> HIDE DEF s3
<1>8. Follows(s4, s3, CreateStagingTables, none)
  <2>1. {Append(Dest, "staging")} \subseteq none \union Gives(s3) /\ Runs(s3, none)
    BY <1>6, <1>7 DEF Follows
  <2> QED
    BY <1>3, <2>1, RunsAfter
<1> HIDE DEF s4
<1>9. Gives(s2) \subseteq Gives(s4)
  BY <1>7, <1>8 DEF Follows
<1>10. Follows(s5, s4, CreateCuratedTables, none)
  <2>1. {Curated} \subseteq none \union Gives(s4) /\ Runs(s4, none)
    BY <1>6, <1>8, <1>9 DEF Follows
  <2> QED
    BY <1>3, <2>1, RunsAfter
<1> HIDE DEF s5
<1>11. Follows(s6, s5, CreateCuratedPartitions, none)
  <2>1. Runs(s5, none) /\ Gives(CreateCuratedTables) \subseteq Gives(s5)
    BY <1>10 DEF Follows
  <2>2. Split \subseteq none \union Gives(s5)
    BY <2>1, CuratedTablesRun DEF Split
  <2> QED
    BY <1>4, <2>1, <2>2, RunsAfter
<1> HIDE DEF s6
<1>12. Gives(s4) \subseteq Gives(s6) /\ Gives(CreateCuratedTables) \subseteq Gives(s6)
  BY <1>10, <1>11 DEF Follows
<1>13. Follows(s7, s6, CreateAuditTables, none)
  <2>1. {Append(Dest, "audit")} \subseteq none \union Gives(s6) /\ Runs(s6, none)
    BY <1>6, <1>9, <1>11, <1>12 DEF Follows
  <2> QED
    BY <1>3, <2>1, RunsAfter
<1> HIDE DEF s7
<1>14. /\ Gives(CreateRawTables) \subseteq Gives(s7)
       /\ Gives(CreateStagingTables) \subseteq Gives(s7)
       /\ Gives(CreateCuratedTables) \subseteq Gives(s7)
       /\ Gives(CreateAuditTables) \subseteq Gives(s7)
  BY <1>7, <1>8, <1>12, <1>13 DEF Follows
<1>15. Follows(s8, s7, CreateIndexes, none)
  <2>1. \A t \in 1..5 : <<"destination", "raw", Five[t]>> \in Gives(s7)
    <3>1. ASSUME NEW t \in 1..5
          PROVE  Append(Append(Dest, "raw"), Five[t]) = <<"destination", "raw", Five[t]>>
      BY ShortPaths DEF Dest
    <3> QED
      BY <1>14, <3>1, RawTablesRun
  <2>2. Append(Append(Dest, "staging"), "customers") = <<"destination", "staging", "customers">>
    BY ShortPaths DEF Dest
  <2>3. Indexed \subseteq Gives(s7)
    BY <1>14, <2>1, <2>2, StagingTablesRun, CuratedTablesRun, AuditTablesRun DEF Indexed
  <2>4. Indexed \subseteq none \union Gives(s7) /\ Runs(s7, none)
    BY <1>13, <2>3 DEF Follows
  <2> QED
    BY <2>4, IndexesRun, RunsAfter
<1> QED
  BY <1>1, <1>15 DEF Follows, none

\* Things created on a server, once it answers.
LEMMA ServerRuns ==
  ASSUME NEW B, NEW server, NEW names, IsList(names)
  PROVE  Runs(Connect(server) \o Create(<<server>>, names), B)
<1> DEFINE path == <<server>>
<1>1. Len(path) = 1
  OBVIOUS
<1> HIDE DEF path
<1>2. Runs(Create(path, names), B)
  BY <1>1, CreateRuns
<1>3. Runs(Create(<<server>>, names), B)
  BY <1>2 DEF path
<1> QED
  BY <1>3, ConnectRuns, RunsBoth

\* The tables of AuxDB, and the rows of some of them.
LEMMA AuxRuns ==
  ASSUME NEW names, IsList(names), NEW rows, NEW C,
         Runs(rows, C), C \subseteq {AuxTable(names[i]) : i \in 1..Len(names)}
  PROVE  Runs(Connect("auxdb") \o Create(Aux, names) \o rows, {})
<1> DEFINE server == "auxdb"
           none == {}
           first == Connect(server)
           second == Create(Aux, names)
<1>1. Len(Aux) = 1
  BY DEF Aux
<1>2. Runs(first, none)
  BY ConnectRuns
<1>3. Runs(second, none)
  BY <1>1, CreateRuns
<1>4. \A i \in 1..Len(names) : AuxTable(names[i]) \in Gives(second)
  BY CreateAt DEF AuxTable
<1> HIDE DEF server, none, first, second
<1>5. Follows(first \o second, first, second, none)
  <2>1. none \subseteq none \union Gives(first)
    OBVIOUS
  <2> QED
    BY <1>2, <1>3, <2>1, RunsAfter
<1>6. Follows(first \o second \o rows, first \o second, rows, none)
  <2>1. C \subseteq none \union Gives(first \o second) /\ Runs(first \o second, none)
    BY <1>4, <1>5 DEF Follows
  <2> QED
    BY <2>1, RunsAfter
<1> QED
  BY <1>6 DEF Follows, server, none, first, second

LEMMA AuxDB1Runs == Runs(AuxDB1, {})
<1> DEFINE names == <<"pgcrypto", "pipeline_checkpoints", "backlog_records",
                      "dedup_registry", "plan_mapping", "terminate_rules",
                      "write_tune_config", "reconciliation_log", "audit_trail",
                      "customer_merge_log">>
           C == {AuxTable("plan_mapping"), AuxTable("terminate_rules"),
                 AuxTable("write_tune_config")}
           global == <<"global">>
           tuned == Each(AuxTable("write_tune_config"), global, "seed", FALSE)
<1>1. names = [i \in 1..10 |-> names[i]] /\ 10 \in Nat
  OBVIOUS
<1>2. /\ names[5] = "plan_mapping" /\ names[6] = "terminate_rules"
      /\ names[7] = "write_tune_config"
      /\ 5 \in 1..10 /\ 6 \in 1..10 /\ 7 \in 1..10
  OBVIOUS
<1>3. AuxTables1 = Create(Aux, names)
      /\ AuxSeeds1 = Seed(AuxTable("plan_mapping")) \o Seed(AuxTable("terminate_rules")) \o tuned
  BY DEF AuxTables1, AuxSeeds1
<1>4. IsList(global)
  BY FewNames
<1> HIDE DEF names, global
<1>5. IsList(names) /\ Len(names) = 10
  BY <1>1, LiteralList
<1>6. C \subseteq {AuxTable(names[i]) : i \in 1..Len(names)}
  BY <1>2, <1>5
<1>7. /\ AuxTable("plan_mapping") \in C /\ AuxTable("terminate_rules") \in C
      /\ AuxTable("write_tune_config") \in C
  OBVIOUS
<1> HIDE DEF C
<1>8. Runs(Seed(AuxTable("plan_mapping")), C) /\ Runs(Seed(AuxTable("terminate_rules")), C)
  BY <1>7, SeedRowsRun
<1>9. Runs(tuned, C)
  BY <1>4, <1>7, SeedRuns
<1> HIDE DEF tuned
<1>10. Runs(Seed(AuxTable("plan_mapping")) \o Seed(AuxTable("terminate_rules")), C)
  BY <1>8, RunsBoth
<1>11. Runs(AuxSeeds1, C)
  BY <1>3, <1>9, <1>10, RunsBoth
<1>12. Runs(Connect("auxdb") \o Create(Aux, names) \o AuxSeeds1, {})
  BY <1>5, <1>6, <1>11, AuxRuns
<1> QED
  BY <1>3, <1>12 DEF AuxDB1

-----------------------------------------------------------------------------
(* Case 2 *)

\* The tables of all cities of a brand need the brand's database only.
LEMMA PgSchemaRuns == Runs(PgSchema, {})
<1> DEFINE none == {}
           r(brand, t, city) ==
             Statement(<<brand, Orders[t], city>>, {<<brand>>}, "create", FALSE)
           tables(brand, city) == [t \in DOMAIN Orders |-> r(brand, t, city)]
           cities(brand) == [k \in DOMAIN Cities |-> tables(brand, Cities[k])]
           one(brand) == Connect(brand) \o FlattenSeq(cities(brand))
           seqs == [i \in DOMAIN Brands |-> one(Brands[i])]
<1>1. PgSchema = FlattenSeq(seqs)
  BY DEF PgSchema, ForEach
<1>2. /\ Len(Brands) \in Nat /\ DOMAIN Brands = 1..Len(Brands)
      /\ Len(Cities) \in Nat /\ DOMAIN Cities = 1..Len(Cities)
  BY Geography, ListAt
<1> HIDE DEF none
<1>3. ASSUME NEW brand, NEW city
      PROVE  Runs(tables(brand, city), none)
  <2> DEFINE s == tables(brand, city)
  <2>1. ASSUME NEW t
        PROVE  /\ r(brand, t, city).needs = {<<brand>>} /\ r(brand, t, city).does = "create"
               /\ Len(<<brand>>) = 1 /\ "create" # "rewrite"
    BY DEF Statement
  <2> HIDE DEF r
  <2>2. DOMAIN Orders = 1..4 /\ 4 \in Nat
    BY DEF Orders
  <2>3. s = [t \in 1..4 |-> s[t]]
    BY <2>2
  <2>4. ASSUME NEW t \in 1..4
        PROVE  s[t] = r(brand, t, city)
    BY <2>2
  <2> HIDE DEF s
  <2>5. \A t \in 1..4 : /\ \A x \in s[t].needs : Len(x) = 1 \/ x \in none
                       /\ s[t].does # "rewrite"
    BY <2>1, <2>4
  <2>6. Runs(s, none)
    BY <2>2, <2>3, <2>5, RunsApart
  <2> QED
    BY <2>6 DEF s
<1> HIDE DEF tables
<1>4. ASSUME NEW brand
      PROVE  Runs(one(brand), none)
  <2> DEFINE s == cities(brand)
  <2>1. s = [k \in 1..Len(Cities) |-> s[k]] /\ \A k \in 1..Len(Cities) : Runs(s[k], none)
    BY <1>2, <1>3
  <2> HIDE DEF s
  <2>2. IsList(s) /\ Len(s) = Len(Cities)
    BY <1>2, <2>1, LiteralList
  <2>3. Runs(FlattenSeq(s), none)
    BY <1>2, <2>1, <2>2, RunsFlatten
  <2>4. Runs(Connect(brand) \o FlattenSeq(s), none)
    BY <2>3, ConnectRuns, RunsBoth
  <2> QED
    BY <2>4 DEF s
<1> HIDE DEF one
<1>5. seqs = [i \in 1..Len(Brands) |-> seqs[i]] /\ \A i \in 1..Len(Brands) : Runs(seqs[i], none)
  BY <1>2, <1>4
<1> HIDE DEF seqs
<1>6. IsList(seqs) /\ Len(seqs) = Len(Brands)
  BY <1>2, <1>5, LiteralList
<1>7. Runs(FlattenSeq(seqs), none)
  BY <1>2, <1>5, <1>6, RunsFlatten
<1> QED
  BY <1>1, <1>7 DEF none

LEMMA EsSchemaRuns ==
  ASSUME NEW index
  PROVE  Runs(EsSchema(index), {})
<1> DEFINE server == "elasticsearch"
           names == <<index>>
           none == {}
<1>1. IsList(names)
  BY FewNames
<1>2. EsSchema(index) = Connect(server) \o Create(<<server>>, names)
  BY DEF EsSchema
<1> HIDE DEF server, names, none
<1>3. Runs(EsSchema(index), none)
  BY <1>1, <1>2, ServerRuns
<1> QED
  BY <1>3 DEF none

LEMMA AuxDB2Runs ==
  /\ Runs(AuxDB2, {})
  /\ AuxTable("wal_positions") \in Gives(AuxDB2)
<1> DEFINE names == <<"pipeline_checkpoints", "backlog_records", "wal_positions",
                      "backfill_progress", "city_mapping", "brand_sla_rules",
                      "terminate_rules", "write_tune_config", "es_write_log",
                      "backfill_completion_log">>
           C == {AuxTable("city_mapping"), AuxTable("brand_sla_rules"),
                 AuxTable("terminate_rules"), AuxTable("write_tune_config")}
           global == <<"global">>
           tuned == Each(AuxTable("write_tune_config"), global, "seed", FALSE)
           mapped == Seed(AuxTable("city_mapping"))
           ruled == Seed(AuxTable("brand_sla_rules"))
           ended == Seed(AuxTable("terminate_rules"))
<1>1. names = [i \in 1..10 |-> names[i]] /\ 10 \in Nat
  OBVIOUS
<1>2. /\ names[3] = "wal_positions" /\ names[5] = "city_mapping"
      /\ names[6] = "brand_sla_rules" /\ names[7] = "terminate_rules"
      /\ names[8] = "write_tune_config"
      /\ 3 \in 1..10 /\ 5 \in 1..10 /\ 6 \in 1..10 /\ 7 \in 1..10 /\ 8 \in 1..10
  OBVIOUS
<1>3. AuxTables2 = Create(Aux, names) /\ AuxSeeds2 = mapped \o ruled \o ended \o tuned
  BY DEF AuxTables2, AuxSeeds2
<1>4. IsList(global)
  BY FewNames
<1> HIDE DEF names, global
<1>5. IsList(names) /\ Len(names) = 10
  BY <1>1, LiteralList
<1>6. C \subseteq {AuxTable(names[i]) : i \in 1..Len(names)}
  BY <1>2, <1>5
<1>7. /\ AuxTable("city_mapping") \in C /\ AuxTable("brand_sla_rules") \in C
      /\ AuxTable("terminate_rules") \in C /\ AuxTable("write_tune_config") \in C
  OBVIOUS
<1> HIDE DEF C
<1>8. Runs(mapped, C) /\ Runs(ruled, C) /\ Runs(ended, C)
  BY <1>7, SeedRowsRun
<1>9. Runs(tuned, C)
  BY <1>4, <1>7, SeedRuns
<1> HIDE DEF mapped, ruled, ended, tuned
<1>10. Runs(mapped \o ruled, C)
  BY <1>8, RunsBoth
<1>11. Runs(mapped \o ruled \o ended, C)
  BY <1>8, <1>10, RunsBoth
<1>12. Runs(AuxSeeds2, C)
  BY <1>3, <1>9, <1>11, RunsBoth
<1>13. Runs(Connect("auxdb") \o Create(Aux, names) \o AuxSeeds2, {})
  BY <1>5, <1>6, <1>12, AuxRuns
<1>14. AuxTable("wal_positions") \in Gives(Create(Aux, names))
  BY <1>2, <1>5, CreateAt DEF AuxTable
<1>15. Gives(Create(Aux, names)) \subseteq Gives(Connect("auxdb") \o Create(Aux, names) \o AuxSeeds2)
  <2>1. IsList(Connect("auxdb"))
    BY ConnectRuns DEF Runs
  <2>2. IsList(Create(Aux, names))
    <3>1. Len(Aux) = 1
      BY DEF Aux
    <3> QED
      BY <1>5, <3>1, CreateRuns DEF Runs
  <2>3. IsList(Connect("auxdb") \o Create(Aux, names)) /\ IsList(AuxSeeds2)
    BY <1>12, <2>1, <2>2, ConcatAt DEF Runs
  <2> QED
    BY <2>1, <2>2, <2>3, GivesConcat
<1> QED
  BY <1>3, <1>13, <1>14, <1>15 DEF AuxDB2

\* A path without its last name.
LEMMA FrontOfShort ==
  ASSUME NEW a, NEW b, NEW c
  PROVE  Front(Append(<<a, b>>, c)) = <<a, b>>
<1> DEFINE S == {a, b, c}
           q == <<a, b, c>>
<1>1. /\ q \in Seq(S) /\ Len(q) = 3 /\ q[1] = a /\ q[2] = b
      /\ <<a, b>> \in Seq(S) /\ Len(<<a, b>>) = 2
  OBVIOUS
<1> HIDE DEF S, q
<1> DEFINE u == SubSeq(q, 1, 2)
           v == <<a, b>>
<1>2. Front(q) = u
  BY <1>1 DEF Front
<1>3. u \in Seq(S) /\ Len(u) = 2 /\ \A i \in 1..2 : u[i] = q[i]
  BY <1>1
<1>4. \A i \in 1..2 : q[i] = v[i]
  <2>1. \A i \in 1..2 : i = 1 \/ i = 2
    OBVIOUS
  <2> QED
    BY <1>1, <2>1
<1> HIDE DEF u, v
<1>5. u = v
  BY <1>1, <1>3, <1>4, SeqEqual DEF v
<1> QED
  BY <1>2, <1>5, ShortPaths DEF q, v

\* The bookmarks are written again, and nothing else is.
LEMMA WalEnablerRuns == Runs(WalEnabler, {AuxTable("wal_positions")})
<1> DEFINE parent == AuxTable("wal_positions")
           B == {parent}
           d == "rewrite"
           f == TRUE
<1>1. parent = <<"auxdb", "wal_positions">>
  BY ShortPaths DEF AuxTable, Aux
<1>2. parent \in Rewritten /\ parent \in B
  BY <1>1 DEF Rewritten
<1>3. \A i \in 1..Len(Brands) : Front(Append(parent, Brands[i])) = parent
  BY <1>1, FrontOfShort
<1>4. WalEnabler = Connect("auxdb") \o Each(parent, Brands, d, f)
  BY DEF WalEnabler
<1> HIDE DEF parent, B, d, f
<1>5. Runs(Each(parent, Brands, d, f), B)
  BY <1>2, <1>3, Geography, EachRuns
<1>6. Runs(WalEnabler, B)
  BY <1>4, <1>5, ConnectRuns, RunsBoth
<1> QED
  BY <1>6 DEF parent, B

-----------------------------------------------------------------------------
(* Cases 3 to 7 *)

LEMMA AuxDB3Runs == Runs(AuxDB3, {})
<1> DEFINE names == <<"pipeline_checkpoints", "pipeline_backlog", "terminate_rules",
                      "write_tune_config", "pipeline_run_log">>
           tables == <<"terminate_rules", "write_tune_config">>
           modes == <<"backfill", "daily", "realtime">>
           C == {AuxTable("terminate_rules"), AuxTable("write_tune_config")}
           one(t) == Each(AuxTable(t), modes, "seed", FALSE)
           seqs == [i \in DOMAIN tables |-> one(tables[i])]
           rows == FlattenSeq(seqs)
<1>1. names = [i \in 1..5 |-> names[i]] /\ 5 \in Nat
  OBVIOUS
<1>2. names[3] = "terminate_rules" /\ names[4] = "write_tune_config"
      /\ 3 \in 1..5 /\ 4 \in 1..5
  OBVIOUS
<1>3. AuxDB3 = Connect("auxdb") \o Create(Aux, names) \o rows
  BY DEF AuxDB3, ForEach
<1>4. IsList(modes)
  BY FewNames
<1>5. DOMAIN tables = 1..2 /\ 2 \in Nat /\ \A i \in 1..2 : AuxTable(tables[i]) \in C
  <2>1. \A i \in 1..2 : tables[i] = "terminate_rules" \/ tables[i] = "write_tune_config"
    OBVIOUS
  <2> QED
    BY <2>1
<1> HIDE DEF names, tables, modes
<1>6. IsList(names) /\ Len(names) = 5
  BY <1>1, LiteralList
<1>7. C \subseteq {AuxTable(names[i]) : i \in 1..Len(names)}
  BY <1>2, <1>6
<1> HIDE DEF C
<1>8. ASSUME NEW i \in 1..2
      PROVE  Runs(one(tables[i]), C)
  BY <1>4, <1>5, SeedRuns
<1> HIDE DEF one
<1>9. seqs = [i \in 1..2 |-> seqs[i]] /\ \A i \in 1..2 : Runs(seqs[i], C)
  BY <1>5, <1>8
<1> HIDE DEF seqs
<1>10. IsList(seqs) /\ Len(seqs) = 2
  BY <1>5, <1>9, LiteralList
<1>11. Runs(rows, C)
  BY <1>5, <1>9, <1>10, RunsFlatten
<1> HIDE DEF rows
<1>12. Runs(Connect("auxdb") \o Create(Aux, names) \o rows, {})
  BY <1>6, <1>7, <1>11, AuxRuns
<1> QED
  BY <1>3, <1>12

\* A single statement.
LEMMA OneRuns ==
  ASSUME NEW r, NEW B, \A x \in r.needs : Len(x) = 1 \/ x \in B, r.does # "rewrite"
  PROVE  Runs(<<r>>, B)
<1> DEFINE s == <<r>>
<1>1. s = [i \in 1..1 |-> s[i]] /\ (\A i \in 1..1 : s[i] = r) /\ 1 \in Nat
  OBVIOUS
<1> HIDE DEF s
<1>2. \A i \in 1..1 : (\A x \in s[i].needs : Len(x) = 1 \/ x \in B) /\ s[i].does # "rewrite"
  BY <1>1
<1>3. Runs(s, B)
  BY <1>1, <1>2, RunsApart
<1> QED
  BY <1>3 DEF s

LEMMA OneGives ==
  ASSUME NEW r
  PROVE  Gives(<<r>>) = {r.path}
<1>1. Len(<<r>>) = 1 /\ <<r>>[1] = r /\ \A i \in 1..1 : i = 1
  OBVIOUS
<1> QED
  BY <1>1 DEF Gives

\* The login and the user of the warehouse come after the database.
LEMMA MasterRuns == Runs(MasterDDL, {}) /\ Warehouse \in Gives(MasterDDL)
<1> DEFINE login == <<"mssql", "login">>
           user == Append(Warehouse, "etl_writer")
           owner == Append(Warehouse, "db_owner")
           server == <<"mssql">>
           r1 == Statement(Warehouse, {server}, "create", TRUE)
           r2 == Statement(login, {server}, "create", TRUE)
           r3 == Statement(user, {Warehouse, login}, "create", TRUE)
           r4 == Statement(owner, {user}, "create", TRUE)
           s == <<r1, r2, r3, r4>>
<1>1. MasterDDL = s
  BY DEF MasterDDL
<1>2. Len(server) = 1 /\ "create" # "rewrite"
  OBVIOUS
<1> HIDE DEF login, user, owner, server
<1>3. /\ r1.path = Warehouse /\ r1.needs = {server} /\ r1.does = "create"
      /\ r2.path = login /\ r2.needs = {server} /\ r2.does = "create"
      /\ r3.path = user /\ r3.needs = {Warehouse, login} /\ r3.does = "create"
      /\ r4.path = owner /\ r4.needs = {user} /\ r4.does = "create"
  BY DEF Statement
<1> HIDE DEF r1, r2, r3, r4
<1>4. s[1] = r1 /\ s[2] = r2 /\ s[3] = r3 /\ s[4] = r4
      /\ s = [i \in 1..4 |-> s[i]] /\ 4 \in Nat
  OBVIOUS
<1> HIDE DEF s
<1>5. IsList(s) /\ Len(s) = 4
  BY <1>4, LiteralList
<1>6. \A i \in 1..4 : i = 1 \/ i = 2 \/ i = 3 \/ i = 4
  OBVIOUS
<1>7. Careful(s)
  BY <1>2, <1>3, <1>4, <1>5, <1>6 DEF Careful
<1>8. ASSUME NEW i \in 1..4, NEW x \in s[i].needs
      PROVE  Len(x) = 1 \/ \E j \in 1..i - 1 : x = s[j].path
  <2>1. CASE i = 1 \/ i = 2
    BY <1>2, <1>3, <1>4, <2>1
  <2>2. CASE i = 3
    <3>1. x = s[1].path \/ x = s[2].path
      BY <1>3, <1>4, <2>2
    <3>2. 1 \in 1..i - 1 /\ 2 \in 1..i - 1
      BY <2>2
    <3> QED
      BY <3>1, <3>2
  <2>3. CASE i = 4
    <3>1. x = s[3].path
      BY <1>3, <1>4, <2>3
    <3>2. 3 \in 1..i - 1
      BY <2>3
    <3> QED
      BY <3>1, <3>2
  <2> QED
    BY <1>6, <2>1, <2>2, <2>3
<1>9. Finds(s, {})
  BY <1>5, <1>8 DEF Finds
<1>10. Warehouse \in Gives(s)
  BY <1>3, <1>4, <1>5 DEF Gives
<1> QED
  BY <1>1, <1>5, <1>7, <1>9, <1>10 DEF Runs

\* Tables and schemas before what is created in them.
LEMMA SchemaDDLRuns == Runs(SchemaDDL, {Warehouse})
<1> DEFINE B == {Warehouse}
           Soft(parent, names) == Each(parent, names, "create", TRUE)
           stage == Append(Warehouse, "stage")
           sessions == Append(Warehouse, "dbo.ga4_sessions")
           realtime == Append(Warehouse, "dbo.realtime_sessions")
           n1 == <<"stage", "dbo.ga4_sessions">>
           n2 == <<"ga4_sessions">>
           n3 == <<"dbo.realtime_sessions", "dbo.pipeline_run_log">>
           n4 == <<"date_property", "attribution", "columnstore">>
           n5 == <<"snapshot">>
           s1 == Soft(Warehouse, n1)
           s2 == s1 \o Soft(stage, n2)
           s3 == s2 \o Soft(Warehouse, n3)
           s4 == s3 \o Soft(sessions, n4)
           s5 == s4 \o Soft(realtime, n5)
<1>1. SchemaDDL = s5
  BY DEF SchemaDDL
<1>2. IsList(n1) /\ IsList(n2) /\ IsList(n3) /\ IsList(n4) /\ IsList(n5)
  BY FewNames
<1>3. /\ n1[1] = "stage" /\ n1[2] = "dbo.ga4_sessions" /\ n3[1] = "dbo.realtime_sessions"
      /\ Len(n1) = 2 /\ Len(n3) = 2 /\ 1 \in 1..2 /\ 2 \in 1..2
  OBVIOUS
<1>4. Warehouse \in B
  OBVIOUS
<1> HIDE DEF B, n1, n2, n3, n4, n5
<1>5. stage \in Below(Warehouse, n1) /\ sessions \in Below(Warehouse, n1)
      /\ realtime \in Below(Warehouse, n3)
  BY <1>3 DEF Below
<1> HIDE DEF stage, sessions, realtime
<1>6. Runs(s1, B) /\ Runs(Soft(Warehouse, n3), B)
  BY <1>2, <1>4, SoftRuns
<1>7. Gives(s1) = Below(Warehouse, n1) /\ Gives(Soft(Warehouse, n3)) = Below(Warehouse, n3)
  BY <1>2, SoftGives
<1>8. ASSUME NEW path, NEW names, IsList(names)
      PROVE  Runs(Soft(path, names), {path})
  <2> DEFINE C == {path}
  <2>1. path \in C
    OBVIOUS
  <2> HIDE DEF C
  <2>2. Runs(Soft(path, names), C)
    BY <1>8, <2>1, SoftRuns
  <2> QED
    BY <2>2 DEF C
<1> HIDE DEF Soft, s1
<1>9. Follows(s2, s1, Soft(stage, n2), B)
  <2>1. {stage} \subseteq B \union Gives(s1) /\ Runs(Soft(stage, n2), {stage})
    BY <1>2, <1>5, <1>7, <1>8
  <2> QED
    BY <1>6, <2>1, RunsAfter
<1> HIDE DEF s2
<1>10. Follows(s3, s2, Soft(Warehouse, n3), B)
  <2>1. B \subseteq B \union Gives(s2) /\ Runs(s2, B)
    BY <1>9 DEF Follows
  <2> QED
    BY <1>6, <2>1, RunsAfter
<1> HIDE DEF s3
<1>11. Follows(s4, s3, Soft(sessions, n4), B)
  <2>1. {sessions} \subseteq B \union Gives(s3) /\ Runs(s3, B)
    BY <1>5, <1>7, <1>9, <1>10 DEF Follows
  <2>2. Runs(Soft(sessions, n4), {sessions})
    BY <1>2, <1>8
  <2> QED
    BY <2>1, <2>2, RunsAfter
<1> HIDE DEF s4
<1>12. Follows(s5, s4, Soft(realtime, n5), B)
  <2>1. {realtime} \subseteq B \union Gives(s4) /\ Runs(s4, B)
    BY <1>5, <1>7, <1>10, <1>11 DEF Follows
  <2>2. Runs(Soft(realtime, n5), {realtime})
    BY <1>2, <1>8
  <2> QED
    BY <2>1, <2>2, RunsAfter
<1> QED
  BY <1>1, <1>12 DEF Follows, B

\* Between the two, the warehouse has to answer.
LEMMA MSSQLSchemaRuns == Runs(MSSQLSchema, {})
<1> DEFINE none == {}
           r == Statement(Warehouse, {Warehouse}, "connect", FALSE)
           C == {Warehouse}
           s1 == Connect("mssql")
           s2 == s1 \o MasterDDL
           s3 == s2 \o <<r>>
           s4 == s3 \o SchemaDDL
<1>1. MSSQLSchema = s4
  BY DEF MSSQLSchema
<1>2. Runs(s1, none)
  BY ConnectRuns
<1>3. Runs(MasterDDL, none) /\ Warehouse \in Gives(MasterDDL)
  BY MasterRuns
<1>4. (\A x \in r.needs : Len(x) = 1 \/ x \in C) /\ r.does # "rewrite"
  BY DEF Statement
<1>5. Runs(SchemaDDL, C)
  BY SchemaDDLRuns
<1> HIDE DEF r, none, s1
<1>6. Follows(s2, s1, MasterDDL, none)
  <2>1. none \subseteq none \union Gives(s1)
    OBVIOUS
  <2> QED
    BY <1>2, <1>3, <2>1, RunsAfter
<1> HIDE DEF s2
<1>7. C \subseteq Gives(s2)
  BY <1>3, <1>6 DEF Follows
<1> HIDE DEF C
<1>8. Follows(s3, s2, <<r>>, none)
  <2>1. C \subseteq none \union Gives(s2) /\ Runs(s2, none)
    BY <1>6, <1>7 DEF Follows
  <2>2. Runs(<<r>>, C)
    BY <1>4, OneRuns
  <2> QED
    BY <2>1, <2>2, RunsAfter
<1> HIDE DEF s3
<1>9. Follows(s4, s3, SchemaDDL, none)
  <2>1. C \subseteq none \union Gives(s3) /\ Runs(s3, none)
    BY <1>7, <1>8 DEF Follows
  <2> QED
    BY <1>5, <2>1, RunsAfter
<1> QED
  BY <1>1, <1>9 DEF Follows, none

LEMMA AuxDB4Runs == Runs(AuxDB4, {})
<1> DEFINE server == "auxdb"
           names == <<"zepto_ingestion_cursors", "zepto_ingestion_backlog",
                      "zepto_storage_offsets", "zepto_storage_backlog">>
           none == {}
<1>1. names = [i \in 1..4 |-> names[i]] /\ 4 \in Nat
  OBVIOUS
<1>2. AuxDB4 = Connect(server) \o Create(<<server>>, names)
  BY DEF AuxDB4, Aux
<1> HIDE DEF server, names, none
<1>3. Runs(AuxDB4, none)
  BY <1>1, <1>2, LiteralList, ServerRuns
<1> QED
  BY <1>3 DEF none

\* The keyspace comes before its table.
LEMMA CassandraRuns == Runs(CassandraSchema, {})
<1> DEFINE none == {}
           server == <<"cassandra">>
           keyspace == <<"cassandra", "zepto_events">>
           names1 == <<"zepto_events">>
           names2 == <<"order_events">>
           s1 == Connect("cassandra") \o Create(server, names1)
           s2 == Create(keyspace, names2)
           B == {keyspace}
<1>1. CassandraSchema = s1 \o s2
  BY DEF CassandraSchema
<1>2. /\ IsList(names1) /\ IsList(names2) /\ Len(server) = 1
      /\ Len(names1) = 1 /\ 1 \in 1..1 /\ names1[1] = "zepto_events"
  <2>1. IsList(names1) /\ IsList(names2)
    BY FewNames
  <2> QED
    BY <2>1
<1>3. Append(server, names1[1]) = keyspace
  <2>1. Append(server, "zepto_events") = keyspace
    BY ShortPaths
  <2> HIDE DEF server, keyspace, names1
  <2> QED
    BY <1>2, <2>1
<1>4. keyspace \in B
  OBVIOUS
<1>5. Runs(Connect("cassandra"), none)
  BY ConnectRuns
<1> DEFINE s0 == Connect("cassandra")
<1> HIDE DEF none, server, keyspace, names1, names2, B, s0
<1>6. Runs(Create(server, names1), none) /\ keyspace \in Gives(Create(server, names1))
  BY <1>2, <1>3, CreateRuns, CreateAt
<1>7. Follows(s1, s0, Create(server, names1), none)
  <2>1. none \subseteq none \union Gives(s0)
    OBVIOUS
  <2> QED
    BY <1>5, <1>6, <2>1, RunsAfter DEF s0
<1>8. Runs(s2, B)
  BY <1>2, <1>4, CreateRuns
<1> HIDE DEF s1, s2
<1>9. Follows(s1 \o s2, s1, s2, none)
  <2>1. B \subseteq none \union Gives(s1) /\ Runs(s1, none)
    BY <1>6, <1>7 DEF B, Follows
  <2> QED
    BY <1>8, <2>1, RunsAfter
<1> QED
  BY <1>1, <1>9 DEF Follows, none

LEMMA AuxDB5Runs == Runs(AuxDB5, {})
<1> DEFINE server == "auxdb"
           names == <<"pf_catalog_checkpoints", "pf_enrich_collect_cursors",
                      "pf_enrich_submit_offsets", "pf_postgres_ingest_backlog",
                      "pf_oracle_ingest_backlog", "pf_enrich_submit_backlog",
                      "pf_es_index_backlog">>
           none == {}
<1>1. names = [i \in 1..7 |-> names[i]] /\ 7 \in Nat
  OBVIOUS
<1>2. AuxDB5 = Connect(server) \o Create(<<server>>, names)
  BY DEF AuxDB5, Aux
<1> HIDE DEF server, names, none
<1>3. Runs(AuxDB5, none)
  BY <1>1, <1>2, LiteralList, ServerRuns
<1> QED
  BY <1>3 DEF none

LEMMA AuxDB6Runs == Runs(AuxDB6, {})
<1> DEFINE server == "auxdb"
           names == <<"fc_snapshot_progress", "fc_snapshot_backlog",
                      "fc_movement_progress", "fc_movement_backlog">>
           none == {}
<1>1. names = [i \in 1..4 |-> names[i]] /\ 4 \in Nat
  OBVIOUS
<1>2. AuxDB6 = Connect(server) \o Create(<<server>>, names)
  BY DEF AuxDB6, Aux
<1> HIDE DEF server, names, none
<1>3. Runs(AuxDB6, none)
  BY <1>1, <1>2, LiteralList, ServerRuns
<1> QED
  BY <1>3 DEF none

LEMMA MongoInitRuns == Runs(MongoInit, {})
<1> DEFINE server == <<"mongo">>
           names == <<"inventory_snapshots", "stock_movements">>
           none == {}
<1>1. IsList(names) /\ Len(server) = 1
  BY FewNames
<1>2. MongoInit = Create(server, names)
  BY DEF MongoInit
<1> HIDE DEF server, names, none
<1>3. Runs(MongoInit, none)
  BY <1>1, <1>2, CreateRuns
<1> QED
  BY <1>3 DEF none

LEMMA AuxDB7Runs == Runs(AuxDB7, {})
<1> DEFINE server == "auxdb"
           names == <<"flow_watermark", "flow_backlog">>
           none == {}
<1>1. IsList(names)
  BY FewNames
<1>2. AuxDB7 = Connect(server) \o Create(<<server>>, names)
  BY DEF AuxDB7, Aux
<1> HIDE DEF server, names, none
<1>3. Runs(AuxDB7, none)
  BY <1>1, <1>2, ServerRuns
<1> QED
  BY <1>3 DEF none

LEMMA PgSchema7Runs == Runs(PgSchema7, {})
<1> DEFINE server == "payments"
           names == <<"transactions">>
           none == {}
<1>1. IsList(names)
  BY FewNames
<1>2. PgSchema7 = Connect(server) \o Create(<<server>>, names)
  BY DEF PgSchema7
<1> HIDE DEF server, names, none
<1>3. Runs(PgSchema7, none)
  BY <1>1, <1>2, ServerRuns
<1> QED
  BY <1>3 DEF none

\* The stream comes after its table and the change tracking of it, the merchants
\* after theirs.
LEMMA SnowflakeRuns == Runs(SnowflakeSetup, {})
<1> DEFINE none == {}
           server == <<"snowflake">>
           raw == <<"snowflake", "RAW_TRANSACTIONS">>
           tracking == Append(raw, "CHANGE_TRACKING")
           profile == <<"snowflake", "MERCHANT_RISK_PROFILE">>
           stream == <<"snowflake", "TXN_STREAM">>
           names1 == <<"RAW_TRANSACTIONS">>
           names2 == <<"MERCHANT_RISK_PROFILE">>
           names3 == <<"STREAM_CONSUME_MARKER", "MERCHANT_TXN_SUMMARY">>
           rows == [n \in 1..SeedRows |-> ToString(n)]
           d == "rewrite"
           f == FALSE
           c == "create"
           r1 == Statement(tracking, {raw}, c, f)
           r2 == Statement(stream, {raw, tracking}, c, f)
           s1 == Connect("snowflake")
           s2 == s1 \o Create(server, names1)
           s3 == s2 \o <<r1>>
           s4 == s3 \o Create(server, names2)
           s5 == s4 \o <<r2>>
           s6 == s5 \o Create(server, names3)
           s7 == s6 \o Each(profile, rows, d, f)
<1>1. SnowflakeSetup = s7
  BY DEF SnowflakeSetup, Merge
<1>2. /\ r1.path = tracking /\ r1.needs = {raw} /\ r1.does # "rewrite"
      /\ r2.path = stream /\ r2.needs = {raw, tracking} /\ r2.does # "rewrite"
  BY DEF Statement
<1>3. /\ Append(server, names1[1]) = raw /\ Append(server, names2[1]) = profile
      /\ IsList(names1) /\ IsList(names2) /\ IsList(names3)
      /\ Len(names1) = 1 /\ Len(names2) = 1 /\ 1 \in 1..1 /\ Len(server) = 1
  <2>1. IsList(names1) /\ IsList(names2) /\ IsList(names3)
    BY FewNames
  <2>2. /\ Len(names1) = 1 /\ Len(names2) = 1 /\ 1 \in 1..1 /\ Len(server) = 1
        /\ names1[1] = "RAW_TRANSACTIONS" /\ names2[1] = "MERCHANT_RISK_PROFILE"
    OBVIOUS
  <2>3. Append(server, "RAW_TRANSACTIONS") = raw
    BY ShortPaths
  <2>4. Append(server, "MERCHANT_RISK_PROFILE") = profile
    BY ShortPaths
  <2> HIDE DEF names1, names2, names3, server, raw, profile
  <2> QED
    BY <2>1, <2>2, <2>3, <2>4
<1>4. profile \in Rewritten /\ \A n \in 1..Len(rows) : Front(Append(profile, rows[n])) = profile
  BY FrontOfShort DEF Rewritten
<1>5. IsList(rows)
  BY RowNumbers
<1>6. Runs(s1, none)
  BY ConnectRuns
<1> HIDE DEF none, server, raw, tracking, profile, stream, names1, names2, names3, rows, d, f
<1> HIDE DEF c, r1, r2, s1
<1>7. /\ Runs(Create(server, names1), none)
      /\ Runs(Create(server, names2), none)
      /\ Runs(Create(server, names3), none)
  BY <1>3, CreateRuns
<1>8. raw \in Gives(Create(server, names1)) /\ profile \in Gives(Create(server, names2))
  BY <1>3, CreateAt
<1>9. tracking \in Gives(<<r1>>)
  BY <1>2, OneGives
<1>10. Runs(<<r1>>, {raw})
  <2> DEFINE B == {raw}
  <2>1. (\A x \in r1.needs : Len(x) = 1 \/ x \in B) /\ r1.does # "rewrite"
    BY <1>2
  <2> HIDE DEF B
  <2>2. Runs(<<r1>>, B)
    BY <2>1, OneRuns
  <2> QED
    BY <2>2 DEF B
<1>11. Runs(<<r2>>, {raw, tracking})
  <2> DEFINE B == {raw, tracking}
  <2>1. (\A x \in r2.needs : Len(x) = 1 \/ x \in B) /\ r2.does # "rewrite"
    BY <1>2
  <2> HIDE DEF B
  <2>2. Runs(<<r2>>, B)
    BY <2>1, OneRuns
  <2> QED
    BY <2>2 DEF B
<1>12. Runs(Each(profile, rows, d, f), {profile})
  <2> DEFINE B == {profile}
  <2>1. profile \in B
    OBVIOUS
  <2> HIDE DEF B
  <2>2. Runs(Each(profile, rows, d, f), B)
    BY <1>4, <1>5, <2>1, EachRuns
  <2> QED
    BY <2>2 DEF B
<1>13. Follows(s2, s1, Create(server, names1), none)
  <2>1. none \subseteq none \union Gives(s1)
    OBVIOUS
  <2> QED
    BY <1>6, <1>7, <2>1, RunsAfter
<1> HIDE DEF s2
<1>14. Follows(s3, s2, <<r1>>, none)
  <2>1. {raw} \subseteq none \union Gives(s2) /\ Runs(s2, none)
    BY <1>8, <1>13 DEF Follows
  <2> QED
    BY <1>10, <2>1, RunsAfter
<1> HIDE DEF s3
<1>15. Follows(s4, s3, Create(server, names2), none)
  <2>1. none \subseteq none \union Gives(s3) /\ Runs(s3, none)
    BY <1>14 DEF Follows
  <2> QED
    BY <1>7, <2>1, RunsAfter
<1> HIDE DEF s4
<1>16. Follows(s5, s4, <<r2>>, none)
  <2>1. {raw, tracking} \subseteq none \union Gives(s4) /\ Runs(s4, none)
    BY <1>8, <1>9, <1>13, <1>14, <1>15 DEF Follows
  <2> QED
    BY <1>11, <2>1, RunsAfter
<1> HIDE DEF s5
<1>17. Follows(s6, s5, Create(server, names3), none)
  <2>1. none \subseteq none \union Gives(s5) /\ Runs(s5, none)
    BY <1>16 DEF Follows
  <2> QED
    BY <1>7, <2>1, RunsAfter
<1> HIDE DEF s6
<1>18. Follows(s7, s6, Each(profile, rows, d, f), none)
  <2>1. {profile} \subseteq none \union Gives(s6) /\ Runs(s6, none)
    BY <1>8, <1>15, <1>16, <1>17 DEF Follows
  <2> QED
    BY <1>12, <2>1, RunsAfter
<1> QED
  BY <1>1, <1>18 DEF Follows, none

\* Whatever the case, its script finds what it needs where the servers are up.
LEMMA ScriptRuns ==
  ASSUME NEW c \in Cases
  PROVE  Runs(Script[c], {})
<1> DEFINE none == {}
<1>1. c \in 1..7
  BY SetupAssumption
<1>2. CASE c = 1
  <2>1. Script[c] = MySQLSchema \o PostgresSchema \o AuxDB1
    BY <1>2 DEF Script
  <2>2. Runs(MySQLSchema \o PostgresSchema, {})
    BY MySQLSchemaRuns, PostgresSchemaRuns, RunsBoth
  <2> QED
    BY <2>1, <2>2, AuxDB1Runs, RunsBoth
<1>3. CASE c = 2
  <2> DEFINE s1 == PgSchema \o EsSchema("platform_orders")
             s2 == s1 \o AuxDB2
             s3 == s2 \o WalEnabler
             C == {AuxTable("wal_positions")}
  <2>1. Script[c] = s3
    BY <1>3 DEF Script
  <2>2. Runs(s1, none)
    BY PgSchemaRuns, EsSchemaRuns, RunsBoth
  <2>3. Runs(AuxDB2, none) /\ C \subseteq Gives(AuxDB2) /\ Runs(WalEnabler, C)
    BY AuxDB2Runs, WalEnablerRuns
  <2> HIDE DEF s1, C, none
  <2>4. Follows(s2, s1, AuxDB2, none)
    <3>1. none \subseteq none \union Gives(s1)
      OBVIOUS
    <3> QED
      BY <2>2, <2>3, <3>1, RunsAfter
  <2> HIDE DEF s2
  <2>5. Follows(s3, s2, WalEnabler, none)
    <3>1. C \subseteq none \union Gives(s2) /\ Runs(s2, none)
      BY <2>3, <2>4 DEF Follows
    <3> QED
      BY <2>3, <3>1, RunsAfter
  <2> QED
    BY <2>1, <2>5 DEF Follows, none
<1>4. CASE c = 3
  <2>1. Script[c] = AuxDB3 \o MSSQLSchema
    BY <1>4 DEF Script
  <2> QED
    BY <2>1, AuxDB3Runs, MSSQLSchemaRuns, RunsBoth
<1>5. CASE c = 4
  <2>1. Script[c] = AuxDB4 \o CassandraSchema
    BY <1>5 DEF Script
  <2> QED
    BY <2>1, AuxDB4Runs, CassandraRuns, RunsBoth
<1>6. CASE c = 5
  <2>1. Script[c] = AuxDB5 \o EsSchema5
    BY <1>6 DEF Script
  <2>2. Runs(EsSchema5, {})
    BY EsSchemaRuns DEF EsSchema5
  <2> QED
    BY <2>1, <2>2, AuxDB5Runs, RunsBoth
<1>7. CASE c = 6
  <2>1. Script[c] = AuxDB6 \o MongoInit
    BY <1>7 DEF Script
  <2> QED
    BY <2>1, AuxDB6Runs, MongoInitRuns, RunsBoth
<1>8. CASE c = 7
  <2>1. Script[c] = PgSchema7 \o AuxDB7 \o EsSchema7 \o SnowflakeSetup
    BY <1>8 DEF Script
  <2>2. Runs(EsSchema7, {})
    BY EsSchemaRuns DEF EsSchema7
  <2>3. Runs(PgSchema7 \o AuxDB7, {})
    BY PgSchema7Runs, AuxDB7Runs, RunsBoth
  <2>4. Runs(PgSchema7 \o AuxDB7 \o EsSchema7, {})
    BY <2>2, <2>3, RunsBoth
  <2> QED
    BY <2>1, <2>4, SnowflakeRuns, RunsBoth
<1>9. c = 1 \/ c = 2 \/ c = 3 \/ c = 4 \/ c = 5 \/ c = 6 \/ c = 7
  BY <1>1
<1> QED
  BY <1>2, <1>3, <1>4, <1>5, <1>6, <1>7, <1>8, <1>9

-----------------------------------------------------------------------------
(* The invariant *)

\* In a run in which nothing has failed, everything up to the next statement
\* exists.
SentIsThere ==
  phase \in {"running", "ready"} /\ ~hit =>
    \A j \in 1..pc - 1 : Script[case][j].path \in db

SetupIInv ==
  /\ SetupTypeOK
  /\ Servers(case) \subseteq db
  /\ phase = "ready" => pc = Len(Script[case]) + 1
  /\ SentIsThere

LEMMA ScriptAt ==
  ASSUME NEW c \in Cases
  PROVE  /\ Len(Script[c]) \in Nat /\ DOMAIN Script[c] = 1..Len(Script[c])
         /\ Finds(Script[c], {}) /\ Careful(Script[c])
BY ScriptRuns, ListAt DEF Runs

LEMMA InitSetupIInv == SetupInit => SetupIInv
<1> SUFFICES ASSUME SetupInit PROVE SetupIInv
  OBVIOUS
<1>1. case \in Cases /\ Len(Script[case]) \in Nat
  BY ScriptAt DEF SetupInit
<1>2. SetupTypeOK
  <2>1. 1 \in 1..Len(Script[case]) + 1
    BY <1>1
  <2>2. 0 \in 0..MaxSetups /\ 0 \in 0..MaxFaults /\ 0 \in 0..MaxEdits
    BY SetupAssumption
  <2> QED
    BY <1>1, <2>1, <2>2 DEF SetupInit, SetupTypeOK
<1> QED
  BY <1>2 DEF SetupInit, SetupIInv, SentIsThere

LEMMA StartSetupKeeps ==
  ASSUME SetupIInv, StartSetup
  PROVE  SetupIInv'
<1>1. Len(Script[case]) \in Nat /\ case \in Cases
  BY ScriptAt DEF SetupIInv, SetupTypeOK
<1>2. SetupTypeOK'
  <2>1. 1 \in 1..Len(Script[case]) + 1
    BY <1>1
  <2>2. runs + 1 \in 0..MaxSetups
    BY SetupAssumption DEF SetupIInv, SetupTypeOK, StartSetup
  <2>3. UNCHANGED <<case, db, edited, faults, edits>> /\ pc' = 1 /\ phase' = "running"
        /\ hit' = FALSE /\ runs' = runs + 1
    BY DEF StartSetup
  <2>4. Servers(case)' = Servers(case) /\ Paths(case)' = Paths(case)
        /\ ReferenceRows' = ReferenceRows
    BY <2>3 DEF Servers, Paths, ReferenceRows
  <2> QED
    BY <1>1, <2>1, <2>2, <2>3, <2>4 DEF SetupIInv, SetupTypeOK
<1>3. SentIsThere'
  BY DEF StartSetup, SentIsThere
<1> QED
  BY <1>2, <1>3 DEF SetupIInv, StartSetup, Servers, Paths

\* A script that is running, and its next statement.
LEMMA NowIs ==
  ASSUME SetupIInv, Running
  PROVE  /\ case \in Cases /\ pc \in 1..Len(Script[case]) /\ Len(Script[case]) \in Nat
         /\ pc \in DOMAIN Script[case] /\ Now.path \in Paths(case)
         /\ pc + 1 \in 1..Len(Script[case]) + 1
<1>1. case \in Cases /\ pc \in 1..Len(Script[case]) + 1 /\ pc <= Len(Script[case])
  BY DEF SetupIInv, SetupTypeOK, Running
<1>2. Len(Script[case]) \in Nat /\ DOMAIN Script[case] = 1..Len(Script[case])
  BY <1>1, ScriptAt
<1>3. pc \in 1..Len(Script[case]) /\ pc + 1 \in 1..Len(Script[case]) + 1
  BY <1>1, <1>2
<1> QED
  BY <1>1, <1>2, <1>3 DEF Now, Paths

\* Executing the next statement keeps what exists and what is edited in bounds.
LEMMA ExecuteKeeps ==
  ASSUME SetupIInv, Running, Execute, case' = case
  PROVE  /\ db' \subseteq Paths(case) \union Servers(case)
         /\ edited' \subseteq ReferenceRows \intersect db'
         /\ db \subseteq db' /\ Now.path \in db'
BY NowIs DEF SetupIInv, SetupTypeOK, Execute

LEMMA SucceedsKeeps ==
  ASSUME SetupIInv, Succeeds
  PROVE  SetupIInv'
<1>1. /\ case \in Cases /\ pc \in 1..Len(Script[case]) /\ Len(Script[case]) \in Nat
      /\ pc + 1 \in 1..Len(Script[case]) + 1 /\ phase = "running"
  BY NowIs DEF Succeeds, Running
<1>2. /\ db' \subseteq Paths(case) \union Servers(case)
      /\ edited' \subseteq ReferenceRows \intersect db'
      /\ db \subseteq db' /\ Now.path \in db'
  BY ExecuteKeeps DEF Succeeds
<1>3. UNCHANGED <<case, phase, runs, faults, edits, hit>> /\ pc' = pc + 1
  BY DEF Succeeds
<1>4. SetupTypeOK'
  BY <1>1, <1>2, <1>3 DEF SetupIInv, SetupTypeOK, Servers, Paths, ReferenceRows
<1>5. SentIsThere'
  <2> SUFFICES ASSUME phase \in {"running", "ready"}, ~hit, NEW j \in 1..(pc + 1) - 1
               PROVE  Script[case][j].path \in db'
    BY <1>3 DEF SentIsThere
  <2>1. j \in 1..pc - 1 \/ j = pc
    BY <1>1
  <2> QED
    BY <1>2, <2>1 DEF SetupIInv, SentIsThere, Now
<1> QED
  BY <1>1, <1>2, <1>3, <1>4, <1>5 DEF SetupIInv, Servers, Paths

\* In a run in which nothing has failed, no statement misses what it needs.
LEMMA NothingMissing ==
  ASSUME SetupIInv, CannotRun
  PROVE  hit
<1> SUFFICES ASSUME ~hit PROVE Runnable
  BY DEF CannotRun, SetupIInv, SetupTypeOK
<1>1. /\ case \in Cases /\ pc \in 1..Len(Script[case]) /\ Len(Script[case]) \in Nat
      /\ pc \in DOMAIN Script[case] /\ phase = "running"
  BY NowIs DEF CannotRun, Running
<1> SUFFICES ASSUME NEW x \in Script[case][pc].needs PROVE x \in db
  BY DEF Runnable, Now
<1>2. Len(x) = 1 \/ \E j \in 1..pc - 1 : x = Script[case][j].path
  BY <1>1, ScriptAt DEF Finds
<1>3. CASE Len(x) = 1
  BY <1>1, <1>3 DEF Servers, SetupIInv
<1>4. CASE \E j \in 1..pc - 1 : x = Script[case][j].path
  BY <1>1, <1>4 DEF SetupIInv, SentIsThere
<1> QED
  BY <1>2, <1>3, <1>4

\* A warning moves on, an error stops.
LEMMA GiveUpKeeps ==
  ASSUME SetupIInv, Running, GiveUp
  PROVE  /\ pc' \in 1..Len(Script[case]) + 1
         /\ phase' \in {"running", "failed"}
<1>1. pc \in 1..Len(Script[case]) + 1 /\ pc + 1 \in 1..Len(Script[case]) + 1
  BY NowIs DEF SetupIInv, SetupTypeOK
<1> QED
  BY <1>1 DEF GiveUp, Running

LEMMA CannotRunKeeps ==
  ASSUME SetupIInv, CannotRun
  PROVE  SetupIInv'
<1>1. pc' \in 1..Len(Script[case]) + 1 /\ phase' \in {"running", "failed"}
  BY GiveUpKeeps DEF CannotRun
<1>2. hit
  BY NothingMissing
<1> QED
  BY <1>1, <1>2 DEF CannotRun, SetupIInv, SetupTypeOK, SentIsThere, Servers, Paths,
     ReferenceRows

LEMMA FailsKeeps ==
  ASSUME SetupIInv, Fails
  PROVE  SetupIInv'
<1>1. pc' \in 1..Len(Script[case]) + 1 /\ phase' \in {"running", "failed"}
  BY GiveUpKeeps DEF Fails
<1>2. /\ db' \subseteq Paths(case) \union Servers(case)
      /\ edited' \subseteq ReferenceRows \intersect db'
      /\ db \subseteq db'
  <2>1. CASE Execute
    BY <2>1, ExecuteKeeps DEF Fails
  <2>2. CASE UNCHANGED <<db, edited>>
    BY <2>2 DEF SetupIInv, SetupTypeOK
  <2> QED
    BY <2>1, <2>2 DEF Fails
<1>3. UNCHANGED <<case, runs, edits>> /\ hit' = TRUE
  BY DEF Fails
<1>4. faults' \in 0..MaxFaults
  BY SetupAssumption DEF Fails, SetupIInv, SetupTypeOK
<1> QED
  BY <1>1, <1>2, <1>3, <1>4
  DEF SetupIInv, SetupTypeOK, SentIsThere, Servers, Paths, ReferenceRows

LEMMA ReadyKeeps ==
  ASSUME SetupIInv, Ready
  PROVE  SetupIInv'
<1>1. pc = Len(Script[case]) + 1
  <2>1. Len(Script[case]) \in Nat /\ pc \in 1..Len(Script[case]) + 1 /\ pc > Len(Script[case])
    BY ScriptAt DEF SetupIInv, SetupTypeOK, Ready
  <2> QED
    BY <2>1
<1> QED
  BY <1>1 DEF Ready, SetupIInv, SetupTypeOK, SentIsThere, Servers, Paths, ReferenceRows

LEMMA EditKeeps ==
  ASSUME SetupIInv, NEW row \in ReferenceRows, Edit(row)
  PROVE  SetupIInv'
<1>1. edits' \in 0..MaxEdits
  BY SetupAssumption DEF Edit, SetupIInv, SetupTypeOK
<1>2. edited' \subseteq ReferenceRows \intersect db
  BY DEF Edit, SetupIInv, SetupTypeOK
<1> QED
  BY <1>1, <1>2
  DEF Edit, SetupIInv, SetupTypeOK, SentIsThere, Servers, Paths, ReferenceRows

LEMMA NextSetupIInv == SetupIInv /\ [SetupNext]_setupVars => SetupIInv'
<1> SUFFICES ASSUME SetupIInv, [SetupNext]_setupVars PROVE SetupIInv'
  OBVIOUS
<1>1. CASE UNCHANGED setupVars
  BY <1>1 DEF setupVars, SetupIInv, SetupTypeOK, SentIsThere, Servers, Paths, ReferenceRows
<1>2. CASE StartSetup
  BY <1>2, StartSetupKeeps
<1>3. CASE Progress
  BY <1>3, SucceedsKeeps, CannotRunKeeps, FailsKeeps, ReadyKeeps DEF Progress
<1>4. CASE \E row \in ReferenceRows : Edit(row)
  BY <1>4, EditKeeps
<1> QED
  BY <1>1, <1>2, <1>3, <1>4 DEF SetupNext

LEMMA SetupInvariance == SetupSpec => []SetupIInv
BY InitSetupIInv, NextSetupIInv, PTL DEF SetupSpec

\* A run in which nothing failed leaves everything there: the statements of each
\* program are in an order in which each finds what it needs, whatever zones,
\* companies, brands and cities are configured, and however the runs before ended.
THEOREM AllIsThere == SetupSpec => []ReadyIsComplete
<1>1. ASSUME SetupIInv PROVE ReadyIsComplete
  <2>1. SetupTypeOK
    BY <1>1 DEF SetupIInv
  <2>2. ASSUME phase = "ready", ~hit, NEW path \in Paths(case)
        PROVE  path \in db
    <3>1. PICK j \in DOMAIN Script[case] : path = Script[case][j].path
      BY DEF Paths
    <3>2. DOMAIN Script[case] = 1..Len(Script[case]) /\ Len(Script[case]) \in Nat
      BY <2>1, ScriptAt DEF SetupTypeOK
    <3>3. j \in 1..pc - 1
      BY <1>1, <2>2, <3>1, <3>2 DEF SetupIInv
    <3> QED
      BY <1>1, <2>2, <3>1, <3>3 DEF SetupIInv, SentIsThere
  <2> QED
    BY <2>1, <2>2 DEF ReadyIsComplete
<1> QED
  BY <1>1, SetupInvariance, PTL

\* Setup that is run again leaves what the operator has edited alone, except for
\* the bookmarks of case 2 and the risk profiles of case 7.
THEOREM OperatorRowsStay == SetupSpec => EditsSurvive
<1>1. ASSUME SetupIInv, [SetupNext]_setupVars
      PROVE  [\A row \in edited : row \in edited' \/ Front(row) \in Rewritten]_setupVars
  <2> SUFFICES ASSUME SetupNext, NEW row \in edited, row \notin edited'
               PROVE  Front(row) \in Rewritten
    BY <1>1
  <2>1. Execute /\ Running
    BY DEF SetupNext, Progress, StartSetup, Succeeds, CannotRun, Fails, Ready, Edit
  <2>2. Now.does = "rewrite" /\ row = Now.path
    BY <2>1 DEF Execute
  <2>3. case \in Cases /\ pc \in 1..Len(Script[case])
    BY <1>1, <2>1, NowIs
  <2> QED
    BY <2>2, <2>3, ScriptAt DEF Careful, Now
<1> QED
  BY <1>1, SetupInvariance, PTL DEF SetupSpec, EditsSurvive, Rewritten
=============================================================================
