------------------------- MODULE WalBookmarkProofs -------------------------
(***************************************************************************)
(* Proofs about WalBookmark: its types, that a bookmark can be streamed    *)
(* from, and that the cold flow and the stream meet.                       *)
(***************************************************************************)
EXTENDS WalBookmark, TLAPS

\* The larger of two numbers.
LEMMA MaxOfTwo ==
  ASSUME NEW x \in Nat, NEW y \in Nat
  PROVE  /\ Max({x, y}) \in {x, y}
         /\ Max({x, y}) >= x /\ Max({x, y}) >= y
PROOF
<1>1. CASE x >= y
  <2>1. x \in {x, y} /\ \A z \in {x, y} : x >= z
    BY <1>1
  <2> QED
    BY <2>1 DEF Max
<1>2. CASE ~(x >= y)
  <2>1. y \in {x, y} /\ \A z \in {x, y} : y >= z
    BY <1>2
  <2> QED
    BY <2>1 DEF Max
<1> QED
  BY <1>1, <1>2

-----------------------------------------------------------------------------
(* Types *)

\* The state of one brand has its type.
BrandType(b) ==
  /\ wal[b] \in 0..MaxChanges
  /\ {slot[b], pub[b], bookmark[b], lsn[b], cold[b], hot[b]} \subseteq Past(b)
  /\ at[b] \in Ended \union {"connect", "slot", "publication", "read", "record"}
  /\ streamed[b] \subseteq 1..MaxChanges
  /\ late[b] \in BOOLEAN

\* The variables are functions of the brands, and the counters are bounded.
Shape ==
  /\ wal \in [Brands -> 0..MaxChanges]
  /\ {slot, pub, bookmark, lsn, cold, hot} \subseteq [Brands -> 0..MaxChanges \union {NoLsn}]
  /\ at \in [Brands -> Ended \union {"connect", "slot", "publication", "read", "record"}]
  /\ streamed \in [Brands -> SUBSET (1..MaxChanges)]
  /\ runs \in 0..MaxRuns /\ faults \in 0..MaxFaults
  /\ late \in [Brands -> BOOLEAN]

\* A statement of the enabler is sent once those before it have been carried
\* out; a bookmark has a slot and a publication from before it, and so has a
\* stream that runs.
Ordered(b) ==
  /\ at[b] \in {"publication", "read", "record"} => slot[b] # NoLsn
  /\ at[b] \in {"read", "record"} => pub[b] # NoLsn
  /\ at[b] = "record" => lsn[b] # NoLsn /\ pub[b] <= lsn[b]
  /\ bookmark[b] # NoLsn => slot[b] # NoLsn /\ pub[b] # NoLsn /\ pub[b] <= bookmark[b]
  /\ hot[b] # NoLsn => bookmark[b] # NoLsn /\ pub[b] <= hot[b]

\* A change is in the copy, has been streamed, or is above every position from
\* which the stream goes on or could resume.
Covered(b, change) ==
  \/ change <= cold[b]
  \/ change \in streamed[b]
  \/ /\ change > slot[b] /\ change > bookmark[b]
     /\ hot[b] # NoLsn => change > hot[b]

Meets(b) ==
  ~late[b] /\ cold[b] # NoLsn /\ bookmark[b] # NoLsn =>
    \A change \in 1..wal[b] : Covered(b, change)

BrandInv(b) == BrandType(b) /\ Ordered(b) /\ Meets(b)

IInv == Shape /\ \A b \in Brands : BrandInv(b)

Kept(b) ==
  /\ wal'[b] = wal[b] /\ slot'[b] = slot[b] /\ pub'[b] = pub[b]
  /\ bookmark'[b] = bookmark[b] /\ at'[b] = at[b] /\ lsn'[b] = lsn[b]
  /\ cold'[b] = cold[b] /\ hot'[b] = hot[b] /\ streamed'[b] = streamed[b]
  /\ late'[b] = late[b]

\* A brand nothing happens to keeps its invariant.
LEMMA KeptBrand ==
  ASSUME NEW b \in Brands, BrandInv(b), Kept(b)
  PROVE  BrandInv(b)'
BY DEF BrandInv, BrandType, Ordered, Meets, Covered, Kept, Past

LEMMA InitIInv ==
  Init => IInv
PROOF
<1> SUFFICES ASSUME Init PROVE IInv
  OBVIOUS
<1>1. Shape
  BY WalAssumption DEF Init, Shape, Ended
<1>2. \A b \in Brands : BrandInv(b)
  BY WalAssumption DEF Init, BrandInv, BrandType, Ordered, Meets, Covered, Past, Ended
<1> QED
  BY <1>1, <1>2 DEF IInv

-----------------------------------------------------------------------------
(* Steps *)

\* A step of one brand keeps the invariant if it does so for that brand.
LEMMA OneBrand ==
  ASSUME IInv, NEW b \in Brands, Shape', BrandInv(b)',
         \A c \in Brands \ {b} : Kept(c)
  PROVE  IInv'
PROOF
<1>1. ASSUME NEW c \in Brands PROVE BrandInv(c)'
  <2>1. CASE c = b
    BY <2>1
  <2>2. CASE c # b
    <3>1. Kept(c)
      BY <2>2
    <3>2. BrandInv(c)
      BY DEF IInv
    <3> HIDE DEF BrandInv, Kept
    <3> QED
      BY <3>1, <3>2, KeptBrand
  <2> QED
    BY <2>1, <2>2
<1> QED
  BY <1>1 DEF IInv

LEMMA ConnectKeeps ==
  ASSUME IInv, NEW b \in Brands, Connect(b)
  PROVE  IInv'
PROOF
<1>1. BrandInv(b) /\ Shape
  BY DEF IInv
<1>2. Shape'
  BY <1>1, WalAssumption DEF Shape, BrandInv, BrandType, Past, Ended, Connect, Step, dbVars, enablerVars, flowVars
<1>3. BrandType(b)'
  BY <1>1, WalAssumption DEF Shape, BrandInv, BrandType, Ordered, Past, Ended, Connect, Step, dbVars, enablerVars, flowVars
<1>4. Ordered(b)'
  BY <1>1, WalAssumption DEF Shape, BrandInv, BrandType, Ordered, Past, Ended, Connect, Step, dbVars, enablerVars, flowVars
<1>5. Meets(b)'
  BY <1>1, WalAssumption DEF Shape, BrandInv, BrandType, Ordered, Meets, Covered, Past, Connect, Step, dbVars, enablerVars, flowVars
<1>6. \A c \in Brands \ {b} : Kept(c)
  BY <1>1 DEF Shape, Kept, Connect, Step, dbVars, enablerVars, flowVars
<1>7. BrandInv(b)'
  BY <1>3, <1>4, <1>5 DEF BrandInv
<1> HIDE DEF IInv, Shape, BrandInv, Kept
<1> QED
  BY <1>2, <1>6, <1>7, OneBrand

LEMMA EnsureSlotKeeps ==
  ASSUME IInv, NEW b \in Brands, EnsureSlot(b)
  PROVE  IInv'
PROOF
<1>1. BrandInv(b) /\ Shape
  BY DEF IInv
<1>2. Shape'
  BY <1>1, WalAssumption DEF Shape, BrandInv, BrandType, Past, Ended, EnsureSlot, Step, dbVars, enablerVars, flowVars
<1>3. BrandType(b)'
  BY <1>1, WalAssumption DEF Shape, BrandInv, BrandType, Ordered, Past, Ended, EnsureSlot, Step, dbVars, enablerVars, flowVars
<1>4. Ordered(b)'
  BY <1>1, WalAssumption DEF Shape, BrandInv, BrandType, Ordered, Past, Ended, EnsureSlot, Step, dbVars, enablerVars, flowVars
<1>5. Meets(b)'
  BY <1>1, WalAssumption DEF Shape, BrandInv, BrandType, Ordered, Meets, Covered, Past, EnsureSlot, Step, dbVars, enablerVars, flowVars
<1>6. \A c \in Brands \ {b} : Kept(c)
  BY <1>1 DEF Shape, Kept, EnsureSlot, Step, dbVars, enablerVars, flowVars
<1>7. BrandInv(b)'
  BY <1>3, <1>4, <1>5 DEF BrandInv
<1> HIDE DEF IInv, Shape, BrandInv, Kept
<1> QED
  BY <1>2, <1>6, <1>7, OneBrand

LEMMA EnsurePublicationKeeps ==
  ASSUME IInv, NEW b \in Brands, EnsurePublication(b)
  PROVE  IInv'
PROOF
<1>1. BrandInv(b) /\ Shape
  BY DEF IInv
<1>2. Shape'
  BY <1>1, WalAssumption DEF Shape, BrandInv, BrandType, Past, Ended, EnsurePublication, Step, dbVars, enablerVars, flowVars
<1>3. BrandType(b)'
  BY <1>1, WalAssumption DEF Shape, BrandInv, BrandType, Ordered, Past, Ended, EnsurePublication, Step, dbVars, enablerVars, flowVars
<1>4. Ordered(b)'
  BY <1>1, WalAssumption DEF Shape, BrandInv, BrandType, Ordered, Past, Ended, EnsurePublication, Step, dbVars, enablerVars, flowVars
<1>5. Meets(b)'
  BY <1>1, WalAssumption DEF Shape, BrandInv, BrandType, Ordered, Meets, Covered, Past, EnsurePublication, Step, dbVars, enablerVars, flowVars
<1>6. \A c \in Brands \ {b} : Kept(c)
  BY <1>1 DEF Shape, Kept, EnsurePublication, Step, dbVars, enablerVars, flowVars
<1>7. BrandInv(b)'
  BY <1>3, <1>4, <1>5 DEF BrandInv
<1> HIDE DEF IInv, Shape, BrandInv, Kept
<1> QED
  BY <1>2, <1>6, <1>7, OneBrand

LEMMA ReadLsnKeeps ==
  ASSUME IInv, NEW b \in Brands, ReadLsn(b)
  PROVE  IInv'
PROOF
<1>1. BrandInv(b) /\ Shape
  BY DEF IInv
<1>2. Shape'
  BY <1>1, WalAssumption DEF Shape, BrandInv, BrandType, Past, Ended, ReadLsn, Step, dbVars, enablerVars, flowVars
<1>3. BrandType(b)'
  BY <1>1, WalAssumption DEF Shape, BrandInv, BrandType, Ordered, Past, Ended, ReadLsn, Step, dbVars, enablerVars, flowVars
<1>4. Ordered(b)'
  BY <1>1, WalAssumption DEF Shape, BrandInv, BrandType, Ordered, Past, Ended, ReadLsn, Step, dbVars, enablerVars, flowVars
<1>5. Meets(b)'
  BY <1>1, WalAssumption DEF Shape, BrandInv, BrandType, Ordered, Meets, Covered, Past, ReadLsn, Step, dbVars, enablerVars, flowVars
<1>6. \A c \in Brands \ {b} : Kept(c)
  BY <1>1 DEF Shape, Kept, ReadLsn, Step, dbVars, enablerVars, flowVars
<1>7. BrandInv(b)'
  BY <1>3, <1>4, <1>5 DEF BrandInv
<1> HIDE DEF IInv, Shape, BrandInv, Kept
<1> QED
  BY <1>2, <1>6, <1>7, OneBrand

LEMMA RecordLsnKeeps ==
  ASSUME IInv, NEW b \in Brands, RecordLsn(b)
  PROVE  IInv'
PROOF
<1>1. BrandInv(b) /\ Shape
  BY DEF IInv
<1>2. Shape'
  BY <1>1, WalAssumption DEF Shape, BrandInv, BrandType, Past, Ended, RecordLsn, Step, dbVars, enablerVars, flowVars, Record
<1>3. BrandType(b)'
  BY <1>1, WalAssumption DEF Shape, BrandInv, BrandType, Ordered, Past, Ended, RecordLsn, Step, dbVars, enablerVars, flowVars, Record
<1>4. Ordered(b)'
  BY <1>1, WalAssumption DEF Shape, BrandInv, BrandType, Ordered, Past, Ended, RecordLsn, Step, dbVars, enablerVars, flowVars, Record
<1>5. Meets(b)'
  BY <1>1, WalAssumption DEF Shape, BrandInv, BrandType, Ordered, Meets, Covered, Past, RecordLsn, Step, dbVars, enablerVars, flowVars, Record
<1>6. \A c \in Brands \ {b} : Kept(c)
  BY <1>1 DEF Shape, Kept, RecordLsn, Step, dbVars, enablerVars, flowVars, Record
<1>7. BrandInv(b)'
  BY <1>3, <1>4, <1>5 DEF BrandInv
<1> HIDE DEF IInv, Shape, BrandInv, Kept
<1> QED
  BY <1>2, <1>6, <1>7, OneBrand

LEMMA StepFailsKeeps ==
  ASSUME IInv, NEW b \in Brands, StepFails(b)
  PROVE  IInv'
PROOF
<1>1. BrandInv(b) /\ Shape
  BY DEF IInv
<1>2. Shape'
  <2>1. faults' \in 0..MaxFaults /\ runs' = runs
    BY <1>1, WalAssumption DEF Shape, StepFails, Fault
  <2>2. /\ at' \in [Brands -> Ended \union {"connect", "slot", "publication", "read", "record"}]
        /\ wal' = wal /\ lsn' = lsn /\ cold' = cold /\ hot' = hot /\ streamed' = streamed
    BY <1>1 DEF Shape, StepFails, Record, Ended, dbVars, flowVars
  <2>3. wal[b] \in 0..MaxChanges /\ lsn[b] \in 0..MaxChanges \union {NoLsn}
    BY <1>1 DEF Shape
  <2>4. /\ slot' \in [Brands -> 0..MaxChanges \union {NoLsn}]
        /\ pub' \in [Brands -> 0..MaxChanges \union {NoLsn}]
    BY <1>1, <2>3 DEF Shape, StepFails, Record, dbVars
  <2>5. bookmark' \in [Brands -> 0..MaxChanges \union {NoLsn}]
    BY <1>1, <2>3 DEF Shape, StepFails, Record, dbVars
  <2>6. late' \in [Brands -> BOOLEAN]
    <3>1. late' = late \/ late' = [late EXCEPT ![b] = @ \/ cold[b] # NoLsn]
      BY DEF StepFails, Record
    <3>2. late \in [Brands -> BOOLEAN]
      BY <1>1 DEF Shape
    <3> QED
      BY <3>1, <3>2
  <2> QED
    BY <1>1, <2>1, <2>2, <2>4, <2>5, <2>6 DEF Shape
<1>3. BrandType(b)'
  <2>1. /\ wal'[b] \in 0..MaxChanges /\ streamed'[b] \subseteq 1..MaxChanges
        /\ at'[b] \in Ended \union {"connect", "slot", "publication", "read", "record"}
        /\ late'[b] \in BOOLEAN
    BY <1>2 DEF Shape
  <2>2. {slot'[b], pub'[b], bookmark'[b], lsn'[b], cold'[b], hot'[b]} \subseteq Past(b)
    BY <1>1, WalAssumption DEF Shape, BrandInv, BrandType, Past, StepFails, Record,
                               dbVars, flowVars
  <2>3. wal' = wal
    BY DEF StepFails, Record, dbVars
  <2> QED
    BY <2>1, <2>2, <2>3 DEF BrandType, Past
<1>4. Ordered(b)'
  BY <1>1, WalAssumption DEF Shape, BrandInv, BrandType, Ordered, Past, Ended, StepFails, dbVars, enablerVars, flowVars, Fault, Record
<1>5. Meets(b)'
  BY <1>1, WalAssumption DEF Shape, BrandInv, BrandType, Ordered, Meets, Covered, Past, StepFails, dbVars, enablerVars, flowVars, Fault, Record
<1>6. \A c \in Brands \ {b} : Kept(c)
  BY <1>1 DEF Shape, Kept, StepFails, dbVars, enablerVars, flowVars, Fault, Record
<1>7. BrandInv(b)'
  BY <1>3, <1>4, <1>5 DEF BrandInv
<1> HIDE DEF IInv, Shape, BrandInv, Kept
<1> QED
  BY <1>2, <1>6, <1>7, OneBrand

LEMMA ChangeKeeps ==
  ASSUME IInv, NEW b \in Brands, Change(b)
  PROVE  IInv'
PROOF
<1>1. BrandInv(b) /\ Shape
  BY DEF IInv
<1>2. Shape'
  BY <1>1, WalAssumption DEF Shape, BrandInv, BrandType, Past, Ended, Change, dbVars, enablerVars, flowVars
<1>3. BrandType(b)'
  BY <1>1, WalAssumption DEF Shape, BrandInv, BrandType, Ordered, Past, Ended, Change, dbVars, enablerVars, flowVars
<1>4. Ordered(b)'
  BY <1>1, WalAssumption DEF Shape, BrandInv, BrandType, Ordered, Past, Ended, Change, dbVars, enablerVars, flowVars
<1>5. Meets(b)'
  BY <1>1, WalAssumption DEF Shape, BrandInv, BrandType, Ordered, Meets, Covered, Past, Change, dbVars, enablerVars, flowVars
<1>6. \A c \in Brands \ {b} : Kept(c)
  BY <1>1 DEF Shape, Kept, Change, dbVars, enablerVars, flowVars
<1>7. BrandInv(b)'
  BY <1>3, <1>4, <1>5 DEF BrandInv
<1> HIDE DEF IInv, Shape, BrandInv, Kept
<1> QED
  BY <1>2, <1>6, <1>7, OneBrand

LEMMA CopyTablesKeeps ==
  ASSUME IInv, NEW b \in Brands, CopyTables(b)
  PROVE  IInv'
PROOF
<1>1. BrandInv(b) /\ Shape
  BY DEF IInv
<1>2. Shape'
  BY <1>1, WalAssumption DEF Shape, BrandInv, BrandType, Past, Ended, CopyTables, dbVars, enablerVars, flowVars
<1>3. BrandType(b)'
  BY <1>1, WalAssumption DEF Shape, BrandInv, BrandType, Ordered, Past, Ended, CopyTables, dbVars, enablerVars, flowVars
<1>4. Ordered(b)'
  BY <1>1, WalAssumption DEF Shape, BrandInv, BrandType, Ordered, Past, Ended, CopyTables, dbVars, enablerVars, flowVars
<1>5. Meets(b)'
  BY <1>1, WalAssumption DEF Shape, BrandInv, BrandType, Ordered, Meets, Covered, Past, CopyTables, dbVars, enablerVars, flowVars
<1>6. \A c \in Brands \ {b} : Kept(c)
  BY <1>1 DEF Shape, Kept, CopyTables, dbVars, enablerVars, flowVars
<1>7. BrandInv(b)'
  BY <1>3, <1>4, <1>5 DEF BrandInv
<1> HIDE DEF IInv, Shape, BrandInv, Kept
<1> QED
  BY <1>2, <1>6, <1>7, OneBrand

LEMMA StartStreamKeeps ==
  ASSUME IInv, NEW b \in Brands, StartStream(b)
  PROVE  IInv'
PROOF
<1>1. BrandInv(b) /\ Shape
  BY DEF IInv
<1>2. slot[b] \in 0..wal[b] /\ bookmark[b] \in 0..wal[b] /\ wal[b] \in 0..MaxChanges
  BY <1>1 DEF BrandInv, BrandType, Past, StartStream
<1>3. /\ ResumesAt(b) \in 0..wal[b]
      /\ ResumesAt(b) >= slot[b] /\ ResumesAt(b) >= bookmark[b]
      /\ ResumesAt(b) \in {slot[b], bookmark[b]}
  <2>1. slot[b] \in Nat /\ bookmark[b] \in Nat
    BY <1>2
  <2>2. /\ Max({slot[b], bookmark[b]}) \in {slot[b], bookmark[b]}
        /\ Max({slot[b], bookmark[b]}) >= slot[b]
        /\ Max({slot[b], bookmark[b]}) >= bookmark[b]
    BY <2>1, MaxOfTwo
  <2> QED
    BY <1>2, <2>2 DEF ResumesAt
<1>4. hot' = [hot EXCEPT ![b] = ResumesAt(b)] /\ hot \in [Brands -> 0..MaxChanges \union {NoLsn}]
  BY <1>1 DEF Shape, StartStream
<1>5. hot'[b] = ResumesAt(b) /\ hot'[b] # NoLsn
  BY <1>3, <1>4, <1>2, WalAssumption
<1> HIDE DEF ResumesAt
<1>6. Shape'
  <2>1. ResumesAt(b) \in 0..MaxChanges
    BY <1>2, <1>3, WalAssumption
  <2>2. hot' \in [Brands -> 0..MaxChanges \union {NoLsn}]
    BY <1>4, <2>1
  <2> QED
    BY <1>1, <2>2 DEF Shape, StartStream, dbVars, enablerVars
<1>7. BrandType(b)'
  BY <1>1, <1>3, <1>5 DEF BrandInv, BrandType, Past, StartStream, dbVars, enablerVars
<1>8. Ordered(b)'
  <2>1. pub[b] <= ResumesAt(b)
    <3>1. pub[b] \in 0..wal[b] /\ pub[b] <= bookmark[b]
      BY <1>1 DEF BrandInv, BrandType, Ordered, Past, StartStream
    <3> QED
      BY <1>2, <1>3, <3>1
  <2> QED
    BY <1>1, <1>5, <2>1 DEF BrandInv, Ordered, StartStream, dbVars, enablerVars
<1>9. Meets(b)'
  <2>1. SUFFICES ASSUME ~late[b], cold[b] # NoLsn, NEW change \in 1..wal[b]
                 PROVE  Covered(b, change)'
    BY DEF Meets, StartStream, dbVars
  <2>2. Covered(b, change)
    BY <1>1, <2>1 DEF BrandInv, Meets, StartStream
  <2>3. change > slot[b] /\ change > bookmark[b] => change > ResumesAt(b)
    BY <1>3
  <2> QED
    BY <1>5, <2>2, <2>3 DEF Covered, StartStream, dbVars
<1>10. \A c \in Brands \ {b} : Kept(c)
  BY <1>4 DEF Kept, StartStream, dbVars, enablerVars
<1>11. BrandInv(b)'
  BY <1>7, <1>8, <1>9 DEF BrandInv
<1> HIDE DEF IInv, Shape, BrandInv, Kept
<1> QED
  BY <1>6, <1>10, <1>11, OneBrand

LEMMA StreamChangeKeeps ==
  ASSUME IInv, NEW b \in Brands, StreamChange(b)
  PROVE  IInv'
PROOF
<1>1. BrandInv(b) /\ Shape
  BY DEF IInv
<1>2. Shape'
  BY <1>1, WalAssumption DEF Shape, BrandInv, BrandType, Past, Ended, StreamChange, dbVars, enablerVars, flowVars
<1>3. BrandType(b)'
  BY <1>1, WalAssumption DEF Shape, BrandInv, BrandType, Ordered, Past, Ended, StreamChange, dbVars, enablerVars, flowVars
<1>4. Ordered(b)'
  BY <1>1, WalAssumption DEF Shape, BrandInv, BrandType, Ordered, Past, Ended, StreamChange, dbVars, enablerVars, flowVars
<1>5. Meets(b)'
  <2>1. SUFFICES ASSUME ~late[b], cold[b] # NoLsn, NEW change \in 1..wal[b]
                 PROVE  Covered(b, change)'
    BY <1>1 DEF BrandInv, Ordered, Meets, StreamChange, dbVars, enablerVars
  <2>2. Covered(b, change) /\ hot[b] \in 0..wal[b] /\ wal[b] \in Nat
    BY <1>1, <2>1 DEF BrandInv, BrandType, Past, Ordered, Meets, StreamChange
  <2>3. /\ hot'[b] = hot[b] + 1
        /\ streamed'[b] = streamed[b] \union {hot[b] + 1}
    BY <1>1 DEF Shape, StreamChange
  <2>4. change > hot[b] => change > hot[b] + 1 \/ change = hot[b] + 1
    BY <2>2
  <2> QED
    BY <2>2, <2>3, <2>4 DEF Covered, StreamChange, dbVars
<1>6. \A c \in Brands \ {b} : Kept(c)
  BY <1>1 DEF Shape, Kept, StreamChange, dbVars, enablerVars, flowVars
<1>7. BrandInv(b)'
  BY <1>3, <1>4, <1>5 DEF BrandInv
<1> HIDE DEF IInv, Shape, BrandInv, Kept
<1> QED
  BY <1>2, <1>6, <1>7, OneBrand

LEMMA AdvanceSlotKeeps ==
  ASSUME IInv, NEW b \in Brands, AdvanceSlot(b)
  PROVE  IInv'
PROOF
<1>1. BrandInv(b) /\ Shape
  BY DEF IInv
<1>2. Shape'
  BY <1>1, WalAssumption DEF Shape, BrandInv, BrandType, Past, Ended, AdvanceSlot, dbVars, enablerVars, flowVars
<1>3. BrandType(b)'
  BY <1>1, WalAssumption DEF Shape, BrandInv, BrandType, Ordered, Past, Ended, AdvanceSlot, dbVars, enablerVars, flowVars
<1>4. Ordered(b)'
  BY <1>1, WalAssumption DEF Shape, BrandInv, BrandType, Ordered, Past, Ended, AdvanceSlot, dbVars, enablerVars, flowVars
<1>5. Meets(b)'
  BY <1>1, WalAssumption DEF Shape, BrandInv, BrandType, Ordered, Meets, Covered, Past, AdvanceSlot, dbVars, enablerVars, flowVars
<1>6. \A c \in Brands \ {b} : Kept(c)
  BY <1>1 DEF Shape, Kept, AdvanceSlot, dbVars, enablerVars, flowVars
<1>7. BrandInv(b)'
  BY <1>3, <1>4, <1>5 DEF BrandInv
<1> HIDE DEF IInv, Shape, BrandInv, Kept
<1> QED
  BY <1>2, <1>6, <1>7, OneBrand

LEMMA SavePositionKeeps ==
  ASSUME IInv, NEW b \in Brands, SavePosition(b)
  PROVE  IInv'
PROOF
<1>1. BrandInv(b) /\ Shape
  BY DEF IInv
<1>2. Shape'
  BY <1>1, WalAssumption DEF Shape, BrandInv, BrandType, Past, Ended, SavePosition, dbVars, enablerVars, flowVars
<1>3. BrandType(b)'
  BY <1>1, WalAssumption DEF Shape, BrandInv, BrandType, Ordered, Past, Ended, SavePosition, dbVars, enablerVars, flowVars
<1>4. Ordered(b)'
  BY <1>1, WalAssumption DEF Shape, BrandInv, BrandType, Ordered, Past, Ended, SavePosition, dbVars, enablerVars, flowVars
<1>5. Meets(b)'
  BY <1>1, WalAssumption DEF Shape, BrandInv, BrandType, Ordered, Meets, Covered, Past, SavePosition, dbVars, enablerVars, flowVars
<1>6. \A c \in Brands \ {b} : Kept(c)
  BY <1>1 DEF Shape, Kept, SavePosition, dbVars, enablerVars, flowVars
<1>7. BrandInv(b)'
  BY <1>3, <1>4, <1>5 DEF BrandInv
<1> HIDE DEF IInv, Shape, BrandInv, Kept
<1> QED
  BY <1>2, <1>6, <1>7, OneBrand

LEMMA StreamStopsKeeps ==
  ASSUME IInv, NEW b \in Brands, StreamStops(b)
  PROVE  IInv'
PROOF
<1>1. BrandInv(b) /\ Shape
  BY DEF IInv
<1>2. Shape'
  BY <1>1, WalAssumption DEF Shape, BrandInv, BrandType, Past, Ended, StreamStops, dbVars, enablerVars, flowVars, Fault
<1>3. BrandType(b)'
  BY <1>1, WalAssumption DEF Shape, BrandInv, BrandType, Ordered, Past, Ended, StreamStops, dbVars, enablerVars, flowVars, Fault
<1>4. Ordered(b)'
  BY <1>1, WalAssumption DEF Shape, BrandInv, BrandType, Ordered, Past, Ended, StreamStops, dbVars, enablerVars, flowVars, Fault
<1>5. Meets(b)'
  BY <1>1, WalAssumption DEF Shape, BrandInv, BrandType, Ordered, Meets, Covered, Past, StreamStops, dbVars, enablerVars, flowVars, Fault
<1>6. \A c \in Brands \ {b} : Kept(c)
  BY <1>1 DEF Shape, Kept, StreamStops, dbVars, enablerVars, flowVars, Fault
<1>7. BrandInv(b)'
  BY <1>3, <1>4, <1>5 DEF BrandInv
<1> HIDE DEF IInv, Shape, BrandInv, Kept
<1> QED
  BY <1>2, <1>6, <1>7, OneBrand
LEMMA StartEnablerKeeps ==
  ASSUME IInv, StartEnabler
  PROVE  IInv'
PROOF
<1>1. Shape'
  BY WalAssumption DEF IInv, Shape, StartEnabler, Ended, dbVars, flowVars
<1>2. ASSUME NEW b \in Brands PROVE BrandInv(b)'
  <2>1. BrandInv(b) /\ at'[b] = "connect"
    BY DEF IInv, StartEnabler
  <2> QED
    BY <2>1 DEF BrandInv, BrandType, Ordered, Meets, Covered, Past, StartEnabler,
                dbVars, flowVars
<1> QED
  BY <1>1, <1>2 DEF IInv

LEMMA StutterKeeps ==
  ASSUME IInv, UNCHANGED vars
  PROVE  IInv'
BY DEF IInv, Shape, BrandInv, BrandType, Ordered, Meets, Covered, Past, vars, dbVars,
       enablerVars, flowVars

LEMMA StepIInv ==
  IInv /\ [Next]_vars => IInv'
PROOF
<1> SUFFICES ASSUME IInv, [Next]_vars PROVE IInv'
  OBVIOUS
<1>1. CASE StartEnabler
  BY <1>1, StartEnablerKeeps
<1>2. ASSUME NEW b \in Brands, Enabling(b) PROVE IInv'
  BY <1>2, ConnectKeeps, EnsureSlotKeeps, EnsurePublicationKeeps, ReadLsnKeeps,
     RecordLsnKeeps DEF Enabling
<1>3. ASSUME NEW b \in Brands, StepFails(b) \/ Change(b) \/ CopyTables(b) PROVE IInv'
  BY <1>3, StepFailsKeeps, ChangeKeeps, CopyTablesKeeps
<1>4. ASSUME NEW b \in Brands, Streaming(b) \/ StreamStops(b) PROVE IInv'
  BY <1>4, StartStreamKeeps, StreamChangeKeeps, AdvanceSlotKeeps, SavePositionKeeps,
     StreamStopsKeeps DEF Streaming
<1>5. CASE UNCHANGED vars
  BY <1>5, StutterKeeps
<1> QED
  BY <1>1, <1>2, <1>3, <1>4, <1>5 DEF Next

-----------------------------------------------------------------------------
(* Theorems *)

LEMMA Invariance ==
  Spec => []IInv
BY InitIInv, StepIInv, PTL DEF Spec

\* Slots, publications, bookmarks and positions of the streams are LSNs the brand
\* has already reached, or none, through failed statements and runs made again.
THEOREM TypeCorrect ==
  Spec => []TypeOK
PROOF
<1>1. IInv => TypeOK
  BY DEF IInv, Shape, BrandInv, BrandType, TypeOK
<1> QED
  BY <1>1, Invariance, PTL

\* Whatever failed between the three statements of wal_enabler, a recorded
\* bookmark has a slot and a publication, and the publication is not above it.
THEOREM BookmarksStream ==
  Spec => []BookmarkIsStreamable
PROOF
<1>1. IInv => BookmarkIsStreamable
  BY DEF IInv, BrandInv, Ordered, BookmarkIsStreamable
<1> QED
  BY <1>1, Invariance, PTL

\* No change is lost between the copy of the tables and the stream, however often
\* the enabler fails and the stream is stopped, unless a bookmark is recorded
\* after the copy.
THEOREM FlowsMeet ==
  Spec => []ColdAndHotMeet
PROOF
<1>1. ASSUME IInv PROVE ColdAndHotMeet
  <2>1. SUFFICES ASSUME NEW b \in Brands, ~late[b], cold[b] # NoLsn, bookmark[b] # NoLsn,
                        NEW change \in 1..wal[b]
                 PROVE  Reachable(b, change)
    BY DEF ColdAndHotMeet
  <2>2. Covered(b, change) /\ slot[b] \in Nat /\ bookmark[b] \in Nat
    BY <1>1, <2>1 DEF IInv, BrandInv, BrandType, Past, Ordered, Meets
  <2>3. ResumesAt(b) \in {slot[b], bookmark[b]}
    BY <2>2, MaxOfTwo DEF ResumesAt
  <2> HIDE DEF ResumesAt
  <2> QED
    BY <2>2, <2>3 DEF Covered, Reachable
<1> QED
  BY <1>1, Invariance, PTL
=============================================================================
