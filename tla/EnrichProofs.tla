---------------------------- MODULE EnrichProofs ----------------------------
(***************************************************************************)
(* Proofs about the enrich service, for every number of POSTs and every    *)
(* batch size, and about the two flows that use it.                        *)
(*                                                                         *)
(* The service: its inductive invariant IndInv says that each of the three *)
(* lists holds whole runs of POSTs in order (Aligned), that no POST is in  *)
(* two of them, and that they hold, with the dropped records, exactly what *)
(* was accepted.  Conservation and PostOrder follow from it, and so does   *)
(* every step of the refinement of ResultFeed.                             *)
(*                                                                         *)
(* The flows: PipeInv adds to IndInv that every message Flow 34 has passed *)
(* was in a POST or is in the backlog, and that the page in Flow 35's      *)
(* hands continues the list of results at its cursor.                      *)
(***************************************************************************)
EXTENDS EnrichPipeline, SequenceTheorems, TLAPS

\* The POSTs a list holds records of.
PostsOf(s) == {r.post : r \in Range(s)}

DroppedPosts == {r.post : r \in dropped}

\* The answer of a round does not outlive it.
TypeInv == TypeOK /\ (worker # "embedded" => answered = 0)

IndInv ==
  /\ TypeInv
  /\ Aligned(pending) /\ Aligned(batch) /\ Aligned(done)
  /\ PostsOf(pending) \intersect PostsOf(batch) = {}
  /\ PostsOf(pending) \intersect PostsOf(done) = {}
  /\ PostsOf(batch) \intersect PostsOf(done) = {}
  /\ DroppedPosts \intersect (PostsOf(pending) \union PostsOf(batch)) = {}
  /\ dropped \intersect Range(done) = {}
  /\ InMemory \union dropped = Accepted

-----------------------------------------------------------------------------
(* Lists of records *)

\* Elements of a list of records, by position.
LEMMA RecordAt ==
  ASSUME NEW s \in Seq(Record)
  PROVE  /\ DOMAIN s = 1..Len(s) /\ Len(s) \in Nat
         /\ \A i \in 1..Len(s) : s[i] \in Record /\ s[i].post \in Nat /\ s[i].idx \in Nat
         /\ Range(s) = {s[i] : i \in 1..Len(s)}
         /\ Range(s) \subseteq Record
<1>1. DOMAIN s = 1..Len(s) /\ Len(s) \in Nat
  BY LenProperties
<1>2. \A i \in 1..Len(s) : s[i] \in Record
  BY ElementOfSeq
<1>3. Range(s) = {s[i] : i \in 1..Len(s)}
  BY <1>1 DEF Range
<1>4. \A r \in Record : r.post \in Nat /\ r.idx \in Nat
  BY DEF Record
<1> QED
  BY <1>1, <1>2, <1>3, <1>4

\* The list u is s followed by t.
IsConcat(u, s, t) ==
  /\ Len(u) = Len(s) + Len(t)
  /\ \A i \in 1..Len(s) : u[i] = s[i]
  /\ \A i \in 1..Len(t) : u[i + Len(s)] = t[i]

\* One aligned list after another, with no POST in common, is aligned.
LEMMA AlignedConcat ==
  ASSUME NEW s \in Seq(Record), NEW t \in Seq(Record), NEW u \in Seq(Record),
         IsConcat(u, s, t),
         Aligned(s), Aligned(t), PostsOf(s) \intersect PostsOf(t) = {}
  PROVE  Aligned(u)
<1>1. /\ Len(s) \in Nat /\ Len(t) \in Nat
      /\ DOMAIN s = 1..Len(s) /\ DOMAIN t = 1..Len(t) /\ DOMAIN u = 1..Len(u)
  BY RecordAt
<1>2. \A i \in 1..Len(u) :
        i \in 1..Len(s) \/ \E a \in 1..Len(t) : i = a + Len(s)
  <2> TAKE i \in 1..Len(u)
  <2>1. CASE i <= Len(s)
    BY <2>1, <1>1
  <2>2. CASE i > Len(s)
    <3>1. i - Len(s) \in 1..Len(t) /\ i = (i - Len(s)) + Len(s)
      BY <2>2, <1>1 DEF IsConcat
    <3> QED
      BY <3>1
  <2>3. i \in Nat
    BY <1>1
  <2>4. i <= Len(s) \/ i > Len(s)
    BY <2>3, <1>1
  <2> QED
    BY <2>1, <2>2, <2>4, Zenon
<1>3. \A p \in 1..Len(s), q \in 1..Len(t) : s[p].post # t[q].post
  <2> TAKE p \in 1..Len(s), q \in 1..Len(t)
  <2>1. s[p].post \in PostsOf(s) /\ t[q].post \in PostsOf(t)
    BY RecordAt DEF PostsOf
  <2> QED
    BY <2>1
<1> SUFFICES ASSUME NEW i \in 1..Len(u), NEW j \in 1..Len(u), u[i].post = u[j].post
             PROVE  u[i].idx + j = u[j].idx + i
  BY <1>1 DEF Aligned
<1>4. CASE i \in 1..Len(s) /\ j \in 1..Len(s)
  BY <1>1, <1>4 DEF Aligned, IsConcat
<1>5. ASSUME NEW a \in 1..Len(t), NEW b \in 1..Len(t), i = a + Len(s), j = b + Len(s)
      PROVE  u[i].idx + j = u[j].idx + i
  <2>1. u[i] = t[a] /\ u[j] = t[b]
    BY <1>5 DEF IsConcat
  <2>2. t[a].idx \in Nat /\ t[b].idx \in Nat /\ a \in Nat /\ b \in Nat
    BY RecordAt
  <2>3. t[a].idx + b = t[b].idx + a
    BY <1>1, <2>1 DEF Aligned
  <2>4. \A x, y \in Nat : x + b = y + a => x + (b + Len(s)) = y + (a + Len(s))
    <3>1. a \in Nat /\ b \in Nat /\ Len(s) \in Nat
      BY <2>2, <1>1
    <3>2. \A n \in Nat, x, y \in Nat : x + b = y + a => x + (b + n) = y + (a + n)
      BY <3>1, SMTT(30)
    <3> QED
      BY <3>1, <3>2, Zenon
  <2>5. t[a].idx + (b + Len(s)) = t[b].idx + (a + Len(s))
    BY <2>2, <2>3, <2>4, Zenon
  <2>6. u[i].idx = t[a].idx /\ u[j].idx = t[b].idx
    BY <2>1
  <2> QED
    BY <1>5, <2>5, <2>6
<1>6. \A p \in 1..Len(s), q \in 1..Len(t) : u[p].post # u[q + Len(s)].post
  BY <1>3, SMTT(30) DEF IsConcat
<1>7. ~(i \in 1..Len(s) /\ \E b \in 1..Len(t) : j = b + Len(s))
  BY <1>6, Zenon
<1>8. ~(j \in 1..Len(s) /\ \E a \in 1..Len(t) : i = a + Len(s))
  BY <1>6, Zenon
<1>9. /\ i \in 1..Len(s) \/ \E a \in 1..Len(t) : i = a + Len(s)
      /\ j \in 1..Len(s) \/ \E b \in 1..Len(t) : j = b + Len(s)
  BY <1>2, Zenon
<1> QED
  BY <1>4, <1>5, <1>7, <1>8, <1>9, Zenon

\* Concatenating two lists keeps the records and the POSTs of both.
LEMMA ConcatRuns ==
  ASSUME NEW s \in Seq(Record), NEW t \in Seq(Record)
  PROVE  /\ s \o t \in Seq(Record)
         /\ Len(s \o t) = Len(s) + Len(t)
         /\ Range(s \o t) = Range(s) \union Range(t)
         /\ PostsOf(s \o t) = PostsOf(s) \union PostsOf(t)
         /\ (/\ Aligned(s) /\ Aligned(t)
             /\ PostsOf(s) \intersect PostsOf(t) = {})
            => Aligned(s \o t)
<1>1. /\ s \o t \in Seq(Record) /\ Len(s \o t) = Len(s) + Len(t)
      /\ \A i \in 1..Len(s) + Len(t) :
           (s \o t)[i] = IF i <= Len(s) THEN s[i] ELSE t[i - Len(s)]
  BY ConcatProperties
<1>2. Range(s \o t) = Range(s) \union Range(t)
  BY RangeConcatenation
<1>3. PostsOf(s \o t) = PostsOf(s) \union PostsOf(t)
  BY <1>2 DEF PostsOf
<1>4. Len(s) \in Nat /\ Len(t) \in Nat
  BY RecordAt
<1>5. \A i \in 1..Len(s) : (s \o t)[i] = s[i]
  BY <1>1, <1>4
<1>6. \A i \in 1..Len(t) : (s \o t)[i + Len(s)] = t[i]
  <2> TAKE i \in 1..Len(t)
  <2>1. /\ i + Len(s) \in 1..Len(s) + Len(t)
        /\ ~(i + Len(s) <= Len(s)) /\ (i + Len(s)) - Len(s) = i
    BY <1>4
  <2> QED
    BY <1>1, <2>1
<1> QED
  BY <1>1, <1>2, <1>3, <1>5, <1>6, AlignedConcat DEF IsConcat

\* An aligned list holds no record twice.
LEMMA AlignedInjective ==
  ASSUME NEW s \in Seq(Record), Aligned(s)
  PROVE  IsInjective(s)
  BY RecordAt DEF Aligned, IsInjective

\* The part of a batch that was answered and the part that was not.
LEMMA SplitBatch ==
  ASSUME NEW s \in Seq(Record), Aligned(s), NEW k \in 0..Len(s)
  PROVE  LET front == SubSeq(s, 1, k)
             rest  == {s[i] : i \in k + 1..Len(s)}
         IN  /\ front \in Seq(Record) /\ Len(front) = k
             /\ Aligned(front) /\ IsInjective(front)
             /\ Range(front) \union rest = Range(s)
             /\ Range(front) \intersect rest = {}
             /\ rest \subseteq Record
             /\ PostsOf(front) \subseteq PostsOf(s)
             /\ {r.post : r \in rest} \subseteq PostsOf(s)
<1> DEFINE front == SubSeq(s, 1, k)
           rest  == {s[i] : i \in k + 1..Len(s)}
<1>1. /\ front \in Seq(Record) /\ Len(front) = k
      /\ \A i \in 1..k : front[i] = s[i]
  <2>1. \A i \in 1..k : s[i] \in Record
    BY RecordAt
  <2> QED
    BY <2>1, SubSeqProperties, RecordAt
<1>2. Aligned(front)
  <2> SUFFICES ASSUME NEW i \in 1..k, NEW j \in 1..k, front[i].post = front[j].post
               PROVE  front[i].idx + j = front[j].idx + i
    BY <1>1, RecordAt DEF Aligned
  <2>1. i \in 1..Len(s) /\ j \in 1..Len(s) /\ front[i] = s[i] /\ front[j] = s[j]
    BY <1>1, RecordAt
  <2> QED
    BY <2>1, RecordAt DEF Aligned
<1>3. Range(front) = {s[i] : i \in 1..k}
  <2>1. Range(front) = {front[i] : i \in 1..k}
    BY <1>1, RecordAt
  <2> QED
    BY <1>1, <2>1
<1>4. IsInjective(front)
  BY <1>1, <1>2, AlignedInjective
<1>5. \A i, j \in 1..Len(s) : s[i] = s[j] => i = j
  BY AlignedInjective, RecordAt DEF IsInjective
<1>6. Range(front) \union rest = Range(s) /\ rest \subseteq Record
  BY <1>3, RecordAt
<1>7. Range(front) \intersect rest = {}
  BY <1>3, <1>5, RecordAt
<1>8. PostsOf(front) \subseteq PostsOf(s) /\ {r.post : r \in rest} \subseteq PostsOf(s)
  BY <1>6 DEF PostsOf
<1> QED
  BY <1>1, <1>2, <1>4, <1>6, <1>7, <1>8

\* What the empty list holds.
LEMMA EmptyList ==
  /\ <<>> \in Seq(Record) /\ Len(<<>>) = 0
  /\ Range(<<>>) = {} /\ PostsOf(<<>>) = {} /\ Aligned(<<>>)
<1>1. <<>> \in Seq(Record) /\ Len(<<>>) = 0 /\ DOMAIN <<>> = {}
  OBVIOUS
<1>2. Range(<<>>) = {}
  BY <1>1 DEF Range
<1> QED
  BY <1>1, <1>2 DEF PostsOf, Aligned

-----------------------------------------------------------------------------
(* Types *)

LEMMA InitType == Init => TypeInv
  BY EmptyList DEF Init, TypeInv, TypeOK, WorkerState

LEMMA NextType == TypeInv /\ [Next]_vars => TypeInv'
<1> SUFFICES ASSUME TypeInv, [Next]_vars
             PROVE  TypeInv'
  OBVIOUS
<1> USE DEF TypeInv, TypeOK, WorkerState
<1>1. ASSUME NEW n \in 0..MaxBatch, Enrich(n)
      PROVE  TypeInv'
  <2> DEFINE new == [i \in 1..n |-> [post |-> Len(posts) + 1, idx |-> i]]
  <2>1. n \in Nat
    BY EnrichAssumption
  <2>2. new \in Seq(Record)
    BY <2>1, LenProperties DEF Record
  <2>3. pending' \in Seq(Record)
    BY <1>1, <2>2, ConcatProperties DEF Enrich
  <2>4. posts' \in Seq(Nat) /\ Len(posts') = Len(posts) + 1
    BY <1>1, <2>1, AppendProperties DEF Enrich
  <2>5. born' \in 0..Len(posts')
    BY <1>1, <2>4, LenProperties DEF Enrich
  <2> QED
    BY <1>1, <2>3, <2>4, <2>5 DEF Enrich
<1>2. CASE Drain
  <2>1. Len(pending) \in Nat
    BY LenProperties
  <2> QED
    BY <1>2, <2>1, EmptyList DEF Drain
<1>3. ASSUME NEW k \in 0..Len(batch), EmbedAnswer(k)
      PROVE  TypeInv'
  BY <1>3 DEF EmbedAnswer
<1>4. CASE EmbedError
  BY <1>4 DEF EmbedError
<1>5. CASE AppendDone
  <2>1. /\ Len(batch) \in Nat
        /\ \A i \in 1..Len(batch) : batch[i] \in Record
    BY RecordAt
  <2>2. SubSeq(batch, 1, answered) \in Seq(Record)
    <3>1. \A i \in 1..answered : batch[i] \in Record
      BY <2>1
    <3> QED
      BY <2>1, <3>1, SubSeqProperties
  <2>3. done' \in Seq(Record)
    BY <1>5, <2>2, ConcatProperties DEF AppendDone
  <2>4. {batch[i] : i \in answered + 1..Len(batch)} \subseteq Record
    BY <2>1
  <2> QED
    BY <1>5, <2>3, <2>4, EmptyList DEF AppendDone
<1>6. CASE Requeue
  <2>1. pending' \in Seq(Record)
    BY <1>6, ConcatProperties DEF Requeue
  <2> QED
    BY <1>6, <2>1, EmptyList DEF Requeue
<1>7. CASE WakeUp
  BY <1>7 DEF WakeUp
<1>8. CASE Restart
  <2>1. Len(posts) \in Nat
    BY LenProperties
  <2> QED
    BY <1>8, <2>1, EmptyList DEF Restart
<1>9. CASE UNCHANGED vars
  BY <1>9 DEF vars
<1> QED
  BY <1>1, <1>2, <1>3, <1>4, <1>5, <1>6, <1>7, <1>8, <1>9
  DEF Next, WorkerStep, EmbedReturns

\* Every list holds records, the worker holds a batch exactly while it is in a
\* round, and the answer it remembers is never longer than that batch.
THEOREM TypeCorrect == Spec => []TypeOK
<1>1. TypeInv => TypeOK
  BY DEF TypeInv
<1> QED
  BY InitType, NextType, <1>1, PTL DEF Spec

-----------------------------------------------------------------------------
(* The inductive invariant *)

\* Records in hand come from POSTs that were accepted.
LEMMA KnownPosts ==
  ASSUME IndInv
  PROVE  /\ PostsOf(pending) \subseteq 1..Len(posts)
         /\ PostsOf(batch) \subseteq 1..Len(posts)
         /\ PostsOf(done) \subseteq 1..Len(posts)
         /\ DroppedPosts \subseteq 1..Len(posts)
<1>1. Len(posts) \in Nat /\ born \in Nat
  BY LenProperties DEF IndInv, TypeInv, TypeOK
<1>2. \A r \in Accepted : r.post \in 1..Len(posts)
  BY <1>1 DEF Accepted
<1>3. \A r \in InMemory \union dropped : r.post \in 1..Len(posts)
  BY <1>2 DEF IndInv
<1> QED
  BY <1>3 DEF InMemory, PostsOf, DroppedPosts

LEMMA InitInd == Init => IndInv
<1> SUFFICES ASSUME Init PROVE IndInv
  OBVIOUS
<1>1. Len(posts) = 0 /\ born = 0
  BY DEF Init
<1>2. Accepted = {}
  BY <1>1 DEF Accepted
<1> QED
  BY <1>2, InitType, EmptyList DEF Init, IndInv, InMemory, DroppedPosts

LEMMA EnrichInd ==
  ASSUME IndInv, TypeInv', NEW n \in 0..MaxBatch, Enrich(n)
  PROVE  IndInv'
<1> DEFINE p   == Len(posts) + 1
           new == [i \in 1..n |-> [post |-> p, idx |-> i]]
<1>1. n \in Nat /\ Len(posts) \in Nat /\ p \in Nat /\ born \in 0..Len(posts)
  BY EnrichAssumption, LenProperties DEF IndInv, TypeInv, TypeOK
<1>2. /\ new \in Seq(Record) /\ Len(new) = n /\ DOMAIN new = 1..n
      /\ \A i \in 1..n : new[i] = [post |-> p, idx |-> i]
  BY <1>1 DEF Record
<1>3. Range(new) = {[post |-> p, idx |-> i] : i \in 1..n}
  BY <1>2 DEF Range
<1>4. PostsOf(new) \subseteq {p}
  <2>1. \A r \in Range(new) : r.post = p
    BY <1>3
  <2> QED
    BY <2>1 DEF PostsOf
<1>5. Aligned(new)
  <2>1. \A i, j \in 1..n : i + j = j + i
    BY <1>1
  <2> QED
    BY <1>2, <2>1 DEF Aligned
<1>6. p \notin 1..Len(posts)
  BY <1>1
<1>7. /\ p \notin PostsOf(pending) /\ p \notin PostsOf(batch)
      /\ p \notin PostsOf(done) /\ p \notin DroppedPosts
  BY <1>6, KnownPosts
<1>8. /\ pending' = pending \o new /\ posts' = Append(posts, n)
      /\ batch' = batch /\ done' = done /\ dropped' = dropped
      /\ born' = born /\ worker' = worker /\ answered' = answered
  BY DEF Enrich
<1>9. /\ Range(pending') = Range(pending) \union Range(new)
      /\ PostsOf(pending') = PostsOf(pending) \union PostsOf(new)
      /\ Aligned(pending')
  <2>1. PostsOf(pending) \intersect PostsOf(new) = {}
    BY <1>4, <1>7
  <2>2. pending \in Seq(Record) /\ Aligned(pending)
    BY DEF IndInv, TypeInv, TypeOK
  <2>3. new \in Seq(Record) /\ Aligned(new) /\ pending' = pending \o new
    BY <1>2, <1>5, <1>8
  <2> HIDE DEF new
  <2> QED
    BY <2>1, <2>2, <2>3, ConcatRuns
<1>10. Accepted' = Accepted \union Range(new)
  <2>1. /\ Len(posts') = p /\ posts'[p] = n
        /\ \A q \in 1..Len(posts) : posts'[q] = posts[q]
    BY <1>1, <1>8, AppendProperties DEF IndInv, TypeInv, TypeOK
  <2>2. ASSUME NEW r \in Record
        PROVE  r \in Accepted' <=> r \in Accepted \/ r \in Range(new)
    <3>1. CASE r.post = p
      <4>1. r.post \in born + 1..Len(posts') /\ r.post \notin born + 1..Len(posts)
        BY <1>1, <2>1, <3>1
      <4>2. r \in Accepted' <=> r.idx \in 1..n
        BY <1>8, <2>1, <3>1, <4>1 DEF Accepted
      <4>3. r = [post |-> r.post, idx |-> r.idx]
        BY DEF Record
      <4>4. r \in Range(new) <=> r.idx \in 1..n
        BY <1>3, <3>1, <4>3
      <4> QED
        BY <4>1, <4>2, <4>4 DEF Accepted
    <3>2. CASE r.post # p
      <4>1. r \notin Range(new)
        BY <1>3, <3>2
      <4>2. r.post \in Nat
        BY DEF Record
      <4>3. r.post \in born + 1..Len(posts') <=> r.post \in born + 1..Len(posts)
        BY <1>1, <2>1, <3>2, <4>2
      <4>4. r.post \in born + 1..Len(posts) => posts'[r.post] = posts[r.post]
        BY <1>1, <2>1
      <4> QED
        BY <1>8, <4>1, <4>3, <4>4 DEF Accepted
    <3> QED
      BY <3>1, <3>2
  <2>3. Accepted \subseteq Record /\ Accepted' \subseteq Record /\ Range(new) \subseteq Record
    BY <1>2, RecordAt DEF Accepted
  <2> QED
    BY <2>2, <2>3
<1>11. (InMemory \union dropped)' = Accepted'
  BY <1>8, <1>9, <1>10 DEF IndInv, InMemory
<1>12. DroppedPosts' = DroppedPosts
  BY <1>8 DEF DroppedPosts
<1> QED
  BY <1>4, <1>7, <1>8, <1>9, <1>11, <1>12 DEF IndInv

LEMMA DrainInd ==
  ASSUME IndInv, TypeInv', Drain
  PROVE  IndInv'
<1>1. batch = <<>>
  BY DEF Drain, IndInv, TypeInv, TypeOK
<1>2. Accepted' = Accepted /\ DroppedPosts' = DroppedPosts
  BY DEF Drain, Accepted, DroppedPosts
<1>3. (InMemory \union dropped)' = InMemory \union dropped
  BY <1>1, EmptyList DEF Drain, InMemory
<1>4. /\ batch' = pending /\ pending' = <<>> /\ done' = done /\ dropped' = dropped
  BY DEF Drain
<1> QED
  BY <1>1, <1>2, <1>3, <1>4, EmptyList DEF IndInv

LEMMA AppendDoneInd ==
  ASSUME IndInv, TypeInv', AppendDone
  PROVE  IndInv'
<1> DEFINE front == SubSeq(batch, 1, answered)
           rest  == {batch[i] : i \in answered + 1..Len(batch)}
<1>1. /\ done' = done \o front /\ dropped' = dropped \union rest
      /\ batch' = <<>> /\ pending' = pending
      /\ posts' = posts /\ born' = born
  BY DEF AppendDone
<1>2. /\ front \in Seq(Record) /\ Aligned(front)
      /\ Range(front) \union rest = Range(batch)
      /\ Range(front) \intersect rest = {}
      /\ PostsOf(front) \subseteq PostsOf(batch)
      /\ {r.post : r \in rest} \subseteq PostsOf(batch)
  BY SplitBatch DEF IndInv, TypeInv, TypeOK
<1>3. /\ Range(done') = Range(done) \union Range(front)
      /\ PostsOf(done') = PostsOf(done) \union PostsOf(front)
      /\ Aligned(done')
  <2>1. /\ done \in Seq(Record) /\ Aligned(done)
        /\ PostsOf(done) \intersect PostsOf(batch) = {}
    BY DEF IndInv, TypeInv, TypeOK
  <2>2. PostsOf(done) \intersect PostsOf(front) = {}
    BY <1>2, <2>1
  <2> HIDE DEF front, rest
  <2> QED
    BY <1>1, <1>2, <2>1, <2>2, ConcatRuns
<1>4. DroppedPosts' = DroppedPosts \union {r.post : r \in rest}
  BY <1>1 DEF DroppedPosts
<1>5. dropped' \intersect Range(done') = {}
  <2> HIDE DEF front, rest
  <2>1. ASSUME NEW r \in rest
        PROVE  r \notin Range(done)
    <3>1. r.post \in PostsOf(batch)
      BY <1>2
    <3>2. r.post \notin PostsOf(done)
      BY <3>1 DEF IndInv
    <3> QED
      BY <3>2 DEF PostsOf
  <2>2. ASSUME NEW r \in Range(front)
        PROVE  r \notin dropped
    <3>1. r.post \in PostsOf(batch)
      BY <1>2 DEF PostsOf
    <3>2. r.post \notin DroppedPosts
      BY <3>1 DEF IndInv
    <3> QED
      BY <3>2 DEF DroppedPosts
  <2> QED
    BY <1>1, <1>2, <1>3, <2>1, <2>2 DEF IndInv
<1>6. (InMemory \union dropped)' = InMemory \union dropped
  BY <1>1, <1>2, <1>3, EmptyList DEF InMemory
<1>7. Accepted' = Accepted
  BY <1>1 DEF Accepted
<1> QED
  BY <1>1, <1>2, <1>3, <1>4, <1>5, <1>6, <1>7, EmptyList DEF IndInv

LEMMA RequeueInd ==
  ASSUME IndInv, TypeInv', Requeue
  PROVE  IndInv'
<1>1. /\ pending' = pending \o batch /\ batch' = <<>> /\ done' = done
      /\ dropped' = dropped /\ posts' = posts /\ born' = born
  BY DEF Requeue
<1>2. /\ Range(pending') = Range(pending) \union Range(batch)
      /\ PostsOf(pending') = PostsOf(pending) \union PostsOf(batch)
      /\ Aligned(pending')
  BY <1>1, ConcatRuns DEF IndInv, TypeInv, TypeOK
<1>3. Accepted' = Accepted /\ DroppedPosts' = DroppedPosts
  BY <1>1 DEF Accepted, DroppedPosts
<1>4. (InMemory \union dropped)' = InMemory \union dropped
  BY <1>1, <1>2, EmptyList DEF InMemory
<1> QED
  BY <1>1, <1>2, <1>3, <1>4, EmptyList DEF IndInv

LEMMA RestartInd ==
  ASSUME IndInv, TypeInv', Restart
  PROVE  IndInv'
<1>1. Len(posts) \in Nat
  BY LenProperties DEF IndInv, TypeInv, TypeOK
<1>2. Accepted' = {}
  BY <1>1 DEF Restart, Accepted
<1>3. (InMemory \union dropped)' = {} /\ DroppedPosts' = {}
  BY EmptyList DEF Restart, InMemory, DroppedPosts
<1> QED
  BY <1>2, <1>3, EmptyList DEF IndInv, Restart

\* Steps that move no record.
LEMMA SameListsInd ==
  ASSUME IndInv, TypeInv',
         UNCHANGED <<pending, done, batch, posts, born, dropped>>
  PROVE  IndInv'
<1>1. /\ Accepted' = Accepted /\ DroppedPosts' = DroppedPosts
      /\ InMemory' = InMemory
  BY DEF Accepted, DroppedPosts, InMemory
<1> QED
  BY <1>1 DEF IndInv

LEMMA NextInd == IndInv /\ [Next]_vars => IndInv'
<1> SUFFICES ASSUME IndInv, [Next]_vars
             PROVE  IndInv'
  OBVIOUS
<1>t. TypeInv'
  BY NextType DEF IndInv
<1>1. ASSUME NEW n \in 0..MaxBatch, Enrich(n)
      PROVE  IndInv'
  BY <1>1, <1>t, EnrichInd
<1>2. CASE Drain
  BY <1>2, <1>t, DrainInd
<1>3. ASSUME NEW k \in 0..Len(batch), EmbedAnswer(k)
      PROVE  IndInv'
  BY <1>3, <1>t, SameListsInd DEF EmbedAnswer
<1>4. CASE EmbedError
  BY <1>4, <1>t, SameListsInd DEF EmbedError
<1>5. CASE AppendDone
  BY <1>5, <1>t, AppendDoneInd
<1>6. CASE Requeue
  BY <1>6, <1>t, RequeueInd
<1>7. CASE WakeUp
  BY <1>7, <1>t, SameListsInd DEF WakeUp
<1>8. CASE Restart
  BY <1>8, <1>t, RestartInd
<1>9. CASE UNCHANGED vars
  BY <1>9, <1>t, SameListsInd DEF vars
<1> QED
  BY <1>1, <1>2, <1>3, <1>4, <1>5, <1>6, <1>7, <1>8, <1>9
  DEF Next, WorkerStep, EmbedReturns

LEMMA AlwaysInd == Spec => []IndInv
  BY InitInd, NextInd, PTL DEF Spec

-----------------------------------------------------------------------------
(* Conservation and order *)

LEMMA AcceptedIsListed ==
  ASSUME TypeOK
  PROVE  AcceptedList = Accepted
<1>1. born \in Nat /\ Len(posts) \in Nat
  BY LenProperties DEF TypeOK
<1>2. \A p \in born + 1..Len(posts) : p \in Nat \ {0} /\ posts[p] \in Nat
  BY <1>1, ElementOfSeq DEF TypeOK
<1>3. AcceptedList \subseteq Accepted
  <2> SUFFICES ASSUME NEW p \in born + 1..Len(posts), NEW i \in 1..posts[p]
               PROVE  [post |-> p, idx |-> i] \in Accepted
    BY DEF AcceptedList
  <2>1. i \in Nat \ {0} /\ p \in Nat \ {0}
    BY <1>2
  <2> QED
    BY <2>1 DEF Accepted, Record
<1>4. Accepted \subseteq AcceptedList
  <2> SUFFICES ASSUME NEW r \in Accepted
               PROVE  r \in AcceptedList
    OBVIOUS
  <2>1. /\ r = [post |-> r.post, idx |-> r.idx]
        /\ r.post \in born + 1..Len(posts) /\ r.idx \in 1..posts[r.post]
    BY DEF Accepted, Record
  <2> QED
    BY <2>1 DEF AcceptedList
<1> QED
  BY <1>3, <1>4

LEMMA IndConservation == IndInv => Conservation
<1> SUFFICES ASSUME IndInv PROVE Conservation
  OBVIOUS
<1>0. TypeOK /\ pending \in Seq(Record) /\ batch \in Seq(Record) /\ done \in Seq(Record)
  BY DEF IndInv, TypeInv, TypeOK
<1>1. InMemory \union dropped = AcceptedList
  BY <1>0, AcceptedIsListed DEF IndInv
<1>2. IsInjective(pending \o batch \o done)
  <2>1. /\ pending \o batch \in Seq(Record) /\ Aligned(pending \o batch)
        /\ PostsOf(pending \o batch) = PostsOf(pending) \union PostsOf(batch)
    BY <1>0, ConcatRuns DEF IndInv
  <2>2. PostsOf(pending \o batch) \intersect PostsOf(done) = {}
    BY <2>1 DEF IndInv
  <2>3. pending \o batch \o done \in Seq(Record) /\ Aligned(pending \o batch \o done)
    BY <1>0, <2>1, <2>2, ConcatRuns DEF IndInv
  <2> QED
    BY <2>3, AlignedInjective
<1>3. dropped \intersect InMemory = {}
  <2>1. ASSUME NEW r \in dropped
        PROVE  r \notin Range(pending) /\ r \notin Range(batch)
    <3>1. r.post \in DroppedPosts
      BY DEF DroppedPosts
    <3>2. r.post \notin PostsOf(pending) /\ r.post \notin PostsOf(batch)
      BY <3>1 DEF IndInv
    <3> QED
      BY <3>2 DEF PostsOf
  <2> QED
    BY <2>1 DEF InMemory, IndInv
<1> QED
  BY <1>1, <1>2, <1>3 DEF Conservation

\* Whatever the order of POSTs, answers, errors and restarts, every record the
\* running service has accepted is in exactly one of pending, the worker's
\* batch, done and the records a short answer dropped.
THEOREM RecordsAreConserved == Spec => []Conservation
  BY AlwaysInd, IndConservation, PTL

\* Requeued or not, the records of one POST come out in order, side by side.
THEOREM PostsKeepTheirOrder == Spec => []PostOrder
<1>1. IndInv => PostOrder
  BY DEF IndInv, PostOrder
<1> QED
  BY AlwaysInd, <1>1, PTL

-----------------------------------------------------------------------------
(* The log of results *)

\* What is appended to a list is what follows its old end.
LEMMA Appended ==
  ASSUME NEW s \in Seq(Record), NEW t \in Seq(Record)
  PROVE  /\ IsPrefix(s, s \o t)
         /\ SubSeq(s \o t, Len(s) + 1, Len(s \o t)) = t
<1> DEFINE u == s \o t
<1>1. /\ u \in Seq(Record) /\ Len(u) = Len(s) + Len(t)
      /\ Len(s) \in Nat /\ Len(t) \in Nat
      /\ \A i \in 1..Len(s) + Len(t) :
           u[i] = IF i <= Len(s) THEN s[i] ELSE t[i - Len(s)]
  BY ConcatProperties, RecordAt
<1> QED
  BY <1>1 DEF IsPrefix

LEMMA PrefixOfItself ==
  ASSUME NEW s \in Seq(Record)
  PROVE  IsPrefix(s, s) /\ SubSeq(s, Len(s) + 1, Len(s)) = <<>>
<1>1. Len(s) \in Nat
  BY RecordAt
<1> QED
  BY <1>1 DEF IsPrefix

\* The results a round appends.
Answers == SubSeq(batch, 1, answered)

LEMMA RoundAppends ==
  ASSUME IndInv, AppendDone
  PROVE  /\ Answers \in Seq(Record) /\ done \in Seq(Record)
         /\ done' = done \o Answers
         /\ IsPrefix(done, done')
         /\ SubSeq(done', Len(done) + 1, Len(done')) = Answers
<1>1. Answers \in Seq(Record) /\ done \in Seq(Record)
  BY SplitBatch DEF IndInv, TypeInv, TypeOK, Answers
<1>2. done' = done \o Answers
  BY DEF AppendDone, Answers
<1> QED
  BY <1>1, <1>2, Appended

\* done is only ever extended; a restart clears it only when it is empty or
\* when there are accepted POSTs it turns into earlier ones.
LEMMA NextKeepsDone ==
  ASSUME IndInv, [Next]_vars, born' = born
  PROVE  IsPrefix(done, done')
<1>1. done \in Seq(Record)
  BY DEF IndInv, TypeInv, TypeOK
<1>2. CASE AppendDone
  BY <1>2, RoundAppends
<1>3. CASE Restart
  <2>1. born = Len(posts) /\ Len(posts) \in Nat
    BY <1>3, LenProperties DEF Restart, IndInv, TypeInv, TypeOK
  <2>2. Accepted = {}
    BY <2>1 DEF Accepted
  <2>3. Range(done) = {}
    BY <2>2 DEF IndInv, InMemory
  <2>4. done = <<>>
    <3>0. \A i \in 1..Len(done) : done[i] \in Range(done)
      BY <1>1, RecordAt
    <3>1. 1 \notin 1..Len(done) /\ Len(done) \in Nat
      BY <1>1, <2>3, <3>0, RecordAt
    <3>2. Len(done) \notin Nat \ {0}
      BY <3>1
    <3> QED
      BY <1>1, <3>2, EmptySeq
  <2>5. done' = done
    BY <1>3, <2>4 DEF Restart
  <2> QED
    BY <1>1, <2>5, PrefixOfItself
<1>4. CASE done' = done
  BY <1>1, <1>4, PrefixOfItself
<1>5. AppendDone \/ Restart \/ done' = done
  BY DEF Next, WorkerStep, EmbedReturns, Enrich, Drain, EmbedAnswer, EmbedError,
         Requeue, WakeUp, vars
<1> QED
  BY <1>2, <1>3, <1>4, <1>5

\* As long as the process lives, a position of done keeps its result: what a
\* reader saw at its cursor is what it would see again.
THEOREM DoneIsStable == Spec => DoneIsAppendOnly
<1>1. IndInv /\ [Next]_vars => [born' = born => IsPrefix(done, done')]_vars
  BY NextKeepsDone
<1> QED
  BY AlwaysInd, <1>1, PTL DEF Spec, DoneIsAppendOnly

-----------------------------------------------------------------------------
(* Refinement of ResultFeed *)

\* The community operators mean the same inside the instance.
LEMMA FeedOperators ==
  /\ \A s : Feed!Range(s) = Range(s) /\ (Feed!IsInjective(s) <=> IsInjective(s))
  /\ \A s, t : Feed!IsPrefix(s, t) <=> IsPrefix(s, t)
  BY DEF Feed!Range, Range, Feed!IsInjective, IsInjective, Feed!IsPrefix, IsPrefix

LEMMA FeedStart == Init => Feed!FeedInit
  BY EmptyList DEF Init, Feed!FeedInit

LEMMA EnrichSubmits ==
  ASSUME IndInv, NEW n \in 0..MaxBatch, Enrich(n)
  PROVE  Feed!Submit
<1> DEFINE p   == Len(posts) + 1
           new == [i \in 1..n |-> [post |-> p, idx |-> i]]
<1>1. n \in Nat /\ Len(posts) \in Nat
  BY EnrichAssumption, LenProperties DEF IndInv, TypeInv, TypeOK
<1>2. new \in Seq(Record) /\ pending \in Seq(Record)
  BY <1>1 DEF Record, IndInv, TypeInv, TypeOK
<1>3. pending' = pending \o new /\ batch' = batch /\ done' = done /\ dropped' = dropped
  BY DEF Enrich
<1>4. \A r \in Range(new) : r.post = p
  BY <1>1 DEF Range
<1>5. p \notin 1..Len(posts)
  BY <1>1
<1> HIDE DEF new, p
<1>6. Range(pending') = Range(pending) \union Range(new)
  BY <1>2, <1>3, ConcatRuns
<1>7. ASSUME NEW r \in Range(new)
      PROVE  r \notin InMemory \union dropped
  <2>1. r.post \notin 1..Len(posts)
    BY <1>4, <1>5
  <2>2. \A q \in InMemory \union dropped : q.post \in 1..Len(posts)
    BY KnownPosts DEF InMemory, PostsOf, DroppedPosts
  <2> QED
    BY <2>1, <2>2
<1>8. Feed!Known = InMemory \union dropped
  BY FeedOperators DEF Feed!Known, InMemory
<1>9. Range(pending') \union Range(batch') =
        (Range(pending) \union Range(batch)) \union Range(new)
  BY <1>3, <1>6
<1> QED
  BY <1>3, <1>7, <1>8, <1>9, Zenon DEF Feed!Submit

LEMMA AppendDoneSettles ==
  ASSUME IndInv, AppendDone
  PROVE  Feed!Settle
<1> DEFINE rest == {batch[i] : i \in answered + 1..Len(batch)}
<1>1. /\ dropped' = dropped \union rest /\ batch' = <<>> /\ pending' = pending
  BY DEF AppendDone
<1>2. /\ IsInjective(Answers)
      /\ Range(Answers) \union rest = Range(batch)
      /\ Range(Answers) \intersect rest = {}
  BY SplitBatch DEF IndInv, TypeInv, TypeOK, Answers
<1>3. Range(pending) \intersect Range(batch) = {}
  BY DEF IndInv, PostsOf
<1>4. Range(batch') = {}
  BY <1>1, EmptyList
<1> DEFINE before == Range(pending) \union Range(batch)
           after  == Range(pending') \union Range(batch')
<1> HIDE DEF rest
<1>5. /\ after \subseteq before
      /\ before \ after = Range(batch)
      /\ rest = (before \ after) \ Range(Answers)
      /\ Range(Answers) \subseteq before \ after
  BY <1>1, <1>2, <1>3, <1>4
<1>6. /\ IsPrefix(done, done')
      /\ SubSeq(done', Len(done) + 1, Len(done')) = Answers
  BY RoundAppends
<1> HIDE DEF before, after
<1>7. /\ IsInjective(Answers) /\ Range(Answers) \subseteq before \ after
      /\ dropped' = dropped \union ((before \ after) \ Range(Answers))
  BY <1>1, <1>2, <1>5
<1> QED
  BY <1>5, <1>6, <1>7, FeedOperators DEF Feed!Settle, before, after

LEMMA FeedStep ==
  ASSUME IndInv, [Next]_vars
  PROVE  [Feed!FeedNext]_(Feed!feedVars)
<1> USE DEF Feed!FeedNext, Feed!feedVars
<1>1. ASSUME NEW n \in 0..MaxBatch, Enrich(n)
      PROVE  Feed!FeedNext
  BY <1>1, EnrichSubmits
<1>2. CASE Drain
  <2>1. batch = <<>>
    BY <1>2 DEF Drain, IndInv, TypeInv, TypeOK
  <2> QED
    BY <1>2, <2>1, EmptyList DEF Drain
<1>3. CASE AppendDone
  BY <1>3, AppendDoneSettles
<1>4. CASE Requeue
  <2>1. Range(pending') = Range(pending) \union Range(batch)
    BY <1>4, ConcatRuns DEF Requeue, IndInv, TypeInv, TypeOK
  <2> QED
    BY <1>4, <2>1, EmptyList DEF Requeue
<1>5. CASE Restart
  BY <1>5, EmptyList DEF Restart, Feed!Forget
<1>6. CASE UNCHANGED <<pending, batch, done, dropped>>
  BY <1>6
<1> QED
  BY <1>1, <1>2, <1>3, <1>4, <1>5, <1>6
  DEF Next, WorkerStep, EmbedReturns, EmbedAnswer, EmbedError, WakeUp, vars

\* The service, with its queue, worker and requeues, behaves as the feed the
\* flows rely on: a record is settled once, into the log or out of it.
THEOREM ServiceImplementsFeed == Spec => ImplementsFeed
  BY FeedStart, FeedStep, AlwaysInd, PTL DEF Spec, ImplementsFeed, Feed!FeedSpec
-----------------------------------------------------------------------------
(* The flows around the service *)

\* Message m was in the p-th POST.
Carries(p, m) == m \in carried[p] + 1..carried[p] + posts[p]

\* How far Flow 34 has come: an acknowledged window counts, committed or not.
Submitted == IF submit = "acked" THEN offset + window ELSE offset

\* Types; the window of a POST under way ends inside the topic.
FlowTypes ==
  /\ offset \in 0..Messages /\ window \in 0..MaxBatch
  /\ submit \in {"idle", "posting", "acked", "failed"}
  /\ submit # "idle" => offset + window <= Messages
  /\ backlog \subseteq 1..Messages
  /\ cursor \in Nat /\ page.next \in Nat
  /\ collect \in {"idle", "fetched", "indexed"}
  /\ page.items \in Seq(Record) /\ sink \subseteq Record
  /\ carried \in Seq(Nat) /\ Len(carried) = Len(posts)

\* Every message Flow 34 has passed was in a POST or is in the backlog.
EachPosted ==
  \A m \in 1..Submitted :
    m \in backlog \/ \E p \in 1..Len(posts) : Carries(p, m)

\* Until the first restart, the page in Flow 35's hands continues the list at
\* its cursor, and is in Elasticsearch before the cursor moves past it.
PageFollows ==
  born = 0 =>
    /\ cursor <= Len(done)
    /\ \A i \in 1..cursor : done[i] \in sink
    /\ collect # "idle" => /\ page.next \in cursor..Len(done)
                           /\ \A i \in cursor + 1..page.next : done[i] \in Range(page.items)
    /\ collect = "indexed" => \A i \in cursor + 1..page.next : done[i] \in sink

PipeInv == IndInv /\ FlowTypes /\ EachPosted /\ PageFollows

\* What a prefix keeps.
LEMMA PrefixKeeps ==
  ASSUME NEW s \in Seq(Record), NEW t \in Seq(Record), IsPrefix(s, t)
  PROVE  /\ Len(s) \in Nat /\ Len(t) \in Nat /\ Len(s) <= Len(t)
         /\ \A i \in 1..Len(s) : t[i] = s[i]
<1>1. /\ Len(s) \in Nat /\ Len(t) \in Nat /\ Len(s) <= Len(t)
      /\ SubSeq(s, 1, Len(s)) = SubSeq(t, 1, Len(s))
  BY LenProperties DEF IsPrefix
<1>2. \A i \in 1..Len(s) : s[i] \in Record /\ t[i] \in Record
  BY <1>1, RecordAt
<1>3. \A i \in 1..Len(s) : SubSeq(s, 1, Len(s))[i] = s[1 + i - 1]
  BY <1>1, <1>2, SubSeqProperties
<1>4. \A i \in 1..Len(s) : SubSeq(t, 1, Len(s))[i] = t[1 + i - 1]
  BY <1>1, <1>2, SubSeqProperties
<1> QED
  BY <1>1, <1>3, <1>4

\* A page begins behind the cursor, and none of its results is left out.
LEMMA PageContinues ==
  ASSUME NEW s \in Seq(Record), NEW c \in Nat, NEW limit \in Nat
  PROVE  LET p == GetResults(s, c, limit)
         IN  /\ p.items \in Seq(Record) /\ p.next \in Nat /\ c <= p.next
             /\ c <= Len(s) => p.next <= Len(s)
             /\ c <= Len(s) => \A i \in c + 1..p.next : s[i] \in Range(p.items)
<1> DEFINE end == PageEnd(s, c, limit)
           p   == GetResults(s, c, limit)
<1>1. Len(s) \in Nat
  BY LenProperties
<1>2. end \in Nat /\ c <= end /\ (end <= Len(s) \/ end = c)
  BY <1>1 DEF PageEnd
<1>3. p.items = SubSeq(s, c + 1, end) /\ p.next = end
  BY DEF GetResults
<1> HIDE DEF end, p
<1>4. \A i \in c + 1..end : s[i] \in Record
  BY <1>1, <1>2, RecordAt
<1>5. /\ SubSeq(s, c + 1, end) \in Seq(Record)
      /\ Len(SubSeq(s, c + 1, end)) = IF c + 1 <= end THEN end - (c + 1) + 1 ELSE 0
      /\ \A i \in 1..end - (c + 1) + 1 : SubSeq(s, c + 1, end)[i] = s[c + 1 + i - 1]
  <2>1. c + 1 \in Int /\ end \in Int
    BY <1>2
  <2> QED
    BY <1>4, <2>1, SubSeqProperties
<1>6. ASSUME NEW i \in c + 1..end
      PROVE  s[i] \in Range(p.items)
  <2>1. /\ i - c \in 1..end - (c + 1) + 1 /\ c + 1 + (i - c) - 1 = i
        /\ Len(p.items) = end - c
    BY <1>2, <1>3, <1>5
  <2>2. p.items[i - c] = s[i]
    BY <1>3, <1>5, <2>1
  <2>3. p.items \in Seq(Record) /\ i - c \in 1..Len(p.items)
    BY <1>2, <1>3, <1>5, <2>1
  <2> QED
    BY <2>2, <2>3, RecordAt
<1> QED
  BY <1>2, <1>3, <1>5, <1>6 DEF p

LEMMA PipeInitInv == PipeInit => PipeInv
<1> SUFFICES ASSUME PipeInit PROVE PipeInv
  OBVIOUS
<1>1. /\ Init /\ offset = 0 /\ submit = "idle" /\ window = 0 /\ backlog = {}
      /\ cursor = 0 /\ collect = "idle" /\ page = NoPage /\ sink = {}
      /\ carried = <<>>
  BY DEF PipeInit
<1>2. IndInv /\ posts = <<>> /\ done = <<>>
  BY <1>1, InitInd DEF Init
<1>3. FlowTypes
  <2>1. page.next = 0 /\ page.items = <<>>
    BY <1>1 DEF NoPage
  <2> QED
    BY <1>1, <1>2, <2>1, EmptyList, PipelineAssumption, EnrichAssumption DEF FlowTypes
<1>4. EachPosted
  BY <1>1 DEF EachPosted, Submitted
<1>5. PageFollows
  BY <1>1, <1>2, EmptyList DEF PageFollows
<1> QED
  BY <1>2, <1>3, <1>4, <1>5 DEF PipeInv

\* The service's own steps, the flows' and their crashes are steps of the
\* service or leave it alone.
LEMMA PipeStepsTheService ==
  ASSUME PipeInv, [PipeNext]_pipeVars
  PROVE  [Next]_vars
<1>1. CASE ServiceStep
  BY <1>1 DEF ServiceStep, Next
<1>2. CASE PostQueued
  BY <1>2 DEF PostQueued, Next, PipeInv, FlowTypes
<1>3. CASE vars' = vars
  BY <1>3
<1> QED
  BY <1>1, <1>2, <1>3
  DEF PipeNext, SubmitterStep, SubmitterCrash, CollectorStep, CollectorCrash, StartPost,
      PostUndelivered, CommitOffset, RouteToBacklog, Fetch, IndexPage, SaveCursor, pipeVars

\* While no restart has come, the list of results is only extended.
LEMMA DoneGrows ==
  ASSUME IndInv, [Next]_vars, IndInv', born' = 0
  PROVE  /\ born = 0 /\ Len(done) \in Nat /\ Len(done') \in Nat /\ Len(done) <= Len(done')
         /\ \A i \in 1..Len(done) : done'[i] = done[i]
<1>1. /\ done \in Seq(Record) /\ done' \in Seq(Record)
      /\ born \in 0..Len(posts) /\ Len(posts) \in Nat
  BY LenProperties DEF IndInv, TypeInv, TypeOK
<1>2. born' = born \/ born' = Len(posts)
  BY DEF Next, WorkerStep, EmbedReturns, Enrich, Drain, EmbedAnswer, EmbedError,
         AppendDone, Requeue, WakeUp, Restart, vars
<1>3. born = 0
  BY <1>1, <1>2
<1>4. IsPrefix(done, done')
  BY <1>3, NextKeepsDone
<1> QED
  BY <1>1, <1>3, <1>4, PrefixKeeps

\* Flow 35's promise outlives whatever the service and Flow 34 do.
LEMMA PageStays ==
  ASSUME PipeInv, [Next]_vars, IndInv', UNCHANGED collectVars
  PROVE  PageFollows'
<1> SUFFICES ASSUME born' = 0
             PROVE  /\ cursor <= Len(done')
                    /\ \A i \in 1..cursor : done'[i] \in sink
                    /\ collect # "idle" =>
                         /\ page.next \in cursor..Len(done')
                         /\ \A i \in cursor + 1..page.next : done'[i] \in Range(page.items)
                    /\ collect = "indexed" =>
                         \A i \in cursor + 1..page.next : done'[i] \in sink
  BY DEF PageFollows, collectVars
<1>1. /\ born = 0 /\ Len(done) \in Nat /\ Len(done') \in Nat /\ Len(done) <= Len(done')
      /\ \A i \in 1..Len(done) : done'[i] = done[i]
  BY DoneGrows DEF PipeInv
<1>2. cursor \in Nat /\ page.next \in Nat
  BY DEF PipeInv, FlowTypes
<1>3. /\ cursor <= Len(done)
      /\ \A i \in 1..cursor : done[i] \in sink
      /\ collect # "idle" =>
           /\ page.next \in cursor..Len(done)
           /\ \A i \in cursor + 1..page.next : done[i] \in Range(page.items)
      /\ collect = "indexed" => \A i \in cursor + 1..page.next : done[i] \in sink
  BY <1>1 DEF PipeInv, PageFollows
<1>4. \A i \in 1..cursor : i \in 1..Len(done)
  BY <1>1, <1>2, <1>3
<1>5. collect # "idle" => \A i \in cursor + 1..page.next : i \in 1..Len(done)
  BY <1>1, <1>2, <1>3
<1> QED
  BY <1>1, <1>2, <1>3, <1>4, <1>5, SMTT(30)

\* A step that leaves Flow 34 and the POSTs alone keeps its account.
LEMMA PostedStays ==
  ASSUME PipeInv, UNCHANGED <<submitVars, posts>>
  PROVE  EachPosted'
  BY DEF PipeInv, EachPosted, Submitted, Carries, submitVars

LEMMA ServiceStepKeeps ==
  ASSUME PipeInv, ServiceStep, IndInv', [Next]_vars
  PROVE  PipeInv'
<1>1. UNCHANGED <<submitVars, collectVars, posts>>
  BY DEF ServiceStep, WorkerStep, EmbedReturns, Drain, EmbedAnswer, EmbedError,
         AppendDone, Requeue, WakeUp, Restart
<1>2. FlowTypes'
  BY <1>1 DEF PipeInv, FlowTypes, submitVars, collectVars
<1> QED
  BY <1>1, <1>2, PostedStays, PageStays DEF PipeInv

LEMMA StartPostKeeps ==
  ASSUME PipeInv, IndInv', [Next]_vars, NEW n \in 1..MaxBatch, StartPost(n)
  PROVE  PipeInv'
<1>1. /\ submit = "idle" /\ offset + n <= Messages /\ submit' = "posting" /\ window' = n
      /\ UNCHANGED <<offset, backlog, carried, collectVars, posts>>
  BY DEF StartPost, vars
<1>2. FlowTypes'
  <2>1. n \in 0..MaxBatch
    BY EnrichAssumption
  <2> QED
    BY <1>1, <2>1 DEF PipeInv, FlowTypes, collectVars
<1>3. EachPosted'
  BY <1>1 DEF PipeInv, EachPosted, Submitted, Carries
<1> QED
  BY <1>1, <1>2, <1>3, PageStays DEF PipeInv

LEMMA PostQueuedKeeps ==
  ASSUME PipeInv, IndInv', [Next]_vars, PostQueued
  PROVE  PipeInv'
<1>1. /\ submit = "posting" /\ submit' \in {"acked", "failed"}
      /\ posts' = Append(posts, window) /\ carried' = Append(carried, offset)
      /\ UNCHANGED <<offset, window, backlog, collectVars>>
  BY DEF PostQueued, Enrich
<1>2. /\ posts \in Seq(Nat) /\ carried \in Seq(Nat)
      /\ Len(carried) = Len(posts) /\ Len(posts) \in Nat
      /\ offset \in Nat /\ window \in Nat /\ offset + window <= Messages
  BY <1>1, LenProperties, PipelineAssumption, EnrichAssumption
  DEF PipeInv, FlowTypes, IndInv, TypeInv, TypeOK
<1>3. /\ posts' \in Seq(Nat) /\ carried' \in Seq(Nat)
      /\ Len(carried') = Len(posts') /\ Len(posts') = Len(posts) + 1
      /\ \A p \in 1..Len(posts) : posts'[p] = posts[p] /\ carried'[p] = carried[p]
      /\ posts'[Len(posts) + 1] = window /\ carried'[Len(posts) + 1] = offset
  BY <1>1, <1>2, AppendProperties
<1>4. FlowTypes'
  BY <1>1, <1>2, <1>3 DEF PipeInv, FlowTypes, collectVars
<1>5. \A p \in 1..Len(posts), m \in Nat : Carries(p, m) => Carries(p, m)'
  BY <1>3 DEF Carries
<1>6. \A p \in 1..Len(posts'), m \in offset + 1..offset + window :
        p = Len(posts) + 1 => Carries(p, m)'
  BY <1>3 DEF Carries
<1>7. /\ 1..Len(posts) \subseteq 1..Len(posts') /\ Len(posts) + 1 \in 1..Len(posts')
      /\ \A m \in 1..Submitted' : m \in Nat /\ (m \in 1..offset \/ m \in offset + 1..offset + window)
  BY <1>1, <1>2, <1>3 DEF Submitted
<1>8. \A m \in 1..offset : m \in backlog \/ \E p \in 1..Len(posts) : Carries(p, m)
  BY <1>1 DEF PipeInv, EachPosted, Submitted
<1>9. EachPosted'
  <2> SUFFICES ASSUME NEW m \in 1..Submitted'
               PROVE  m \in backlog' \/ \E p \in 1..Len(posts') : Carries(p, m)'
    BY DEF EachPosted
  <2>1. CASE m \in 1..offset
    BY <1>1, <1>5, <1>7, <1>8, <2>1
  <2>2. CASE m \in offset + 1..offset + window
    BY <1>6, <1>7, <2>2
  <2> QED
    BY <1>7, <2>1, <2>2
<1> QED
  BY <1>1, <1>4, <1>9, PageStays DEF PipeInv

LEMMA PostUndeliveredKeeps ==
  ASSUME PipeInv, IndInv', [Next]_vars, PostUndelivered
  PROVE  PipeInv'
<1>1. /\ submit = "posting" /\ submit' = "failed"
      /\ UNCHANGED <<offset, window, backlog, carried, collectVars, posts>>
  BY DEF PostUndelivered, vars
<1>2. FlowTypes'
  BY <1>1 DEF PipeInv, FlowTypes, collectVars
<1>3. EachPosted'
  BY <1>1 DEF PipeInv, EachPosted, Submitted, Carries
<1> QED
  BY <1>1, <1>2, <1>3, PageStays DEF PipeInv

LEMMA CommitOffsetKeeps ==
  ASSUME PipeInv, IndInv', [Next]_vars, CommitOffset
  PROVE  PipeInv'
<1>1. /\ submit = "acked" /\ offset' = offset + window /\ submit' = "idle"
      /\ UNCHANGED <<window, backlog, carried, collectVars, posts>>
  BY DEF CommitOffset, vars
<1>2. FlowTypes'
  BY <1>1, PipelineAssumption, EnrichAssumption DEF PipeInv, FlowTypes, collectVars
<1>3. EachPosted'
  BY <1>1 DEF PipeInv, EachPosted, Submitted, Carries
<1> QED
  BY <1>1, <1>2, <1>3, PageStays DEF PipeInv

LEMMA RouteToBacklogKeeps ==
  ASSUME PipeInv, IndInv', [Next]_vars, RouteToBacklog
  PROVE  PipeInv'
<1>1. /\ submit = "failed" /\ offset' = offset + window /\ submit' = "idle"
      /\ backlog' = backlog \union (offset + 1..offset + window)
      /\ UNCHANGED <<window, carried, collectVars, posts>>
  BY DEF RouteToBacklog, vars
<1>2. offset \in Nat /\ window \in Nat /\ offset + window <= Messages
  BY <1>1, PipelineAssumption, EnrichAssumption DEF PipeInv, FlowTypes
<1>3. FlowTypes'
  <2>1. offset + 1..offset + window \subseteq 1..Messages /\ offset + window \in 0..Messages
    BY <1>2, PipelineAssumption
  <2> QED
    BY <1>1, <2>1 DEF PipeInv, FlowTypes, collectVars
<1>4. EachPosted'
  <2>1. \A m \in 1..Submitted' : m \in 1..offset \/ m \in offset + 1..offset + window
    BY <1>1, <1>2 DEF Submitted
  <2>2. \A m \in 1..offset : m \in backlog \/ \E p \in 1..Len(posts) : Carries(p, m)
    BY <1>1 DEF PipeInv, EachPosted, Submitted
  <2>3. \A p, m : Carries(p, m)' <=> Carries(p, m)
    BY <1>1 DEF Carries
  <2> QED
    BY <1>1, <2>1, <2>2, <2>3 DEF EachPosted
<1> QED
  BY <1>1, <1>3, <1>4, PageStays DEF PipeInv

\* A window that was acknowledged and not committed is posted again; nothing
\* that was counted before the crash is forgotten.
LEMMA SubmitterCrashKeeps ==
  ASSUME PipeInv, IndInv', [Next]_vars, SubmitterCrash
  PROVE  PipeInv'
<1>1. /\ submit' = "idle"
      /\ UNCHANGED <<offset, window, backlog, carried, collectVars, posts>>
  BY DEF SubmitterCrash, vars
<1>2. FlowTypes'
  BY <1>1 DEF PipeInv, FlowTypes, collectVars
<1>3. EachPosted'
  <2>1. offset \in Nat /\ window \in Nat
    BY PipelineAssumption, EnrichAssumption DEF PipeInv, FlowTypes
  <2>2. 1..Submitted' \subseteq 1..Submitted
    BY <1>1, <2>1 DEF Submitted
  <2>3. \A p, m : Carries(p, m)' <=> Carries(p, m)
    BY <1>1 DEF Carries
  <2> QED
    BY <1>1, <2>2, <2>3 DEF PipeInv, EachPosted
<1> QED
  BY <1>1, <1>2, <1>3, PageStays DEF PipeInv

LEMMA FetchKeeps ==
  ASSUME PipeInv, IndInv', NEW limit \in 0..MaxLimit + 1, Fetch(limit)
  PROVE  PipeInv'
<1>1. /\ collect = "idle" /\ page' = GetResults(done, cursor, PageLimit(limit))
      /\ collect' = "fetched"
      /\ UNCHANGED <<done, born, posts, submitVars, cursor, sink>>
  BY DEF Fetch, vars
<1>2. PageLimit(limit) \in Nat /\ done \in Seq(Record) /\ cursor \in Nat
  BY EnrichAssumption DEF PageLimit, PipeInv, FlowTypes, IndInv, TypeInv, TypeOK
<1>3. /\ page'.items \in Seq(Record) /\ page'.next \in Nat /\ cursor <= page'.next
      /\ cursor <= Len(done) => page'.next <= Len(done)
      /\ cursor <= Len(done) => \A i \in cursor + 1..page'.next : done[i] \in Range(page'.items)
  BY <1>1, <1>2, PageContinues
<1>4. FlowTypes'
  BY <1>1, <1>3 DEF PipeInv, FlowTypes, submitVars
<1>5. PageFollows'
  <2>1. Len(done) \in Nat
    BY <1>2, LenProperties
  <2> QED
    BY <1>1, <1>2, <1>3, <2>1 DEF PipeInv, PageFollows
<1> QED
  BY <1>1, <1>4, <1>5, PostedStays DEF PipeInv

LEMMA IndexPageKeeps ==
  ASSUME PipeInv, IndInv', IndexPage
  PROVE  PipeInv'
<1>1. /\ collect = "fetched" /\ sink' = sink \union Range(page.items)
      /\ collect' = "indexed"
      /\ UNCHANGED <<done, born, posts, submitVars, cursor, page>>
  BY DEF IndexPage, vars
<1>2. Range(page.items) \subseteq Record
  BY RecordAt DEF PipeInv, FlowTypes
<1>3. FlowTypes'
  BY <1>1, <1>2 DEF PipeInv, FlowTypes, submitVars
<1>4. PageFollows'
  BY <1>1 DEF PipeInv, PageFollows
<1> QED
  BY <1>1, <1>3, <1>4, PostedStays DEF PipeInv

LEMMA SaveCursorKeeps ==
  ASSUME PipeInv, IndInv', SaveCursor
  PROVE  PipeInv'
<1>1. /\ collect = "indexed" /\ cursor' = page.next /\ page' = NoPage /\ collect' = "idle"
      /\ UNCHANGED <<done, born, posts, submitVars, sink>>
  BY DEF SaveCursor, vars
<1>2. page'.next = 0 /\ page'.items = <<>>
  BY <1>1 DEF NoPage
<1>3. FlowTypes'
  BY <1>1, <1>2, EmptyList DEF PipeInv, FlowTypes, submitVars
<1>4. PageFollows'
  <2>1. cursor \in Nat /\ page.next \in Nat /\ Len(done) \in Nat
    BY LenProperties DEF PipeInv, FlowTypes, IndInv, TypeInv, TypeOK
  <2>2. \A i \in 1..page.next : i \in 1..cursor \/ i \in cursor + 1..page.next
    BY <2>1
  <2> QED
    BY <1>1, <2>1, <2>2 DEF PipeInv, PageFollows
<1> QED
  BY <1>1, <1>3, <1>4, PostedStays DEF PipeInv

LEMMA CollectorCrashKeeps ==
  ASSUME PipeInv, IndInv', CollectorCrash
  PROVE  PipeInv'
<1>1. /\ page' = NoPage /\ collect' = "idle"
      /\ UNCHANGED <<done, born, posts, submitVars, sink, cursor>>
  BY DEF CollectorCrash, vars
<1>2. page'.next = 0 /\ page'.items = <<>>
  BY <1>1 DEF NoPage
<1>3. FlowTypes'
  BY <1>1, <1>2, EmptyList DEF PipeInv, FlowTypes, submitVars
<1>4. PageFollows'
  BY <1>1 DEF PipeInv, PageFollows
<1> QED
  BY <1>1, <1>3, <1>4, PostedStays DEF PipeInv

LEMMA PipeNextInv == PipeInv /\ [PipeNext]_pipeVars => PipeInv'
<1> SUFFICES ASSUME PipeInv, [PipeNext]_pipeVars
             PROVE  PipeInv'
  OBVIOUS
<1>n. [Next]_vars
  BY PipeStepsTheService
<1>i. IndInv'
  BY <1>n, NextInd DEF PipeInv
<1>1. CASE ServiceStep
  BY <1>1, <1>n, <1>i, ServiceStepKeeps
<1>2. ASSUME NEW n \in 1..MaxBatch, StartPost(n)
      PROVE  PipeInv'
  BY <1>2, <1>n, <1>i, StartPostKeeps
<1>3. CASE PostQueued
  BY <1>3, <1>n, <1>i, PostQueuedKeeps
<1>4. CASE PostUndelivered
  BY <1>4, <1>n, <1>i, PostUndeliveredKeeps
<1>5. CASE CommitOffset
  BY <1>5, <1>n, <1>i, CommitOffsetKeeps
<1>6. CASE RouteToBacklog
  BY <1>6, <1>n, <1>i, RouteToBacklogKeeps
<1>7. CASE SubmitterCrash
  BY <1>7, <1>n, <1>i, SubmitterCrashKeeps
<1>8. ASSUME NEW limit \in 0..MaxLimit + 1, Fetch(limit)
      PROVE  PipeInv'
  BY <1>8, <1>i, FetchKeeps
<1>9. CASE IndexPage
  BY <1>9, <1>i, IndexPageKeeps
<1>10. CASE SaveCursor
  BY <1>10, <1>i, SaveCursorKeeps
<1>11. CASE CollectorCrash
  BY <1>11, <1>i, CollectorCrashKeeps
<1>12. CASE UNCHANGED pipeVars
  <2>1. UNCHANGED <<submitVars, collectVars, posts>>
    BY <1>12 DEF pipeVars, vars
  <2>2. FlowTypes'
    BY <2>1 DEF PipeInv, FlowTypes, submitVars, collectVars
  <2> QED
    BY <2>1, <2>2, <1>n, <1>i, PostedStays, PageStays DEF PipeInv
<1> QED
  BY <1>1, <1>2, <1>3, <1>4, <1>5, <1>6, <1>7, <1>8, <1>9, <1>10, <1>11, <1>12
  DEF PipeNext, SubmitterStep, CollectorStep

LEMMA AlwaysPipeInv == PipeSpec => []PipeInv
  BY PipeInitInv, PipeNextInv, PTL DEF PipeSpec

\* Whatever the order of POSTs, lost answers, retries and crashes of both flows,
\* a page of Flow 35 begins where the one before ended, and its cursor passes no
\* result that is not in Elasticsearch, until a restart empties the list.
THEOREM CollectorKeepsUp == PipeSpec => []CollectedBelowCursor
<1>1. PipeInv => CollectedBelowCursor
  BY DEF PipeInv, FlowTypes, IndInv, TypeInv, PageFollows, CollectedBelowCursor,
         PipeTypeOK, CollectorMissesNothing
<1> QED
  BY AlwaysPipeInv, <1>1, PTL

\* A message Flow 34 has committed an offset for is in the backlog or held by the
\* running service, or it was lost in one of two ways: Ollama's answer was short,
\* or the service was restarted.
THEOREM CommittedIsAccountedFor == PipeSpec => []CommittedIsAccounted
<1>1. ASSUME PipeInv
      PROVE  CommittedIsAccounted
  <2> SUFFICES ASSUME NEW m \in 1..offset, m \notin backlog, ~LostInRestart(m)
               PROVE  Held(m) \/ LostToShortAnswer(m)
    BY DEF CommittedIsAccounted
  <2>1. /\ offset \in Nat /\ window \in Nat /\ born \in Nat
        /\ Len(posts) \in Nat /\ posts \in Seq(Nat) /\ carried \in Seq(Nat)
        /\ Len(carried) = Len(posts)
    BY <1>1, LenProperties, PipelineAssumption, EnrichAssumption
    DEF PipeInv, FlowTypes, IndInv, TypeInv, TypeOK
  <2>2. 1..offset \subseteq 1..Submitted
    BY <2>1 DEF Submitted
  <2>3. PICK p \in 1..Len(posts) : Carries(p, m)
    BY <1>1, <2>2 DEF PipeInv, EachPosted
  <2>4. posts[p] \in Nat /\ carried[p] \in Nat
    BY <2>1, ElementOfSeq
  <2>5. p \notin 1..born
    BY <2>3 DEF LostInRestart, Carries
  <2>6. p > born /\ p \in born + 1..Len(posts) /\ p \in Nat \ {0}
    BY <2>1, <2>5
  <2> DEFINE r == [post |-> p, idx |-> m - carried[p]]
  <2>7. /\ m - carried[p] \in Nat \ {0} /\ m - carried[p] \in 1..posts[p]
        /\ carried[p] + (m - carried[p]) = m
    BY <2>3, <2>4 DEF Carries
  <2>8. r \in Accepted
    BY <2>6, <2>7 DEF Accepted, Record
  <2>9. r \in InMemory \union dropped
    BY <1>1, <2>8 DEF PipeInv, IndInv
  <2>10. r.post > born /\ MessageOf(r) = m
    BY <2>6, <2>7 DEF MessageOf
  <2> QED
    BY <2>9, <2>10 DEF Held, LostToShortAnswer
<1> QED
  BY AlwaysPipeInv, <1>1, PTL
=============================================================================
