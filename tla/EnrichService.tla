--------------------------- MODULE EnrichService ---------------------------
(***************************************************************************)
(* The Mac enrich service of case 5 (cmd/mac_enrich_service/main.go): HTTP *)
(* handlers and one background worker share two in-memory lists under one  *)
(* mutex.  POST /enrich appends to "pending"; the worker takes the whole   *)
(* of "pending", sends it to Ollama with the mutex released, and appends   *)
(* the answers to "done"; GET /results pages through "done" by position.   *)
(*                                                                         *)
(* One action is one critical section of s.mu or one step of the worker    *)
(* between two of them, so that every interleaving of handlers and worker  *)
(* is explored.  A record is named by the POST that brought it and its     *)
(* index in that POST; its text and its embedding are abstracted to it.    *)
(***************************************************************************)
EXTENDS Naturals, Sequences, SequencesExt

CONSTANTS MaxPosts,      \* bound: POST /enrich requests accepted in a behaviour
          MaxBatch,      \* bound: records in one POST
          MaxLimit,      \* largest page a reader may ask for (500 in the code)
          DefaultLimit   \* page size used instead of one out of range (100)

ASSUME EnrichAssumption ==
  /\ MaxPosts \in Nat /\ MaxBatch \in Nat
  /\ MaxLimit \in Nat \ {0} /\ DefaultLimit \in 1..MaxLimit

VARIABLES pending,   \* service.pending: records waiting for Ollama
          done,      \* service.done: completed results, by position
          worker,    \* where the background worker is in its loop
          batch,     \* the worker's local batch, in no list while it is embedded
          answered   \* how many embeddings Ollama returned for the batch

\* History of the requests; it restricts no action but the bound on posts.
VARIABLES posts,     \* posts[p] is the number of records in the p-th POST
          born,      \* the number of POSTs accepted before the last restart
          dropped    \* records left out because Ollama's answer was short

vars == <<pending, done, worker, batch, answered, posts, born, dropped>>

Record == [post : Nat \ {0}, idx : Nat \ {0}]

WorkerState == {"waiting", "embedding", "embedded", "failed", "sleeping"}

-----------------------------------------------------------------------------
(* Requests *)

\* service.getResults: the page after "cursor", and the cursor that follows it.
\* A negative cursor, which panics in the code, is not asked for by any reader.
PageEnd(results, cursor, limit) ==
  IF cursor >= Len(results) THEN cursor
  ELSE IF cursor + limit > Len(results) THEN Len(results) ELSE cursor + limit

GetResultsUncappedNext(results, cursor, limit) ==   \* mutated GetResults
  LET end == PageEnd(results, cursor, limit)
  IN  [items |-> SubSeq(results, cursor + 1, end),
       next  |-> cursor + limit,
       more  |-> end < Len(results)]

GetResults(results, cursor, limit) ==
  LET end == PageEnd(results, cursor, limit)
  IN  [items |-> SubSeq(results, cursor + 1, end),
       next  |-> end,
       more  |-> end < Len(results)]

\* handleResults replaces a limit out of range.
PageLimit(limit) ==
  IF limit = 0 \/ limit > MaxLimit THEN DefaultLimit ELSE limit

\* handleEnrich: a decoded POST of n records is queued and answered 202; a
\* refused one (405, 400) changes nothing.
Enrich(n) ==
  /\ Len(posts) < MaxPosts
  /\ posts' = Append(posts, n)
  /\ pending' = pending \o [i \in 1..n |-> [post |-> Len(posts) + 1, idx |-> i]]
  /\ UNCHANGED <<done, worker, batch, answered, born, dropped>>

-----------------------------------------------------------------------------
(* The background worker *)

DrainNewest ==   \* mutated Drain: takes the newest record only, as a stack
  /\ worker = "waiting" /\ pending # <<>>
  /\ batch' = <<Last(pending)>>
  /\ pending' = Front(pending)
  /\ worker' = "embedding"
  /\ UNCHANGED <<done, answered, posts, born, dropped>>

DrainKeepsPending ==   \* mutated Drain: forgets to clear the list it took
  /\ worker = "waiting" /\ pending # <<>>
  /\ batch' = pending
  /\ worker' = "embedding"
  /\ UNCHANGED <<pending, done, answered, posts, born, dropped>>

\* drain: take everything that is pending, if anything is.
Drain ==
  /\ worker = "waiting" /\ pending # <<>>
  /\ batch' = pending
  /\ pending' = <<>>
  /\ worker' = "embedding"
  /\ UNCHANGED <<done, answered, posts, born, dropped>>

\* embed returns k embeddings, the embeddings of the first k texts; nothing
\* makes Ollama return as many as there are texts.
EmbedAnswer(k) ==
  /\ worker = "embedding"
  /\ answered' = k
  /\ worker' = "embedded"
  /\ UNCHANGED <<pending, done, batch, posts, born, dropped>>

\* embed fails: no connection, a status other than 200, or an unreadable body.
EmbedError ==
  /\ worker = "embedding"
  /\ worker' = "failed"
  /\ UNCHANGED <<pending, done, batch, answered, posts, born, dropped>>

\* The records that have an embedding are appended to done in batch order; the
\* loop breaks at the first one that has none and the rest are forgotten.
AppendDone ==
  /\ worker = "embedded"
  /\ done' = done \o SubSeq(batch, 1, answered)
  /\ dropped' = dropped \union {batch[i] : i \in answered + 1..Len(batch)}
  /\ batch' = <<>> /\ answered' = 0
  /\ worker' = "waiting"
  /\ UNCHANGED <<pending, posts, born>>

RequeueOverwrites ==   \* mutated Requeue: puts the old list back over the new
  /\ worker = "failed"
  /\ pending' = batch
  /\ batch' = <<>>
  /\ worker' = "sleeping"
  /\ UNCHANGED <<done, answered, posts, born, dropped>>

\* After an error the batch goes to the end of pending, behind what arrived
\* meanwhile, and the worker sleeps two seconds.
Requeue ==
  /\ worker = "failed"
  /\ pending' = pending \o batch
  /\ batch' = <<>>
  /\ worker' = "sleeping"
  /\ UNCHANGED <<done, answered, posts, born, dropped>>

NeverWakes == worker = "sleeping" /\ UNCHANGED vars   \* mutated WakeUp

WakeUp ==
  /\ worker = "sleeping"
  /\ worker' = "waiting"
  /\ UNCHANGED <<pending, done, batch, answered, posts, born, dropped>>

-----------------------------------------------------------------------------
(* The process *)

\* Storage is in memory: a restart begins with empty lists and a new worker.
Restart ==
  /\ pending' = <<>> /\ done' = <<>> /\ batch' = <<>>
  /\ answered' = 0 /\ worker' = "waiting"
  /\ born' = Len(posts) /\ dropped' = {}
  /\ UNCHANGED posts

Init ==
  /\ pending = <<>> /\ done = <<>> /\ batch = <<>>
  /\ answered = 0 /\ worker = "waiting"
  /\ posts = <<>> /\ born = 0 /\ dropped = {}

EmbedReturns == EmbedError \/ \E k \in 0..Len(batch) : EmbedAnswer(k)

WorkerStep == Drain \/ EmbedReturns \/ AppendDone \/ Requeue \/ WakeUp

Next ==
  \/ \E n \in 0..MaxBatch : Enrich(n)
  \/ WorkerStep
  \/ Restart

Spec == Init /\ [][Next]_vars

\* The worker's loop keeps running and a call to Ollama returns; errors are
\* transient, so a batch that is retried for ever is answered in the end.
WorkerFairness ==
  /\ WF_vars(Drain) /\ WF_vars(EmbedReturns) /\ WF_vars(AppendDone)
  /\ WF_vars(Requeue) /\ WF_vars(WakeUp)
  /\ SF_vars(\E k \in 0..Len(batch) : EmbedAnswer(k))

FairSpec == Spec /\ WorkerFairness

-----------------------------------------------------------------------------
(* Properties *)

\* Types, and the worker's local state: a batch is in hand exactly between
\* drain and the append or requeue that ends its round.
TypeOK ==
  /\ pending \in Seq(Record) /\ done \in Seq(Record) /\ batch \in Seq(Record)
  /\ worker \in WorkerState
  /\ answered \in 0..Len(batch)
  /\ posts \in Seq(Nat)
  /\ born \in 0..Len(posts)
  /\ dropped \subseteq Record
  /\ worker \in {"waiting", "sleeping"} <=> batch = <<>>

\* The records accepted by the process that runs now.
Accepted ==
  {r \in Record : /\ r.post \in born + 1..Len(posts)
                  /\ r.idx \in 1..posts[r.post]}

InMemory == Range(pending) \union Range(batch) \union Range(done)

\* Equal to Accepted, and finite by construction for TLC.
AcceptedList ==
  UNION {{[post |-> p, idx |-> i] : i \in 1..posts[p]} : p \in born + 1..Len(posts)}

\* Every record the service answered 202 for is in exactly one place, whatever
\* the order of requests, errors and requeues: pending, the batch in the
\* worker's hands, done, or lost to a short answer.  (drain, enqueue, appendDone)
Conservation ==
  /\ InMemory \union dropped = AcceptedList
  /\ IsInjective(pending \o batch \o done)
  /\ dropped \intersect InMemory = {}

\* The records of one POST are completed side by side and in the order they
\* were sent, however often their batch was requeued: a reader that finds two
\* of them in done finds the ones between them in between.
Aligned(s) ==
  \A i, j \in DOMAIN s : s[i].post = s[j].post => s[i].idx + j = s[j].idx + i

PostOrder == Aligned(done)

\* "completed results (append-only, indexed by position)": as long as the
\* process lives, a position of done keeps its result.
DoneIsAppendOnly == [][born' = born => IsPrefix(done, done')]_vars

\* The service implements the feed: pending and the batch being embedded are
\* one waiting set, and queueing, draining and requeueing are invisible.
Feed == INSTANCE ResultFeed
          WITH waiting <- Range(pending) \union Range(batch),
               log     <- done,
               lost    <- dropped

ImplementsFeed == Feed!FeedSpec

\* A queued record does not wait for ever: it is completed, or lost to a short
\* answer, or the process that accepted it has restarted.
EveryRecordSettles ==
  \A p \in 1..MaxPosts : \A i \in 1..MaxBatch :
    [post |-> p, idx |-> i] \in Range(pending)
      ~> [post |-> p, idx |-> i] \in Range(done) \union dropped \/ p <= born
=============================================================================
