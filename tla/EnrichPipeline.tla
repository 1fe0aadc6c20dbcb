--------------------------- MODULE EnrichPipeline ---------------------------
(***************************************************************************)
(* The enrich service between the two flows of case 5 that use it.  Flow   *)
(* 34 reads a Kafka topic, POSTs batches to /enrich and checkpoints its    *)
(* offset in pf_enrich_submit_offsets; Flow 35 pages through /results,     *)
(* writes the page to Elasticsearch and checkpoints its position in        *)
(* pf_enrich_collect_cursors.  Both tables are in AuxDB and survive every  *)
(* restart; the lists the checkpoints point into do not.                   *)
(*                                                                         *)
(* The flows are not part of the repository's Go code: they are modelled   *)
(* from the service's interface and from the tables auxdb_setup creates    *)
(* for them, and may crash between any two of their steps.                 *)
(***************************************************************************)
EXTENDS EnrichService

CONSTANTS Messages,    \* bound: messages in the topic, numbered from 1
          MaxCrashes   \* bound: crashes of the two flows together

ASSUME PipelineAssumption == Messages \in Nat /\ MaxCrashes \in Nat

VARIABLES offset,   \* pf_enrich_submit_offsets.last_offset: messages submitted
          submit,   \* Flow 34: "idle", "posting", "acked" or "failed"
          window,   \* Flow 34: the number of messages in the POST under way
          backlog,  \* pf_enrich_submit_backlog: messages whose POST failed
          cursor,   \* pf_enrich_collect_cursors.last_cursor
          collect,  \* Flow 35: "idle", "fetched" or "indexed"
          page,     \* Flow 35: the page in its hands
          sink,     \* the records Flow 35 wrote to Elasticsearch
          carried,  \* history: carried[p] is the offset before the p-th POST
          crashes   \* history: crashes so far

submitVars == <<offset, submit, window, backlog, carried>>
collectVars == <<cursor, collect, page, sink>>
pipeVars == <<vars, submitVars, collectVars, crashes>>

NoPage == [items |-> <<>>, next |-> 0, more |-> FALSE]

\* The message a record was made from.
MessageOf(r) == carried[r.post] + r.idx

PipeInit ==
  /\ Init
  /\ offset = 0 /\ submit = "idle" /\ window = 0 /\ backlog = {}
  /\ cursor = 0 /\ collect = "idle" /\ page = NoPage /\ sink = {}
  /\ carried = <<>> /\ crashes = 0

-----------------------------------------------------------------------------
(* Flow 34: Kafka to POST /enrich *)

StartPost(n) ==
  /\ submit = "idle" /\ offset + n <= Messages
  /\ submit' = "posting" /\ window' = n
  /\ UNCHANGED <<vars, offset, backlog, carried, collectVars, crashes>>

\* The service queues the batch; its 202 reaches the flow or is lost.
PostQueued ==
  /\ submit = "posting"
  /\ Enrich(window)
  /\ carried' = Append(carried, offset)
  /\ submit' \in {"acked", "failed"}
  /\ UNCHANGED <<offset, window, backlog, collectVars, crashes>>

\* The request never reaches the service.
PostUndelivered ==
  /\ submit = "posting"
  /\ submit' = "failed"
  /\ UNCHANGED <<vars, offset, window, backlog, carried, collectVars, crashes>>

CommitOffset ==
  /\ submit = "acked"
  /\ offset' = offset + window
  /\ submit' = "idle"
  /\ UNCHANGED <<vars, window, backlog, carried, collectVars, crashes>>

\* A failed POST is kept in pf_enrich_submit_backlog, and the flow moves on.
RouteToBacklog ==
  /\ submit = "failed"
  /\ backlog' = backlog \union (offset + 1..offset + window)
  /\ offset' = offset + window
  /\ submit' = "idle"
  /\ UNCHANGED <<vars, window, carried, collectVars, crashes>>

SubmitterCrash ==
  /\ submit # "idle" /\ crashes < MaxCrashes
  /\ submit' = "idle"
  /\ crashes' = crashes + 1
  /\ UNCHANGED <<vars, offset, window, backlog, carried, collectVars>>

-----------------------------------------------------------------------------
(* Flow 35: GET /results to Elasticsearch *)

Fetch(limit) ==
  /\ collect = "idle"
  /\ page' = GetResults(done, cursor, PageLimit(limit))
  /\ collect' = "fetched"
  /\ UNCHANGED <<vars, submitVars, cursor, sink, crashes>>

IndexPage ==
  /\ collect = "fetched"
  /\ sink' = sink \union Range(page.items)
  /\ collect' = "indexed"
  /\ UNCHANGED <<vars, submitVars, cursor, page, crashes>>

SaveCursor ==
  /\ collect = "indexed"
  /\ cursor' = page.next
  /\ page' = NoPage
  /\ collect' = "idle"
  /\ UNCHANGED <<vars, submitVars, sink, crashes>>

CollectorCrash ==
  /\ collect # "idle" /\ crashes < MaxCrashes
  /\ collect' = "idle" /\ page' = NoPage
  /\ crashes' = crashes + 1
  /\ UNCHANGED <<vars, submitVars, cursor, sink>>

-----------------------------------------------------------------------------

ServiceStep ==
  /\ WorkerStep \/ Restart
  /\ UNCHANGED <<submitVars, collectVars, crashes>>

SubmitterStep ==
  \/ \E n \in 1..MaxBatch : StartPost(n)
  \/ PostQueued \/ PostUndelivered \/ CommitOffset \/ RouteToBacklog

CollectorStep ==
  (\E limit \in 0..MaxLimit + 1 : Fetch(limit)) \/ IndexPage \/ SaveCursor

PipeNext ==
  \/ ServiceStep
  \/ SubmitterStep \/ SubmitterCrash
  \/ CollectorStep \/ CollectorCrash

PipeSpec == PipeInit /\ [][PipeNext]_pipeVars

\* The worker and the flows keep running, calls return, and Ollama's errors
\* are transient.
PipeFairness ==
  /\ WF_pipeVars(WorkerStep /\ UNCHANGED <<submitVars, collectVars, crashes>>)
  /\ SF_pipeVars(/\ \E k \in 0..Len(batch) : EmbedAnswer(k)
                 /\ UNCHANGED <<submitVars, collectVars, crashes>>)
  /\ WF_pipeVars(SubmitterStep)
  /\ WF_pipeVars(CollectorStep)

FairPipeSpec == PipeSpec /\ PipeFairness

-----------------------------------------------------------------------------
(* Properties *)

PipeTypeOK ==
  /\ TypeOK
  /\ offset \in 0..Messages /\ window \in 0..MaxBatch
  /\ submit \in {"idle", "posting", "acked", "failed"}
  /\ backlog \subseteq 1..Messages
  /\ cursor \in Nat /\ page.next \in Nat
  /\ collect \in {"idle", "fetched", "indexed"}
  /\ page.items \in Seq(Record) /\ sink \subseteq Record
  /\ Len(carried) = Len(posts)

\* The running service has the message: it waits, is being embedded, or is done.
Held(m) == \E r \in InMemory : r.post > born /\ MessageOf(r) = m

\* Ollama answered with fewer embeddings than texts, and the worker forgot the
\* message: there was no error, and it is not requeued.
LostToShortAnswer(m) == \E r \in dropped : r.post > born /\ MessageOf(r) = m

\* The message was in a POST accepted by a process that has since restarted.
LostInRestart(m) ==
  \E p \in 1..born : m \in carried[p] + 1..carried[p] + posts[p]

\* "cursor-paginated access to completed embeddings": a reader that follows
\* next_cursor misses no result; whatever lies below its saved cursor has been
\* written to Elasticsearch.
CollectorMissesNothing ==
  \A i \in 1..cursor : i <= Len(done) => done[i] \in sink

\* The same, and the cursor never points past the list, for as long as no
\* restart has emptied the list the cursor counts in.  (Checked with the types.)
CollectedBelowCursor ==
  /\ PipeTypeOK
  /\ born = 0 => cursor <= Len(done) /\ CollectorMissesNothing

\* Every message below Flow 34's saved offset is in the backlog or held by the
\* service, whatever was lost on the way, repeated or requeued, with two
\* exceptions: a short answer of Ollama, after which the worker forgets the rest
\* of its batch, and a restart, which empties the lists.  Nothing else loses a
\* message that counts as submitted.  (runWorker's break, main's empty lists)
CommittedIsAccounted ==
  \A m \in 1..offset :
    m \in backlog \/ Held(m) \/ LostToShortAnswer(m) \/ LostInRestart(m)

\* Every message ends up in Elasticsearch, unless its POST failed, Ollama's
\* answer left it out, or a restart emptied the service's lists: from then on
\* the saved cursor may hide results, and nothing is promised.
EveryMessageSettles ==
  \A m \in 1..Messages :
    <>(\/ m \in backlog \/ born > 0
       \/ \E r \in sink \union dropped : MessageOf(r) = m)
=============================================================================
