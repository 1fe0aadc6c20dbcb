----------------------------- MODULE HotPipeline -----------------------------
(***************************************************************************)
(* The live order generator of case 2 (cmd/hot_pipeline/main.go).  At each *)
(* tick every brand gets a channel with all of its cities and a few worker *)
(* goroutines that empty it; for each city a worker finds the last split   *)
(* table, makes the next one when that is full, inserts a batch of orders  *)
(* in chunks, and then their rows in the three tables that hang off them.  *)
(* The tick is over when every worker has returned.                        *)
(*                                                                         *)
(* One action is one statement sent to Postgres or one step of a goroutine *)
(* between two of them.  Statements may fail, and the process may be       *)
(* killed; the tables survive.  Orders are counted, not named: a call's    *)
(* rows are the last ones of its split.                                    *)
(***************************************************************************)
EXTENDS Naturals, Sequences, FiniteSets

CONSTANTS Brand,
          Cities,      \* the number of cities, named by their place in brands.Cities
          Workers,     \* --workers: goroutines per brand
          Count,       \* --batch: orders per city and tick
          Chunk,       \* chunkSize: orders in one INSERT
          SplitRowCap,
          MaxTicks,    \* bound: ticks in a behaviour
          MaxFaults    \* bound: statements that fail and processes killed

ASSUME HotAssumption ==
  /\ IsFiniteSet(Brand)
  /\ Cities \in Nat \ {0} /\ Workers \in Nat \ {0} /\ Count \in Nat /\ Chunk \in Nat \ {0}
  /\ SplitRowCap \in Nat \ {0} /\ MaxTicks \in Nat /\ MaxFaults \in Nat

City == 1..Cities
Worker == Brand \X (1..Workers)
Shard == Brand \X City      \* one city's tables in one brand's database

Child == <<"order_items", "order_status_events", "delivery_assignments">>

\* The databases.
VARIABLES orders,     \* orders[s][n]: the rows of orders_<city>_<n>
          tables,     \* the child tables that exist, as <<s, kind, n>>
          covered,    \* covered[s][k][n]: for how many order_ids of that
                      \* split child table k has rows
          adrift      \* adrift[s][n]: order_ids that were read from the
                      \* answer of an INSERT and then rolled back (history)

\* The process.
VARIABLES main,       \* "waiting" for the ticker, "ticking", or "stopped"
          queue,      \* queue[b]: the cities left in brand b's channel
          total,      \* what the tick has added up so far
          at, city,   \* where each worker is, and with which city
          split, ddl, \* its split, and the next table it creates
          left, ids,  \* orders still to insert, order_ids returned
          kind        \* the child table it fills

\* History.
VARIABLES ticks, faults,
          inserted,   \* orders the tick's calls have really inserted
          overcount,  \* order_ids they hold for orders rolled back
          misread     \* a failed probe or count was taken for an answer

dbVars == <<orders, tables, covered, adrift>>
workerVars == <<at, city, split, ddl, left, ids, kind>>
tally == <<inserted, overcount>>
history == <<ticks, faults, tally, misread>>
vars == <<dbVars, main, queue, total, workerVars, history>>

Busy == {"probing", "counting", "creating", "inserting", "cascading", "reporting"}

ShardOf(w) == <<w[1], city[w]>>

Fault == faults < MaxFaults /\ faults' = faults + 1 /\ UNCHANGED ticks

Move(w, place) == at' = [at EXCEPT ![w] = place]

-----------------------------------------------------------------------------
(* main and runTick *)

Tick ==
  /\ main = "waiting" /\ ticks < MaxTicks
  /\ main' = "ticking"
  /\ queue' = [b \in Brand |-> [i \in City |-> i]]
  /\ at' = [w \in Worker |-> "ready"]
  /\ total' = 0 /\ inserted' = 0 /\ overcount' = 0
  /\ ticks' = ticks + 1
  /\ UNCHANGED <<dbVars, city, split, ddl, left, ids, kind, faults, misread>>

TakeKeepsCity(w) ==   \* mutated TakeCity: the city stays in the channel
  /\ at[w] = "ready" /\ queue[w[1]] # <<>>
  /\ city' = [city EXCEPT ![w] = Head(queue[w[1]])]
  /\ \/ UNCHANGED queue
     \/ queue' = [queue EXCEPT ![w[1]] = Tail(@)]
  /\ split' = [split EXCEPT ![w] = 1]
  /\ left' = [left EXCEPT ![w] = Count]
  /\ ids' = [ids EXCEPT ![w] = 0]
  /\ Move(w, "probing")
  /\ UNCHANGED <<dbVars, main, total, ddl, kind, history>>

TakeKeepsIds(w) ==   \* mutated TakeCity: order_ids outlive their city
  /\ at[w] = "ready" /\ queue[w[1]] # <<>>
  /\ city' = [city EXCEPT ![w] = Head(queue[w[1]])]
  /\ queue' = [queue EXCEPT ![w[1]] = Tail(@)]
  /\ split' = [split EXCEPT ![w] = 1]
  /\ left' = [left EXCEPT ![w] = Count]
  /\ Move(w, "probing")
  /\ UNCHANGED <<dbVars, main, total, ddl, ids, kind, history>>

TakeCity(w) ==
  /\ at[w] = "ready" /\ queue[w[1]] # <<>>
  /\ city' = [city EXCEPT ![w] = Head(queue[w[1]])]
  /\ queue' = [queue EXCEPT ![w[1]] = Tail(@)]
  /\ split' = [split EXCEPT ![w] = 1]
  /\ left' = [left EXCEPT ![w] = Count]
  /\ ids' = [ids EXCEPT ![w] = 0]
  /\ Move(w, "probing")
  /\ UNCHANGED <<dbVars, main, total, ddl, kind, history>>

WorkerReturns(w) ==
  /\ at[w] = "ready" /\ queue[w[1]] = <<>>
  /\ Move(w, "off")
  /\ UNCHANGED <<dbVars, main, queue, total, city, split, ddl, left, ids, kind, history>>

EndTick ==
  /\ main = "ticking" /\ \A w \in Worker : at[w] = "off"
  /\ main' = "waiting"
  /\ UNCHANGED <<dbVars, queue, total, workerVars, history>>

\* SIGINT and SIGTERM are looked at between ticks.
Stop ==
  /\ main = "waiting"
  /\ main' = "stopped"
  /\ UNCHANGED <<dbVars, queue, total, workerVars, history>>

-----------------------------------------------------------------------------
(* insertLiveOrders *)

\* activeSplit asks for the next split until there is none, or a probe fails.
Probe(w) ==
  LET last == Len(orders[ShardOf(w)])
  IN  /\ at[w] = "probing"
      /\ \/ /\ split[w] < last
            /\ split' = [split EXCEPT ![w] = @ + 1]
            /\ UNCHANGED <<at, faults, ticks, misread>>
         \/ /\ split[w] = last
            /\ Move(w, "counting")
            /\ UNCHANGED <<split, faults, ticks, misread>>
         \/ /\ Fault
            /\ misread' = (misread \/ split[w] < last)
            /\ Move(w, "counting")
            /\ UNCHANGED split
      /\ UNCHANGED <<dbVars, main, queue, total, city, ddl, left, ids, kind, tally>>

FullByOne(w) ==   \* mutated CountRows: "> cap" instead of ">= cap"
  /\ at[w] = "counting"
  /\ IF orders[ShardOf(w)][split[w]] > SplitRowCap
     THEN /\ split' = [split EXCEPT ![w] = @ + 1]
          /\ ddl' = [ddl EXCEPT ![w] = 0]
          /\ Move(w, "creating")
     ELSE Move(w, "inserting") /\ UNCHANGED <<split, ddl>>
  /\ UNCHANGED <<dbVars, main, queue, total, city, left, ids, kind, history>>

\* A full split is followed by a new one; a count that fails counts as zero.
CountRows(w) ==
  /\ at[w] = "counting"
  /\ \/ /\ orders[ShardOf(w)][split[w]] >= SplitRowCap
        /\ split' = [split EXCEPT ![w] = @ + 1]
        /\ ddl' = [ddl EXCEPT ![w] = 0]
        /\ Move(w, "creating")
        /\ UNCHANGED <<ticks, faults, misread>>
     \/ /\ orders[ShardOf(w)][split[w]] < SplitRowCap
        /\ Move(w, "inserting")
        /\ UNCHANGED <<split, ddl, ticks, faults, misread>>
     \/ /\ Fault
        /\ misread' = (misread \/ orders[ShardOf(w)][split[w]] >= SplitRowCap)
        /\ Move(w, "inserting")
        /\ UNCHANGED <<split, ddl>>
  /\ UNCHANGED <<dbVars, main, queue, total, city, left, ids, kind, tally>>

\* createNextSplitTables: orders first, then its three children.
CreateTable(w) ==
  LET s == ShardOf(w)
  IN  /\ at[w] = "creating"
      /\ IF ddl[w] = 0
         THEN /\ IF split[w] > Len(orders[s])
                 THEN /\ orders' = [orders EXCEPT ![s] = Append(@, 0)]
                      /\ covered' = [covered EXCEPT ![s] =
                                       [k \in DOMAIN Child |-> Append(@[k], 0)]]
                      /\ adrift' = [adrift EXCEPT ![s] = Append(@, 0)]
                 ELSE UNCHANGED <<orders, covered, adrift>>
              /\ UNCHANGED tables
         ELSE /\ tables' = tables \union {<<s, ddl[w], split[w]>>}
              /\ UNCHANGED <<orders, covered, adrift>>
      /\ ddl' = [ddl EXCEPT ![w] = @ + 1]
      /\ Move(w, IF ddl[w] = Len(Child) THEN "inserting" ELSE "creating")
      /\ UNCHANGED <<main, queue, total, city, split, left, ids, kind, history>>

ChunkOf(w) == IF left[w] < Chunk THEN left[w] ELSE Chunk

InsertRows(w) ==
  /\ orders' = [orders EXCEPT ![ShardOf(w)][split[w]] = @ + ChunkOf(w)]
  /\ inserted' = inserted + ChunkOf(w)
  /\ UNCHANGED <<adrift, overcount>>

RollBack(w, read) ==
  /\ adrift' = [adrift EXCEPT ![ShardOf(w)][split[w]] = @ + read]
  /\ overcount' = overcount + read
  /\ UNCHANGED <<orders, inserted>>

\* One INSERT ... RETURNING order_id.  Its order_ids are kept as they are read
\* (qrows.Next), and qrows.Err is not asked: an answer that breaks off is not
\* told apart from one that ends, whether the orders were committed or not.
InsertChunk(w) ==
  /\ at[w] = "inserting" /\ left[w] > 0
  /\ \/ /\ InsertRows(w)
        /\ ids' = [ids EXCEPT ![w] = @ + ChunkOf(w)]
        /\ UNCHANGED <<ticks, faults>>
     \/ /\ Fault
        /\ \E read \in 0..ChunkOf(w) :
             /\ ids' = [ids EXCEPT ![w] = @ + read]
             /\ InsertRows(w) \/ RollBack(w, read)
  /\ left' = [left EXCEPT ![w] = @ - ChunkOf(w)]
  /\ UNCHANGED <<tables, covered, main, queue, total, at, city, split, ddl,
                 kind, misread>>

OrdersDoneSkipsItems(w) ==   \* mutated OrdersDone: begins after the items
  /\ at[w] = "inserting" /\ left[w] = 0
  /\ kind' = [kind EXCEPT ![w] = 2]
  /\ Move(w, IF ids[w] = 0 THEN "reporting" ELSE "cascading")
  /\ UNCHANGED <<dbVars, main, queue, total, city, split, ddl, left, ids, history>>

\* With no order_id in hand the call is over; with some, their rows follow.
OrdersDone(w) ==
  /\ at[w] = "inserting" /\ left[w] = 0
  /\ kind' = [kind EXCEPT ![w] = 1]
  /\ Move(w, IF ids[w] = 0 THEN "reporting" ELSE "cascading")
  /\ UNCHANGED <<dbVars, main, queue, total, city, split, ddl, left, ids, history>>

\* A child table gets rows for every order_id, delivery_assignments for most.
\* A missing table or a failed statement is logged and passed over.
Cascade(w) ==
  LET exists == <<ShardOf(w), kind[w], split[w]>> \in tables
  IN  /\ at[w] = "cascading"
      /\ \E rows \in 0..ids[w] :
           /\ \/ exists /\ rows = ids[w] /\ UNCHANGED <<ticks, faults>>
              \/ exists /\ kind[w] = Len(Child) /\ UNCHANGED <<ticks, faults>>
              \/ exists /\ Fault
              \/ ~exists /\ rows = 0 /\ UNCHANGED <<ticks, faults>>
           /\ covered' = [covered EXCEPT ![ShardOf(w)][kind[w]][split[w]] = @ + rows]
      /\ kind' = [kind EXCEPT ![w] = @ + 1]
      /\ Move(w, IF kind[w] = Len(Child) THEN "reporting" ELSE "cascading")
      /\ UNCHANGED <<orders, tables, adrift, main, queue, total, city, split, ddl,
                     left, ids, tally, misread>>

Report(w) ==
  /\ at[w] = "reporting"
  /\ total' = total + ids[w]
  /\ Move(w, "ready")
  /\ UNCHANGED <<dbVars, main, queue, city, split, ddl, left, ids, kind, history>>

FailsForGood(w) ==   \* mutated CallFails: the worker waits for the table
  /\ at[w] \in {"creating", "inserting"} /\ (at[w] = "inserting" => left[w] > 0)
  /\ Fault
  /\ Move(w, "stuck")
  /\ UNCHANGED <<dbVars, main, queue, total, city, split, ddl, left, ids, kind,
                 tally, misread>>

\* A CREATE or an INSERT fails, or succeeds unheard: the worker logs it and
\* goes on with the next city, and nothing is added to the total.
CallFails(w) ==
  /\ at[w] \in {"creating", "inserting"} /\ (at[w] = "inserting" => left[w] > 0)
  /\ Fault
  /\ \/ UNCHANGED <<orders, adrift, tally>>
     \/ at[w] = "inserting" /\ InsertRows(w)
  /\ Move(w, "ready")
  /\ UNCHANGED <<tables, covered, main, queue, total, city, split, ddl, left,
                 ids, kind, misread>>

-----------------------------------------------------------------------------

\* The process is killed, and started again over the same tables.
Crash ==
  /\ main = "ticking"
  /\ Fault
  /\ main' = "waiting" /\ at' = [w \in Worker |-> "off"]
  /\ queue' = [b \in Brand |-> <<>>]
  /\ UNCHANGED <<dbVars, total, city, split, ddl, left, ids, kind, tally, misread>>

\* pg_schema has made the first split of every city.
Init ==
  /\ orders = [s \in Shard |-> <<0>>]
  /\ tables = Shard \X (DOMAIN Child) \X {1}
  /\ covered = [s \in Shard |-> [k \in DOMAIN Child |-> <<0>>]]
  /\ adrift = [s \in Shard |-> <<0>>]
  /\ main = "waiting" /\ total = 0
  /\ queue = [b \in Brand |-> <<>>]
  /\ at = [w \in Worker |-> "off"]
  /\ city = [w \in Worker |-> 1]
  /\ split = [w \in Worker |-> 1] /\ ddl = [w \in Worker |-> 0]
  /\ left = [w \in Worker |-> 0] /\ ids = [w \in Worker |-> 0]
  /\ kind = [w \in Worker |-> 1]
  /\ ticks = 0 /\ faults = 0 /\ inserted = 0 /\ overcount = 0 /\ misread = FALSE

Work(w) ==
  \/ TakeCity(w) \/ WorkerReturns(w)
  \/ Probe(w) \/ CountRows(w) \/ CreateTable(w)
  \/ InsertChunk(w) \/ OrdersDone(w) \/ Cascade(w) \/ Report(w)
  \/ CallFails(w)

Next ==
  \/ Tick \/ EndTick \/ Stop \/ Crash
  \/ \E w \in Worker : Work(w)

Spec == Init /\ [][Next]_vars

\* Goroutines keep running and statements return, with or without an error.
FairSpec == Spec /\ WF_vars(EndTick) /\ \A w \in Worker : WF_vars(Work(w))
-----------------------------------------------------------------------------
(* Properties *)

\* Types, and the wait group: no worker is left when the tick is over.
TypeOK ==
  /\ orders \in [Shard -> Seq(Nat)]
  /\ tables \subseteq Shard \X (DOMAIN Child) \X Nat
  /\ \A s \in Shard, k \in DOMAIN Child :
       covered[s][k] \in [1..Len(orders[s]) -> Nat]
  /\ \A s \in Shard : adrift[s] \in [1..Len(orders[s]) -> Nat]
  /\ main \in {"waiting", "ticking", "stopped"}
  /\ queue \in [Brand -> Seq(City)]
  /\ total \in Nat /\ inserted \in Nat /\ overcount \in Nat
  /\ at \in [Worker -> Busy \union {"off", "ready"}]
  /\ city \in [Worker -> City] /\ split \in [Worker -> Nat \ {0}]
  /\ ddl \in [Worker -> Nat] /\ kind \in [Worker -> Nat]
  /\ left \in [Worker -> 0..Count] /\ ids \in [Worker -> 0..Count]
  /\ main # "ticking" => \A w \in Worker : at[w] = "off"

\* Two workers never append to the same city's tables: the channel hands each
\* city out once, and the next tick waits for all of them.  Without this, both
\* would count the same split below its cap, or create the next one twice.
\* (Checked with the types.)
OneWorkerPerCity ==
  /\ TypeOK
  /\ \A v, w \in Worker :
       v # w /\ at[v] \in Busy /\ at[w] \in Busy => ShardOf(v) # ShardOf(w)

\* The cap is looked at once per call: a split passes it by less than a batch,
\* and is full before the next one gets rows, as long as no failed probe or
\* count was taken for an answer.
SplitsFillInOrder ==
  misread \/ \A s \in Shard : \A n \in DOMAIN orders[s] :
    /\ orders[s][n] < SplitRowCap + Count
    /\ n < Len(orders[s]) => orders[s][n] >= SplitRowCap

\* No child table has rows for more order_ids than its split has orders, or
\* exists only as rows, and the total counts no order that is not in the
\* database, but for the order_ids of an INSERT that was rolled back after they
\* were read (main.go:324): those are counted here, and nothing else in the code
\* makes a child of no order.  Failures and half-made splits leave fewer.
CascadeWithinOrders ==
  /\ total <= inserted + overcount
  /\ \A s \in Shard, k \in DOMAIN Child : \A n \in DOMAIN orders[s] :
       /\ covered[s][k][n] <= orders[s][n] + adrift[s][n]
       /\ covered[s][k][n] > 0 => <<s, k, n>> \in tables

\* When a tick is over and nothing has failed, every order of every split has
\* its items and its status event, and the workers' counts, added up under the
\* mutex, are the orders there are.
TickCascades ==
  main = "waiting" /\ faults = 0 =>
    /\ total = inserted
    /\ \A s \in Shard, k \in 1..2 : covered[s][k] = orders[s]

\* Every tick ends, whatever fails in it: no worker is waited for in vain.
EveryTickEnds == main = "ticking" ~> main # "ticking"
=============================================================================
