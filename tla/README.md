# A TLA+ model of the ETLFunnel use cases

The repository is a library of seven ETL case studies (`src/cases/case_1` to
`case_7`). A case is a set of databases in containers and a handful of Go
programs that prepare, fill and keep feeding them; the pipelines that move the
data (the connectors and numbered flows of the plans) run on the ETLFunnel
platform and are not in the repository. What can go wrong in the Go code, and
what is modelled here, is therefore

* servers with shared memory that the pipelines poll or push to,
* generators that write to a database while something else reads it, and
* seeders that run for a long time, stop half-way and are run again.

Paths below are relative to `src/cases/`.

## 1. Inventory

| Component | State it keeps | Operations | Talks to |
|---|---|---|---|
| **case 5: Mac enrich service** `case_5/cmd/mac_enrich_service/main.go` | `pending`, `done`, a worker's local batch; one mutex; all in memory | `POST /enrich`, `GET /results`, `GET /health`; worker: drain, embed, append or requeue, sleep | Ollama; flow 34 posts, flow 35 reads |
| **case 5: flows 34 and 35** (external) | `pf_enrich_submit_offsets`, `pf_enrich_submit_backlog`, `pf_enrich_collect_cursors` in AuxDB (`case_5/cmd/auxdb_setup`) | post a batch, save the offset, route to the backlog; fetch a page, index it, save the cursor | the enrich service, Kafka, Elasticsearch |
| **case 5: hot, Oracle and catalogue seeders** `case_5/cmd/{hot_seeder,oracle_seeder,seeder}` | an offset that ids are made from | a batch in one transaction; a MERGE per row | MySQL, Oracle |
| **case 3: quota store and report handlers** `case_3/cmd/seeder/{state,handlers}` | a map of token buckets under an RWMutex, each with its mutex, an hour and a day window | look a bucket up, create it, roll it, spend from it, refuse | one goroutine per HTTP request |
| **case 3: row generators** | none | seeded pseudo-random rows | the handlers |
| **case 1: shard seeder** `case_1/cmd/seeder/main.go` | the split tables in MySQL; a worker pool over shards | inspect splits, insert customers, open splits, fill four child tables | 45 MySQL databases |
| **case 2: hot pipeline** `case_2/cmd/hot_pipeline/main.go` | the split tables in Postgres; per brand a channel of cities and N workers; a tick total under a mutex | tick, probe the split, open the next one, insert in chunks, cascade, report | Postgres of each brand; the WAL readers behind it |
| **case 2: city seeder** `case_2/cmd/seeder/main.go` | the same split tables | fill a city up to a target once | Postgres |
| **case 2: WAL enabler** `case_2/cmd/wal_enabler/main.go` | replication slot, publication, `wal_positions` | create what is missing, bookmark the LSN | Postgres, AuxDB |
| **case 4: order-events API** `case_4/cmd/seeder` | a pool of events made at start-up | `GET /api/v2/order-events` by cursor | flow 1 and its cursor in AuxDB |
| **case 6: movement and snapshot seeders** `case_6/cmd/{movement,snapshot}_seeder` | part files in a landing directory | number and write the next parts | flows that resume after a part |
| **case 7: transaction seeder** `case_7/cmd/seeder` | none | one transaction | Postgres |
| **all cases: setup programs** `*/cmd/*_setup`, `*_schema`, `mongo_init` | DDL | retry the connection, idempotent statements | every database |

### What is hard here, and what must hold

*Enrich service.* While Ollama works, a batch is in neither list; requests come
in, Ollama fails and the batch goes behind them, or answers with fewer
embeddings than texts and the rest of the batch is silently forgotten; readers
keep positions in a list that grows, and that a restart empties. It is correct
if every accepted record is in one place (`Conservation`), a POST's results stay
together and in order (`PostOrder`), positions are stable (`DoneIsAppendOnly`, and
`ImplementsFeed`, which contains it), every record settles (`EveryRecordSettles`), and the flows' checkpoints, which
outlive it, skip nothing and lose a message only in two known ways, by a short answer
and by a restart (`CollectedBelowCursor`, `CommittedIsAccounted`, `EveryMessageSettles`).

*Quota store.* Requests race to create a bucket and to spend its last tokens;
windows are rolled by whoever comes first in a new hour; the clock is read more
than once on the way. It is correct if a property has one bucket
(`OneBucketPerProperty`), no clock hour or day is granted more than its limit
(`GrantsWithinLimits`), nobody is refused what the property's own meter for the present
hour and day would cover (`ImplementsBudget`), and every request is answered, the pages
excepted that begin beyond the rows and make the handler panic (`EveryRequestAnswered`).

*Shard seeder and hot pipeline.* Statements are their own transactions. Any of
them may fail, succeed unheard, or be the last one of the process; the next run
or tick goes by what it finds in the tables. They are correct if reruns neither
overfill nor leave a shard short (`NoOverfill`, `ShardFills`), splits fill in
order (`SplitsFillInOrder`), child rows belong to a parent of their own split
(`ChildrenMatchTheirCustomer`, `CascadeWithinOrders`), no two workers are in one
city (`OneWorkerPerCity`), counts and child rows claim no more than what was inserted and
what a broken answer made them believe (`CascadeWithinOrders`), and miss nothing when all
goes well (`TickCascades`).

*City seeder.* It fills the same tables as the hot pipeline, with weaker checks:
a rerun counts split 1 only, an INSERT whose answer fails is sent again, the ids of
an answer that breaks off are taken for all of them, and the children of every split
go into the tables of the last one. It is correct if reruns grow a city by no more
than split 1 lacks (`GrowthIsBounded`), leave no split short (`SplitsFillInOrder`),
write children only for orders of the same run (`ChildrenNameTheirOrder`) and for all of
them (`RunSeedsItsChildren`), and reach the target (`CityFills`).

*WAL enabler.* Slot, publication and bookmark are three statements on two
databases, the source changes in between, and any of them may have been made by an
earlier run. It is correct if a recorded bookmark can be decoded from
(`BookmarkIsStreamable`), no change falls between the cold copy and the hot stream
(`ColdAndHotMeet`), and every brand gets there (`EveryBrandStreams`).

*Order-events API.* The server keeps nothing across restarts, the reader keeps
only a cursor, and the last page's cursor is the one that means "from the start". It is
correct if a cursor never passes over an event, whatever pool it was made for
(`NothingSkipped`, `FeedSettles`), an event is read again only for a
known reason and then goes where it went before (`RepeatsAreAccounted`), and every failure path
is exercised
(`FaultsTakeTurns`).

*Landing directories.* Seeders add files while flows list and read them, and may be
killed or run at once. It is correct if parts are numbered without gaps and never
touched again (`PartsAreContiguous`, `PartsAreKept`, `RunIsWhole`), and a scan that
resumes by part and row delivers everything (`MovementsArrive`).

*Setup.* Some hundred statements over several programs, of which most stop the run
when they fail and some only warn; setup is run again after a failure, and later on
systems in use. It is correct if a clean run leaves everything in place
(`ReadyIsComplete`), a rerun undoes nothing (`EditsSurvive`) and completes (`SetupCompletes`).

`PROJECT.json` lists the hazards with their lines, those no property covers included; section 5
names smaller ones.

## 2. Modules and how they correspond to the code

```
ResultFeed      abstract: what the enrich service promises
EnrichService   the service          EnrichProofs
EnrichPipeline  service + flows 34, 35   EnrichProofs
TokenBudget     abstract: what the quota store promises
Quota           store and handlers   QuotaProofs
ShardSeeder     case 1, one shard    ShardSeederProofs
HotPipeline     case 2, generator    HotPipelineProofs
CitySeeder      case 2, one city     CitySeederProofs
WalBookmark     case 2, enabler + cold and hot flow   WalBookmarkProofs
OrderFeed       case 4, API + flow 1                  OrderFeedProofs
Landing         case 6, seeders + a scanning flow     LandingAndSetupProofs
Setup           make setup of all cases               LandingAndSetupProofs
MC_*            instances for TLC, one per component
```

An action is one critical section, one statement sent to a database, or one step
of a loop between two of them; this is where other goroutines, failures and kills
can come in between. Payloads are left out: a record is the POST it came in and
its index there, a customer is whether it has an MSISDN, orders are counted.
Definitions whose comment begins "mutated" are deliberate errors next to the
definition they alter; no specification uses them, and each shows that some
property would notice that error.

**EnrichService.** `Enrich` is `handleEnrich` and `enqueue`; `Drain`,
`EmbedAnswer`/`EmbedError`, `AppendDone`, `Requeue` and `WakeUp` are the steps of
`runWorker`; `GetResults` is `getResults`, and `PageLimit` the limit rule of
`handleResults`. `AppendDone` contains the `break` for a short answer. `Restart`
is the process ending and starting over: `main` begins with empty lists.
`posts`, `born` and `dropped` are history; only the bound on posts restricts an
action.

**ResultFeed** knows no queue, worker or retry: records wait, and settle at the
end of a log or not at all. `EnrichService` maps `waiting` to pending plus the
batch in hand.

**EnrichPipeline** extends the service with the two flows. They are not in the
repository: their steps come from the service's interface and from the tables
that `auxdb_setup` creates for them (map entries marked external). A POST may be lost on
its way or its 202 on the way back; either goes to the backlog. A flow may crash
between any two of its steps.

**Quota.** `Lookup`, `LookAgain` and `CreateBucket` are the two halves of
`QuotaStore.bucket`, with the write lock held between the two clock reads of a
creation; `Roll` is `roll`; `SpendReport`/`RefuseReport` are `ConsumeReport`,
`SpendRealtime`/`RefuseRealtime` are `ConsumeRealtime`; `HourlySpent` is the
second lookup in the log line of a refused report. `Reply` writes the answer, a page or a
429; `Panic` is the slice `allRows[start:end]` for an offset past the last row, after the
tokens were spent: `net/http` cuts the connection and the client gets nothing. What is
asked for, a property and a kind of request, is the constant `Request`. A bucket's own mutex
is held within one action. Time is counted in hours, which is what windows are truncated to.

**TokenBudget** has a meter per property, clock hour and clock day, no windows and no
buckets. A request is opened for a property and for one of the two sorts of tokens, and is
granted or refused by that property's meter for these tokens in that very hour and day: what
another property or the other sort has used up refuses nobody.

**ShardSeeder.** `CountSplit`/`Counted` are `inspectExistingSplits`, in which any
error ends the counting (`misread` records when that error was not a missing
table); `MakeRow`, `FlushCustomers`, `NextSplit` the insert loop of `seedShard`,
which looks at the cap before each row while up to a batch is pending;
`CreateTable` is one statement of `createSplitTables`; `PickSplit`,
`InsertChunk`, `NextKind` the child tables with `batchInsert`. Kills and failures
leave the tables as they are, and `StartRun` begins again from them.

**HotPipeline.** `Tick`, `EndTick` and `Stop` are `main` and the wait group of
`runTick`; `TakeCity`, `WorkerReturns` and `Report` the worker goroutine;
`Probe` is `activeSplit`; `CountRows`, `CreateTable`, `InsertChunk`, `OrdersDone`
and `Cascade` are `insertLiveOrders`. `CallFails` is every error return of it;
errors of the cascade are logged and passed over, as in the code. The answer of an
`INSERT ... RETURNING` may break off after any number of ids, with the orders committed
(`InsertRows`) or not (`RollBack`); the code does not ask `qrows.Err()` and goes on with the
ids it has. `adrift` and `overcount` are history: ids that were read for orders rolled back.

**CitySeeder.** `CountSplit1` is the head of `seedCity`, `MakeRow`, `FlushOrders`,
`NextSplit` its insert loop and `CreateTable` one statement of
`createNextSplitTables`. `FlushOrders` splits into what can happen to one
`INSERT ... RETURNING`: `QueryFails` (with the rows committed or not), after which
`ExecAgain` sends them a second time, and `FlushCut`, where the ids break off and
nobody notices. `FinishOrders`, `ReadBack` and `SendChunk` are the three child
tables. `blind` and `made` are history: what the run could not see, and which run inserted
which order. They restrict no action, and the properties except what `blind` names. A child row
carries its order's split and the run that wrote it, which the real row does not: that holds the
`order_id` alone, and another split may have given out the same one. The ids that come back (`RETURNING`) are those
of the split's own BIGSERIAL, so an order is a split and an id.

**WalBookmark.** `Connect` to `RecordLsn` are the statements of `enableWAL`, in a
goroutine per brand; `StepFails` is any error return, of a statement carried out or not;
`StartEnabler` is `main`, which ends with 0 in any case. The flows are external: `CopyTables`
is the cold flow, `StartStream` to `StreamStops` the hot one, which saves its position
after it has published (plan 1.5, 2.3). An LSN is a number of changes.

**OrderFeed.** `Respond` is `ServeHTTP` after its two refusals (which are among
`FlowFails`), with `LimitOf`, `ParseCursor` and `NextCursor` for its rules; `Event` and
`FaultOf` are what `GenerateMixed` makes of an index. `Restart` makes the pool anew, maybe of another size. Flow 1
(`StartFlow`, `SettleEvent`, `SaveCursor`) is external, from the plan (5.1, 6.4).

**Landing.** `NextPartSeq`, `OpenPart`, `WriteRow` and `EndRun` are `main` and
`writePart` of the movement seeder; the snapshot seeder differs in where it begins
(`StartSnapshot`). An encoder writes rows in blocks, a header before the first; in the model rows
reach the file one at a time, so that a part may be torn, or read, after any of them and not
only where a block ends. The scan is external, from the plan (3.1, 3.3, 5.2): it keeps an index
into the sorted list of parts, and a row.

**Setup.** A program is a list of statements, each with the object it makes, what
it needs and whether its failure is only a warning; the definitions `MySQLSchema` to
`SnowflakeSetup` are these lists, over any zones, companies, brands and cities.
`Succeeds`, `CannotRun` and `Fails` execute the statement at hand. Columns are left out,
so is an index made by the statement that makes its table. Case 4's Cassandra keyspace and table
are made by the Makefile itself (`CassandraSchema`).

## 3. What the runs check

| Run | Instance | What it shows |
|---|---|---|
| `enrich_service` | 4 POSTs of 0..2 records, any number of restarts | `Conservation`, `PostOrder`, refinement of `ResultFeed`, `EveryRecordSettles` |
| `enrich_pipeline` | 2 messages, 3 POSTs, pages of 1 or 2, one crash of a flow, any restarts | `CollectedBelowCursor`, `CommittedIsAccounted`, `EveryMessageSettles` |
| `enrich_pipeline_restart` | 2 messages, no crash | violates `CollectorMissesNothing`, see findings |
| `quota` | 2 properties, reports, pages beyond the rows and realtime for one of them, realtime for the other, 2 requests at a time, 3 hours of which the last is a new day | `OneBucketPerProperty`, `GrantsWithinLimits`, refinement of `TokenBudget`, `EveryRequestAnswered` |
| `shard_seeder` | 5 customers, cap 3, batch 2, two runs, one fault | `NoOverfill`, `SplitsFillInOrder`, `ChildrenMatchTheirCustomer`, `RunSeedsItsChildren`, `ShardFills` |
| `hot_pipeline` | 2 workers, 2 cities, 2 ticks of 2 orders, chunk 1, cap 2, one fault | `OneWorkerPerCity`, `SplitsFillInOrder`, `CascadeWithinOrders`, `TickCascades`, `EveryTickEnds` |
| `city_seeder` | 4 orders, cap 2, batch 3, three runs, two faults | `GrowthIsBounded`, `SplitsFillInOrder`, `ChildrenNameTheirOrder`, `RunSeedsItsChildren`, `CityFills` |
| `wal_bookmark` | 1 brand, 3 changes, three runs, two faults | `BookmarkIsStreamable`, `ColdAndHotMeet`, `EveryBrandStreams` |
| `setup` | 7 cases, 2 zones, 3 companies, 2 brands, 1 city, three runs, two faults, one edit | `ReadyIsComplete`, `EditsSurvive`, `SetupCompletes` |
| `order_feed` | pools of 3 or 6, limits 1 and 4 (taken for 2), fault rates 0, 33 and 60, two restarts, one kill, four starts | `NothingSkipped`, `RepeatsAreAccounted`, `FaultsTakeTurns`, `FeedSettles` |
| `landing` | runs of 1 and 3 rows, 2 a part, two runs, one killed, one crash of the scan | `PartsAreContiguous`, `RunIsWhole`, `PartsAreKept`, `MovementsArrive` |
| `landing_ids` | the same | violates `MovementIdsAreUnique`, see findings |

Type invariants: those of `EnrichService`, `Quota`, `WalBookmark` and `OrderFeed` are theorems
of their own (section 4) and no run repeats them; the others are a conjunct of one invariant of
their run (`CollectedBelowCursor`, `ChildrenMatchTheirCustomer`, `OneWorkerPerCity`,
`ChildrenNameTheirOrder`, `ReadyIsComplete`, `PartsAreContiguous`), and proved with it except
for `ReadyIsComplete`.

**Why the bounds are enough.** Four POSTs let a batch be requeued behind another
one and both drained together, and a POST arrive in each gap of a round. Two
messages and three POSTs let each message be sent twice and a POST fail between
two that succeed. The quota limits (5 an hour and 7 a day for a cost of 2)
lie between two costs, so both "fits" and "does not fit" are reached within an hour, in the second
hour it is the day's limit that refuses, and the third hour begins a new day; realtime requests use
up their one token while reports are still granted, and the other way round. In `shard_seeder` the
batch does not divide the cap, so splits pass it, the second split is opened, and
the last flush is short; one fault in two runs reaches each half-finished state
the next run can meet; `city_seeder` has two, which can strike one batch twice (the query and
its repetition), and a third run after them; its first batch passes the cap and the second, a short
one, goes to split 2. In `hot_pipeline` a city's split is full after the first
tick, so the second one opens the next split, with workers in either order. Brands share nothing but the end of the enabler, so one is
enough, and two faults stop the enabler twice or the enabler and the stream. Two zones of
different size, a company for each way of sharding and two rows of each seed make every
loop of the setup programs go round; two faults fail two runs, the third completes. The pools of
`order_feed` make two pages and more, the smaller one ends before a cursor into the larger
one, and 33 and 60 divide 100 with a rest. Three rows in parts of two are
a full part and a torn one, and two runs can overlap or follow one another.

**Deadlock** is checked for the two servers, which never stop. All other
systems really stop: seeders, setup and the enabler after their runs, the hot pipeline when
it is told to, a flow at the end of its feed. Their configurations switch the check off.

### Fairness

* *Enrich service*: the worker's loop has no exit (`WF` on each of its steps) and a
  call to Ollama returns. Errors are assumed to be transient (`SF` on an answer):
  while every call fails, every batch is requeued for ever, and nothing can be
  promised. `http.Post` has no timeout, so an Ollama that accepts a connection and
  never answers stops the worker; that hazard is listed without a property.
* *Flows*: a flow that is up goes on (`WF` on the steps of each): the submitting flow takes the
  messages that are there, the collecting flow asks for pages again and again.
* *Quota store*: a goroutine that can run runs. New requests and hours are left
  open. `WF` suffices because no lock is contended for ever: each request takes it once.
* *Shard seeder*: statements return, and somebody runs the seeder again after a
  failure; runs are one more than faults.
* *City seeder, setup, WAL enabler*: the same; the enabler is not asked to succeed at any
  one run, and the cold and hot flows are started and go on.
* *Order feed*: a flow that is up goes on and is started again when it is down, more often than
  it is killed; the server's restarts are left open.
* *Landing*: a run goes on unless it is killed; scans go on and are made again and again.
* *Hot pipeline*: workers' statements return, with or without an error. Nothing
  is assumed of the ticker or of signals.

### Findings

* `CollectorMissesNothing`: the cursor of flow 35 outlives a restart, the list it
  points into does not. When the cursor is at or past the end, the service answers an
  empty page and the same cursor, so results completed below it are never served,
  although the service's header promises "cursor-paginated access to completed
  embeddings". Until a restart the property holds (`CollectedBelowCursor`).
* `MovementIdsAreUnique`: every run of the movement seeder numbers its movements from 1,
  while `mongo_init` calls `movement_id` "already globally unique". The upsert by this id makes a
  second `make seed-movement` replace the movements of the first.

Other places where the code and its documents disagree, which need no run to be seen:

* Section 4.1 of the case 4 plan (`case_4/case_4_etl_casestudy_plan.md:266`) says that on a restart
  flow 1 resumes from its cursor and "no events are re-published, no pages are skipped". The second
  half holds (`NothingSkipped`). The first does not: the last page's `next_cursor` is empty, so that a flow
  started after the end of the feed publishes all of it once more, and a flow killed in the middle
  of a page publishes the beginning of that page again. `RepeatsAreAccounted` says what does hold: one
  repetition at most for each of these, to the same place as before.
* STEP-40 of the case 3 plan expects a 429 within 401 reports; a report costs
  `rowsPerDay/1000 + 1` = 16 tokens, 401 of them 6,416 of 40,000.
* The case 1 plan caps a split at `SplitRowCap` rows; the code does not count pending rows, so
  a split ends up to a batch less one above it, never more (`SplitsFillInOrder`).
* `runTick` of the hot pipeline "returns the total number of orders actually inserted"
  (`case_2/cmd/hot_pipeline/main.go:133`). It returns fewer when a chunk fails, since the number is dropped
  with the error, and more when an answer breaks off and the orders are rolled back: the ids read until
  then are counted, and get children. `CascadeWithinOrders` gives the bound that remains.
* The case 2 plan calls `{sub_brand}_{order_id}` globally unique; `order_id` is a BIGSERIAL
  of each city's and split's table, so orders of two cities share document ids.
* STEP-40 of the case 2 plan has `wal_enabler` run again "to confirm slot is active"; that also
  moves the bookmark to the present. `ColdAndHotMeet` excepts a bookmark recorded after the copy
  for this reason.
* `events.go` of case 4 (lines 5 to 7) promises "the same data" after a restart; `created_at`
  is counted from the start of the process. The other fields go by the index alone.

## 4. What is proved

TLC checks the instances above; the theorems hold for every value of the constants that satisfies
the named assumption of the module (`EnrichAssumption`, `PipelineAssumption`, `QuotaAssumption`,
`ShardAssumption`, `HotAssumption`, `CityAssumption`, `WalAssumption`, `FeedAssumption`,
`LandingAssumption`, `SetupAssumption`). These only give the constants their types, bound the
default page by the largest one, keep marker values apart from real ones, make the set of brands
finite (`brands.Brands` is a fixed list), and know of no way to shard but the three of
`sharding.ShardingType`. Every safety invariant and every action property a run checks is a theorem.

Each proof goes the same way: an inductive invariant `IInv`, one lemma `...Keeps` for each action,
`Invariance` for `Spec => []IInv`, and the theorems as consequences. The parts of `IInv` are named
and commented where they are defined; what follows says why they are needed.

**`EnrichProofs`**: `TypeCorrect`, `RecordsAreConserved` (`Conservation`),
`PostsKeepTheirOrder` (`PostOrder`), `DoneIsStable` (`DoneIsAppendOnly`),
`ServiceImplementsFeed` (`ImplementsFeed`), `CollectorKeepsUp` (`CollectedBelowCursor`),
`CommittedIsAccountedFor` (`CommittedIsAccounted`).

* `Conservation` and `PostOrder` rest on one invariant: the three lists are each
  aligned (the records of a POST side by side and in order), no POST has records in two
  of them, none that is still waiting has lost a record, and lists and dropped records together
  are those accepted since the last restart. It is needed because a requeue puts a batch
  behind later POSTs: that this breaks no POST up, and leaves no record twice, follows only from
  POSTs being drained, requeued and appended whole, a short answer cutting off an end.
* `ImplementsFeed` maps an accepted POST to `Submit`, an append to `Settle`, a restart
  to `Forget`, and everything else to a stutter. `Settle` needs from the invariant
  that the batch has no repetition and shares nothing with `pending`.
* The two flows are proved on top of the service's invariant, of which every step of the
  composition is a step or a stutter (`PipeInv`). What makes them correct is that `done` only grows
  at its end: a page in the collecting flow's hands, and everything below its cursor, is still
  where it was when the service answered. The submitting flow's part says that a message is
  committed after its POST was accepted or its record put into the backlog, and `Conservation`
  then says where an accepted record can be: in one of the service's lists, or dropped by a short
  answer, or gone with a restart. The last two are losses, and the theorem names them as such.

**`QuotaProofs`**: `TypeCorrect`, `BucketsAreUnique` (`OneBucketPerProperty`),
`LimitsHold` (`GrantsWithinLimits`), `HoursAreWithinDays` (`HourWithinDay`),
`StoreImplementsBudget` (`ImplementsBudget`).

* `GrantsWithinLimits` is about clock hours, the code about windows. The
  invariant ties the two: once rolled to the present, a bucket's meters are exactly what
  was granted in this hour and day; hours to come were granted nothing; no window is
  ahead of the clock; a thread that is making a bucket found none and holds the
  write lock. A bucket made across the end of an hour has an old hour window
  and is rolled at its first use.
* The same invariant gives the refinement: what `Exhausted` looks at after a
  roll is the abstract meter of the request's own property, because the bucket in its hand is the one
  of that property (`BucketsAreUnique`); rolling without spending is a stutter.

**`ShardSeederProofs`**: `ShardNeverOverfills` (`NoOverfill`), `SplitsFill` (`SplitsFillInOrder`),
`ChildrenMatch` (`ChildrenMatchTheirCustomer`), `RunsSeedTheirChildren` (`RunSeedsItsChildren`).

* `Filled` is the heart: with every answer read right, the run's counters are those of the last
  split, and the rows in the tables, those made and not yet sent, and those still to make are
  together no more than the target. Its hypothesis is the history variable `misread`: after an INSERT
  that was carried out and whose answer was lost, the counters and the tables part. `Counting`
  says of a run that is still adding up the splits that its total is the rows of those it has seen.
* `Named`, `Fresh` and `Given` follow the children: which customer a row is for, which customers
  of the run have no row yet (so that none gets two), and which have all they need. The last two
  differ for the split in hand, by the kind of child and by the chunk.

**`HotPipelineProofs`**: `CitiesHaveOneWorker` (`OneWorkerPerCity`), `SplitsFill`
(`SplitsFillInOrder`), `ChildrenStayWithinOrders` (`CascadeWithinOrders`), `QuietTicksCascade`
(`TickCascades`).

* Workers share the tables of a city only over time: a city is in the queue, with one worker, or
  done, so that a worker's view of its split cannot grow old.
* In the middle of a tick the child tables are behind the orders by what the workers at work still
  owe: `Exact` says how much, split by split, and `Account` does so for the total, which with the
  sum of what all workers owe is the orders inserted and the ids read for orders rolled back; per
  split, `adrift` stands for the latter. The sum is over a finite set of any size,
  and a step changes one summand.

**`CitySeederProofs`**: `GrowthBounded` (`GrowthIsBounded`), `SplitsFill` (`SplitsFillInOrder`),
`ChildrenName` (`ChildrenNameTheirOrder`), `RunsSeedTheirChildren` (`RunSeedsItsChildren`).

* `Growth`: what lies outside split 1 is at most `runs * (Target - Size(1))`, and while a run is
  filling, what it has yet to insert is part of that budget. It survives a flush into split 1, which
  makes the factor smaller for all the runs before, only because such a flush means that split 1 was
  not full, so that nothing lay outside it.
* `Full` needs no count: the run never believes the split in hand to hold more than it does.
* `Given` is about all orders of all runs, since the children of an order are inserted by the run that
  made it: without a failure, an order has its rows or is in the list of the run at work, and its
  place in the list says which tables are still to come.
* `Owned` is what `ChildrenNameTheirOrder` needs beside it: every row, and every id in the hands of the run
  at work, is of an order that the run of the row, or this run, inserted, and no order has two rows of one
  kind in whichever splits.

**`WalBookmarkProofs`**: `TypeCorrect`, `BookmarksStream` (`BookmarkIsStreamable`), `FlowsMeet`
(`ColdAndHotMeet`).

* The invariant is about one brand at a time. `Ordered` says what each statement of the enabler
  may rely on: whoever reads the LSN has seen slot and publication, so the LSN it records is not below
  the publication, and whoever streams began at a bookmark. `Meets` is stronger than
  `ColdAndHotMeet`: a change neither copied nor streamed lies above slot, bookmark *and* stream,
  so that no order of advancing the slot, saving the position and stopping the stream can lose it.

**`OrderFeedProofs`**: `TypeCorrect`, `CursorsSkipNothing` (`NothingSkipped`), `RepeatsHaveReasons`
(`RepeatsAreAccounted`), `KindsTakeTurns` (`FaultsTakeTurns`).

* `AnswerIsRight` describes one answer: it holds every event between cursor and end, once, none
  below the cursor, and is the last one when the cursor lies past the pool.
  `Settled` adds to `NothingSkipped` the page in hand, of which every event is settled or still on it.
  `Fresh` says that what is on the page or behind it has not been settled in this round; it is
  needed because a count bounded by rounds and kills alone does not say which event may take the next step.
  `Fates` says that the fault of every event on the page and in a sink follows from its index, whichever
  start of the server made it, and that each sink holds the faults that belong there.
* `FaultsTakeTurns` is arithmetic, not an invariant with a history: the faults of a pool, and those of
  one kind, are numbered by a bijection from `1..n`, which gives their number for every pool and rate.

**`LandingAndSetupProofs`**: `NumbersHaveNoGap` (`PartsAreContiguous`), `PartsOnlyGrow`
(`PartsAreKept`), `EndedRunsAreWhole` (`RunIsWhole`), `AllIsThere` (`ReadyIsComplete`),
`OperatorRowsStay` (`EditsSurvive`). Two systems that have nothing to do with each other, in one
module for what they share: facts about lists of lists.

* A run looks up the highest part number once and then counts by itself. The invariant says that, as
  long as no two runs overlap, the parts a run has made are the last ones there are, in one row, and hold
  exactly the rows before its next one; the part in hand is the only one that is not closed.
* Setup's invariant is short: in a run without a fault, everything up to the next statement exists.
  That it is inductive rests on the scripts: `ScriptRuns` says that each statement of each case needs
  only servers and what earlier statements of the same script make, and that what is written over lies
  in one of two tables. It is shown program by program, by `Runs(s, B)`: the list of statements `s`
  can be sent where `B` exists. Two lists follow each other if the first makes what the second needs
  (`RunsAfter`); the lists made for each zone, company, brand or city follow each other because they
  need nothing of each other (`RunsFlatten`), except for the state partitions, of which each needs
  the zone partition just before it (`PartitionsRun`).

### How sums and lists of any length are handled

The library's induction theorems take the predicate as a parameter, which none of the provers can
instantiate. Where the proofs need induction they get it from the theorem `WFMin`: a set of
counterexamples among the naturals has a least member, and the step below it contradicts. That
is how `ShardSeederProofs` and `CitySeederProofs` show that the fold `TotalRows` is the sum of the splits'
sizes, `HotPipelineProofs` that the debts of all workers change by one summand, and `LandingAndSetupProofs`
that ascending file names are consecutive numbers, that the fold `FlattenSeq` reads a run's parts in order,
and that it keeps what concatenation keeps, of programs.
`EnrichProofs` has no need of it: its lists are described position by position.

### Only model-checked

Every liveness property: `EveryRecordSettles`, `EveryMessageSettles`, `EveryRequestAnswered`,
`ShardFills`, `CityFills`, `EveryTickEnds`, `EveryBrandStreams`, `SetupCompletes`, `FeedSettles`,
`MovementsArrive`. Fairness and `ENABLED` are beyond the prover.

## 5. Left out, and why

* **Quota store**: the contents of a page, and a wall clock set back. The clock of the model only
  goes forward.
* **Enrich service**: a negative cursor, which no reader asks for; the text
  and the vectors; `GET /health`, which changes nothing.
* **Shard seeder**: the pool of workers over shards, row contents, the zero dates of
  `injectBadActivationDates`, which change no row's place.
* **Hot pipeline**: row contents, which order a child row names (rows are counted).
* **City seeder**: the worker pool over cities, which share no table; row contents. The items
  of an order are one row.
* **WAL enabler and setup**: the tries of `connectWithRetry`, which count as one; columns.
* **Order-events API**: the refusals' status codes, a cursor so large that `cursor + limit`
  overflows, the fields of an event that no path depends on.
* **Landing**: file formats (blocks, headers, footers), the contents of parts that two runs write at
  once, the two kinds of fault rows, other dates of the snapshot.
* **Seeders of case 5 and 7, backlog seeders of case 4 and 6**: independent rows under ids nobody
  in the repository depends on. A failed tick of case 5's hot seeder skips ids that
  the Oracle seeder does not, and case 7's rows are dated up to thirty days back, below
  the watermark the plan gives flow 1: both bite only in flows outside the repository.
* **Row generators of case 3**: pure functions without state.

## 6. Plan

Done: every module of section 2, and a proof of every safety invariant, action property and
refinement the runs check. To come, most important first:

1. A clock set back in `Quota`.
2. The city seeder and the hot pipeline at work on one city.
3. The case 7 seeder with the watermark flow of its plan.
