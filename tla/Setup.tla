-------------------------------- MODULE Setup --------------------------------
(***************************************************************************)
(* "make setup" of the seven cases: the programs that create the schemas   *)
(* and fill in the reference rows, run one after the other.  Each program  *)
(* is a list of statements that create something unless it is there; make  *)
(* stops at the first program that exits with an error, and the operator   *)
(* runs it again from the top.  Between runs the operator edits reference  *)
(* rows: force_stop, thresholds, batch sizes, risk tiers.                  *)
(*                                                                         *)
(* An object is a path: <<"destination", "raw", "customers">> is a table   *)
(* of a schema of a database, and a seeded row is named by its table and a *)
(* number.  A statement needs the object it is created in.  Columns, and   *)
(* the indexes created by the same statement as their table, are left out; *)
(* so are the tries of connectWithRetry, which count as one connection.    *)
(***************************************************************************)
EXTENDS Naturals, Sequences, FiniteSets, SequencesExt

CONSTANTS Zones,      \* sharding.Zones, a sequence of [name, states]
          Companies,  \* sharding.Companies, a sequence of [name, sharding]
          Brands,     \* brands.Brands, their names
          Cities,     \* brands.Cities, their names
          SeedRows,   \* rows of each list of seeds
          Cases,      \* the cases that are set up
          MaxSetups,  \* bound: runs of make setup
          MaxFaults,  \* bound: statements that fail
          MaxEdits    \* bound: rows the operator edits

ASSUME SetupAssumption ==
  /\ Zones \in Seq([name : STRING, states : Seq(STRING)])
  /\ Companies \in Seq([name : STRING,
                         sharding : {"zone_state", "zone_only", "state_only"}])
  /\ Brands \in Seq(STRING) /\ Cities \in Seq(STRING)
  /\ SeedRows \in Nat \ {0} /\ Cases \subseteq 1..7
  /\ MaxSetups \in Nat /\ MaxFaults \in Nat /\ MaxEdits \in Nat

VARIABLES case,       \* the case being set up
          phase,      \* "idle", "running", "failed" or "ready"
          pc,         \* the statement that is sent next
          db,         \* the objects that exist
          edited,     \* rows that hold what the operator put there
          runs, faults, edits,
          hit         \* a statement of this run has failed for no fault of its own

setupVars == <<case, phase, pc, db, edited, runs, faults, edits, hit>>

-----------------------------------------------------------------------------
(* Statements *)

Statement(path, needs, does, soft) ==
  [path |-> path, needs |-> needs, does |-> does, soft |-> soft]

Connect(database) == << Statement(<<database>>, {<<database>>}, "connect", FALSE) >>

Each(parent, names, does, soft) ==
  [i \in DOMAIN names |->
     Statement(Append(parent, names[i]), {parent}, does, soft)]

Create(parent, names) == Each(parent, names, "create", FALSE)

\* INSERT ... ON CONFLICT DO NOTHING, row by row.
SeedTwice(parent) ==   \* mutated Seed: ON CONFLICT DO UPDATE
  Each(parent, [n \in 1..SeedRows |-> ToString(n)], "rewrite", FALSE)

Seed(parent) == Each(parent, [n \in 1..SeedRows |-> ToString(n)], "seed", FALSE)

Merge(parent, names) == Each(parent, names, "rewrite", FALSE)

ForEach(set, Statements(_)) ==
  FlattenSeq([i \in DOMAIN set |-> Statements(set[i])])

-----------------------------------------------------------------------------
(* Case 1 *)

Five == <<"customers", "subscriptions", "billing_accounts", "sim_inventory",
          "port_history">>

States == FlattenSeq([z \in DOMAIN Zones |-> Zones[z].states])

\* The suffixes of a company's tables, by the way it shards them.
ShardSuffixes(sharding) ==
  CASE sharding = "zone_state" ->
         FlattenSeq([z \in DOMAIN Zones |->
           [s \in DOMAIN Zones[z].states |-> <<Zones[z].name, Zones[z].states[s]>>]])
    [] sharding = "zone_only" -> [z \in DOMAIN Zones |-> <<Zones[z].name>>]
    [] sharding = "state_only" -> [s \in DOMAIN States |-> <<States[s]>>]

\* mysql_schema: split _1 of the five tables of every shard, company by company.
InitialSplits(company) ==
  ForEach(ShardSuffixes(company.sharding), LAMBDA suffix :
    [t \in DOMAIN Five |->
       Statement(<<company.name, Five[t]>> \o suffix, {<<company.name>>}, "create", FALSE)])

MySQLSchema ==
  ForEach(Companies, LAMBDA company : Connect(company.name) \o InitialSplits(company))

Dest == <<"destination">>

CreateSchemas == Create(Dest, <<"raw", "staging", "curated", "audit">>)

CreateRawTables == Create(Append(Dest, "raw"), Five)

CreateStagingTables == Create(Append(Dest, "staging"), Five)

Curated == Append(Dest, "curated")
Partitioned == Append(Five, "network_assignments")

CreateCuratedTables == Create(Curated, Append(Partitioned, "customer_merge_log"))

PartitionsFlat ==   \* mutated CreateCuratedPartitions: the states come first
  LET parts(z, t) ==
        LET zone == Append(Append(Curated, t), Zones[z].name)
        IN  Create(zone, Zones[z].states) \o
            Create(Append(Curated, t), <<Zones[z].name>>)
  IN  FlattenSeq([z \in DOMAIN Zones |-> ForEach(Partitioned, LAMBDA t : parts(z, t))])

\* Zone partitions of each table, and the states' partitions of each of them.
CreateCuratedPartitions ==
  LET parts(z, t) ==
        LET zone == Append(Append(Curated, t), Zones[z].name)
        IN  Create(Append(Curated, t), <<Zones[z].name>>) \o
            Create(zone, Zones[z].states)
  IN  FlattenSeq([z \in DOMAIN Zones |-> ForEach(Partitioned, LAMBDA t : parts(z, t))])

AuditTrail == <<"destination", "audit", "audit_trail">>

CreateAuditTables == Create(Append(Dest, "audit"), <<"audit_trail">>)

\* Indexes named by what they are on; two tables have more than one.
CreateIndexes ==
  Create(<<"destination", "raw", "customers">>, <<"msisdn", "source">>) \o
  ForEach(Tail(Five), LAMBDA t : Create(<<"destination", "raw", t>>, <<"msisdn">>)) \o
  Create(<<"destination", "staging", "customers">>, <<"msisdn", "canonical">>) \o
  Create(AuditTrail, <<"msisdn", "changed_at", "batch">>) \o
  Create(Append(Curated, "customer_merge_log"), <<"msisdn">>)

PostgresSchema ==
  Connect("destination") \o CreateSchemas \o CreateRawTables \o CreateStagingTables \o
  CreateCuratedTables \o CreateCuratedPartitions \o CreateAuditTables \o CreateIndexes

Aux == <<"auxdb">>
AuxTable(name) == Append(Aux, name)

AuxTables1 ==
  Create(Aux, <<"pgcrypto", "pipeline_checkpoints", "backlog_records",
                "dedup_registry", "plan_mapping", "terminate_rules",
                "write_tune_config", "reconciliation_log", "audit_trail",
                "customer_merge_log">>)

AuxSeeds1 ==
  Seed(AuxTable("plan_mapping")) \o Seed(AuxTable("terminate_rules")) \o
  Each(AuxTable("write_tune_config"), <<"global">>, "seed", FALSE)

AuxDB1 == Connect("auxdb") \o AuxTables1 \o AuxSeeds1

-----------------------------------------------------------------------------
(* Case 2 *)

Orders == <<"orders", "order_items", "order_status_events", "delivery_assignments">>

\* pg_schema: split 1 of the four tables of every city of every brand.
PgSchema ==
  ForEach(Brands, LAMBDA brand : Connect(brand) \o
    ForEach(Cities, LAMBDA city :
      [t \in DOMAIN Orders |->
         Statement(<<brand, Orders[t], city>>, {<<brand>>}, "create", FALSE)]))

\* es_schema: GET the index, and PUT it with its mapping when there is none.
EsSchema(index) == Connect("elasticsearch") \o Create(<<"elasticsearch">>, <<index>>)

AuxTables2 ==
  Create(Aux, <<"pipeline_checkpoints", "backlog_records", "wal_positions",
                "backfill_progress", "city_mapping", "brand_sla_rules",
                "terminate_rules", "write_tune_config", "es_write_log",
                "backfill_completion_log">>)

AuxSeeds2 ==
  Seed(AuxTable("city_mapping")) \o Seed(AuxTable("brand_sla_rules")) \o
  Seed(AuxTable("terminate_rules")) \o
  Each(AuxTable("write_tune_config"), <<"global">>, "seed", FALSE)

AuxDB2 == Connect("auxdb") \o AuxTables2 \o AuxSeeds2

\* wal_enabler (WalBookmark) logs what fails for a brand and exits with 0.
WalEnabler == Connect("auxdb") \o Each(AuxTable("wal_positions"), Brands, "rewrite", TRUE)

-----------------------------------------------------------------------------
(* Cases 3 to 7 *)

AuxDB3 ==
  Connect("auxdb") \o
  Create(Aux, <<"pipeline_checkpoints", "pipeline_backlog", "terminate_rules",
                "write_tune_config", "pipeline_run_log">>) \o
  ForEach(<<"terminate_rules", "write_tune_config">>, LAMBDA t :
    Each(AuxTable(t), <<"backfill", "daily", "realtime">>, "seed", FALSE))

Warehouse == <<"mssql", "analytics_warehouse">>

\* masterDDL: what fails is a warning, "may already exist".
MasterDDL ==
  << Statement(Warehouse, {<<"mssql">>}, "create", TRUE),
     Statement(<<"mssql", "login">>, {<<"mssql">>}, "create", TRUE),
     Statement(Append(Warehouse, "etl_writer"), {Warehouse, <<"mssql", "login">>},
               "create", TRUE),
     Statement(Append(Warehouse, "db_owner"), {Append(Warehouse, "etl_writer")},
               "create", TRUE) >>

SchemaDDLIndexFirst ==   \* mutated SchemaDDL: an index before its table
  Each(Append(Warehouse, "dbo.realtime_sessions"), <<"snapshot">>, "create", TRUE) \o
  Each(Warehouse, <<"stage", "dbo.ga4_sessions", "dbo.realtime_sessions",
                    "dbo.pipeline_run_log">>, "create", TRUE)

\* schemaDDL: only warnings here too.  The schema dbo is there from the start.
SchemaDDL ==
  LET Table(name) == Append(Warehouse, name)
      Soft(parent, names) == Each(parent, names, "create", TRUE)
  IN  Soft(Warehouse, <<"stage", "dbo.ga4_sessions">>) \o
      Soft(Table("stage"), <<"ga4_sessions">>) \o
      Soft(Warehouse, <<"dbo.realtime_sessions", "dbo.pipeline_run_log">>) \o
      Soft(Table("dbo.ga4_sessions"), <<"date_property", "attribution", "columnstore">>) \o
      Soft(Table("dbo.realtime_sessions"), <<"snapshot">>)

\* Between the two, a connection to the new database has to succeed.
MSSQLSchema ==
  Connect("mssql") \o MasterDDL \o
  << Statement(Warehouse, {Warehouse}, "connect", FALSE) >> \o SchemaDDL

AuxDB4 ==
  Connect("auxdb") \o
  Create(Aux, <<"zepto_ingestion_cursors", "zepto_ingestion_backlog",
                "zepto_storage_offsets", "zepto_storage_backlog">>)

\* Both statements go to cqlsh at once; whichever fails, make stops.
CassandraSchema ==
  Connect("cassandra") \o Create(<<"cassandra">>, <<"zepto_events">>) \o
  Create(<<"cassandra", "zepto_events">>, <<"order_events">>)

AuxDB5 ==
  Connect("auxdb") \o
  Create(Aux, <<"pf_catalog_checkpoints", "pf_enrich_collect_cursors",
                "pf_enrich_submit_offsets", "pf_postgres_ingest_backlog",
                "pf_oracle_ingest_backlog", "pf_enrich_submit_backlog",
                "pf_es_index_backlog">>)

AuxDB6 ==
  Connect("auxdb") \o
  Create(Aux, <<"fc_snapshot_progress", "fc_snapshot_backlog",
                "fc_movement_progress", "fc_movement_backlog">>)

\* mongo_init: a collection comes into being with its index.
MongoInit == Create(<<"mongo">>, <<"inventory_snapshots", "stock_movements">>)

EsSchema5 == EsSchema("pf_products")
EsSchema7 == EsSchema("merchant_txn_summary")

AuxDB7 == Connect("auxdb") \o Create(Aux, <<"flow_watermark", "flow_backlog">>)

PgSchema7 == Connect("payments") \o Create(<<"payments">>, <<"transactions">>)

\* snowflake_setup is run by hand: the stream needs a table that tracks changes,
\* and the merchants are merged, whatever was there.
SnowflakeSetup ==
  LET raw == <<"snowflake", "RAW_TRANSACTIONS">>
      tracking == Append(raw, "CHANGE_TRACKING")
      profile == <<"snowflake", "MERCHANT_RISK_PROFILE">>
  IN  Connect("snowflake") \o Create(<<"snowflake">>, <<"RAW_TRANSACTIONS">>) \o
      << Statement(tracking, {raw}, "create", FALSE) >> \o
      Create(<<"snowflake">>, <<"MERCHANT_RISK_PROFILE">>) \o
      << Statement(<<"snowflake", "TXN_STREAM">>, {raw, tracking}, "create", FALSE) >> \o
      Create(<<"snowflake">>, <<"STREAM_CONSUME_MARKER", "MERCHANT_TXN_SUMMARY">>) \o
      Merge(profile, [n \in 1..SeedRows |-> ToString(n)])

-----------------------------------------------------------------------------

\* make setup, up to the seeding of the sources.
Script ==
  [c \in Cases |->
     CASE c = 1 -> MySQLSchema \o PostgresSchema \o AuxDB1
       [] c = 2 -> PgSchema \o EsSchema("platform_orders") \o AuxDB2 \o WalEnabler
       [] c = 3 -> AuxDB3 \o MSSQLSchema
       [] c = 4 -> AuxDB4 \o CassandraSchema
       [] c = 5 -> AuxDB5 \o EsSchema5
       [] c = 6 -> AuxDB6 \o MongoInit
       [] c = 7 -> PgSchema7 \o AuxDB7 \o EsSchema7 \o SnowflakeSetup]

Paths(c) == {Script[c][i].path : i \in DOMAIN Script[c]}

\* The servers are up: docker compose waits until they are healthy.
Servers(c) == {path \in Paths(c) \union
                 UNION {Script[c][i].needs : i \in DOMAIN Script[c]} : Len(path) = 1}

SetupInit ==
  /\ case \in Cases
  /\ phase = "idle" /\ pc = 1
  /\ db = Servers(case) /\ edited = {}
  /\ runs = 0 /\ faults = 0 /\ edits = 0 /\ hit = FALSE

StartSetup ==
  /\ phase # "running" /\ runs < MaxSetups
  /\ phase' = "running" /\ pc' = 1 /\ hit' = FALSE
  /\ runs' = runs + 1
  /\ UNCHANGED <<case, db, edited, faults, edits>>

Running == phase = "running" /\ pc <= Len(Script[case])

Now == Script[case][pc]

Runnable == Now.needs \subseteq db

Execute ==
  /\ db' = db \union {Now.path}
  /\ edited' = IF Now.does = "rewrite" THEN edited \ {Now.path} ELSE edited

Succeeds ==
  /\ Running /\ Runnable
  /\ Execute
  /\ pc' = pc + 1
  /\ UNCHANGED <<case, phase, runs, faults, edits, hit>>

\* An error is a warning, and the next statement is sent, or log.Fatalf.
GiveUp ==
  IF Now.soft THEN pc' = pc + 1 /\ UNCHANGED phase
              ELSE phase' = "failed" /\ UNCHANGED pc

\* What it needs is missing.
CannotRun ==
  /\ Running /\ ~Runnable
  /\ GiveUp
  /\ UNCHANGED <<case, db, edited, runs, faults, edits, hit>>

\* It fails, or is carried out and its answer is lost.
Fails ==
  /\ Running /\ faults < MaxFaults
  /\ faults' = faults + 1 /\ hit' = TRUE
  /\ \/ Runnable /\ Execute
     \/ UNCHANGED <<db, edited>>
  /\ GiveUp
  /\ UNCHANGED <<case, runs, edits>>

Ready ==
  /\ phase = "running" /\ pc > Len(Script[case])
  /\ phase' = "ready"
  /\ UNCHANGED <<case, pc, db, edited, runs, faults, edits, hit>>

ReferenceRows ==
  {Script[case][i].path : i \in
     {j \in DOMAIN Script[case] : Script[case][j].does \in {"seed", "rewrite"}}}

\* The operator edits a reference row at any time.
Edit(row) ==
  /\ row \in db /\ edits < MaxEdits
  /\ edited' = edited \union {row} /\ edits' = edits + 1
  /\ UNCHANGED <<case, phase, pc, db, runs, faults, hit>>

Progress == Succeeds \/ CannotRun \/ Fails \/ Ready

SetupNext == StartSetup \/ Progress \/ \E row \in ReferenceRows : Edit(row)

SetupSpec == SetupInit /\ [][SetupNext]_setupVars

\* The programs run on, and setup is run again when it has failed.
FairSetup == SetupSpec /\ WF_setupVars(Progress) /\ WF_setupVars(StartSetup)

-----------------------------------------------------------------------------
(* Properties *)

SetupTypeOK ==
  /\ case \in Cases /\ phase \in {"idle", "running", "failed", "ready"}
  /\ pc \in 1..Len(Script[case]) + 1
  /\ db \subseteq Paths(case) \union Servers(case)
  /\ edited \subseteq ReferenceRows \intersect db
  /\ runs \in 0..MaxSetups /\ faults \in 0..MaxFaults /\ edits \in 0..MaxEdits
  /\ hit \in BOOLEAN

\* "infrastructure is READY" after a run in which nothing failed means that every
\* object of the script exists, the ones a program only warns about included,
\* however the runs before it ended: the statements are in an order in which
\* each finds what it needs, and none takes a half-made object for its own.
\* (Checked with the types.)
ReadyIsComplete ==
  /\ SetupTypeOK
  /\ phase = "ready" /\ ~hit => Paths(case) \subseteq db

\* Setup may be run again at any time without undoing what the operator set: only
\* the bookmarks of case 2 and the risk profiles of case 7 are written again.
EditsSurvive ==
  [][\A row \in edited : row \in edited'
       \/ Front(row) \in {<<"auxdb", "wal_positions">>,
                          <<"snowflake", "MERCHANT_RISK_PROFILE">>}]_setupVars

\* Run again after each failure, make setup ends READY.
SetupCompletes == <>(phase = "ready")
=============================================================================
