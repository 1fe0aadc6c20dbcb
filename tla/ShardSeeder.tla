----------------------------- MODULE ShardSeeder -----------------------------
(***************************************************************************)
(* seedShard of case 1 (cmd/seeder/main.go): fill one shard of a company's *)
(* MySQL database up to --records-per-shard customers, in numbered split   *)
(* tables of about --split-row-cap rows, and then give each customer its   *)
(* rows in the four child tables of the same split.  Every statement is    *)
(* its own transaction, so a statement that fails, a lost answer or a      *)
(* killed process leaves the shard part-way; the next run looks at what is *)
(* there and inserts what is missing.                                      *)
(*                                                                         *)
(* One action is one statement sent to MySQL or one turn of the loop that  *)
(* makes rows.  A customer is abstracted to whether it has an MSISDN.      *)
(***************************************************************************)
EXTENDS Naturals, Sequences, FiniteSets, Bags, FiniteSetsExt, SequencesExt

CONSTANTS Target,     \* --records-per-shard
          Cap,        \* --split-row-cap
          Batch,      \* insertBatchSize
          MaxRuns,    \* bound: runs of the seeder
          MaxFaults   \* bound: statements that fail and processes killed

ASSUME ShardAssumption ==
  /\ Target \in Nat /\ Cap \in Nat \ {0} /\ Batch \in Nat \ {0}
  /\ MaxRuns \in Nat /\ MaxFaults \in Nat

Child == <<"subscriptions", "billing_accounts", "sim_inventory", "port_history">>

\* The database.
VARIABLES customers,   \* customers[n]: the rows of customers_<shard>_<n>, by id
          childTables, \* the child tables that exist, as <<kind, split>>
          children     \* children[kind]: the bag of customers that have a row

\* The run under way.
VARIABLES at,          \* where the run is
          probe,       \* the split that is counted next, or created now
          total,       \* rows counted so far (shardState.totalRows)
          split,       \* the split rows go to
          splitRows,   \* rows in it, as far as the run knows
          left,        \* rows still to be made
          pending,     \* rows made and not inserted yet
          mine,        \* allCustomers: those this run inserted with an MSISDN
          todo,        \* splits whose customers have no children yet
          kind,        \* the child table being filled, an index of Child
          sending      \* customers it still has to be given

\* History.
VARIABLES runs, faults,
          misread      \* a failed count was taken for a missing table

dbVars == <<customers, childTables, children>>
countVars == <<probe, total, split, splitRows>>
fillVars == <<left, pending, mine>>
childVars == <<todo, kind, sending>>
history == <<runs, faults, misread>>
vars == <<dbVars, at, countVars, fillVars, childVars, history>>

Resting == {"new", "done", "failed"}
Busy == {"counting", "filling", "creating", "children", "sending"}

Fault == faults < MaxFaults /\ faults' = faults + 1 /\ UNCHANGED <<runs, misread>>

TotalRows == FoldSeq(LAMBDA rows, sum : Len(rows) + sum, 0, customers)

-----------------------------------------------------------------------------
(* inspectExistingSplits *)

StartRun ==
  /\ at \in Resting /\ runs < MaxRuns
  /\ at' = "counting" /\ probe' = 1 /\ total' = 0 /\ split' = 1 /\ splitRows' = 0
  /\ left' = 0 /\ pending' = <<>> /\ mine' = {}
  /\ todo' = {} /\ kind' = 1 /\ sending' = {}
  /\ runs' = runs + 1
  /\ UNCHANGED <<dbVars, faults, misread>>

CountSplit ==
  /\ at = "counting" /\ probe <= Len(customers)
  /\ total' = total + Len(customers[probe])
  /\ splitRows' = Len(customers[probe])
  /\ split' = probe /\ probe' = probe + 1
  /\ UNCHANGED <<dbVars, at, fillVars, childVars, history>>

CountedTwice ==   \* mutated Counted: the last split is subtracted once more
  /\ at = "counting"
  /\ \/ probe > Len(customers) /\ UNCHANGED history
     \/ /\ probe <= Len(customers) /\ faults < MaxFaults
        /\ faults' = faults + 1 /\ misread' = TRUE /\ UNCHANGED runs
  /\ left' = IF total + splitRows < Target THEN Target - total - splitRows ELSE 0
  /\ at' = IF total + splitRows < Target THEN "filling" ELSE "done"
  /\ UNCHANGED <<dbVars, countVars, pending, mine, childVars>>

CountedLast ==   \* mutated Counted: only the last split is subtracted
  /\ at = "counting"
  /\ \/ probe > Len(customers) /\ UNCHANGED history
     \/ /\ probe <= Len(customers) /\ faults < MaxFaults
        /\ faults' = faults + 1 /\ misread' = TRUE /\ UNCHANGED runs
  /\ left' = IF splitRows < Target THEN Target - splitRows ELSE 0
  /\ at' = IF splitRows < Target THEN "filling" ELSE "done"
  /\ UNCHANGED <<dbVars, countVars, pending, mine, childVars>>

\* Any error of the count ends it: the table is missing, or is taken to be.
Counted ==
  /\ at = "counting"
  /\ \/ probe > Len(customers) /\ UNCHANGED history
     \/ /\ probe <= Len(customers) /\ faults < MaxFaults
        /\ faults' = faults + 1 /\ misread' = TRUE /\ UNCHANGED runs
  /\ left' = IF total < Target THEN Target - total ELSE 0
  /\ at' = IF total < Target THEN "filling" ELSE "done"
  /\ UNCHANGED <<dbVars, countVars, pending, mine, childVars>>

-----------------------------------------------------------------------------
(* Customers *)

SplitIsFull == splitRows >= Cap

FlushDue ==
  /\ pending # <<>>
  /\ Len(pending) >= Batch \/ left = 0 \/ SplitIsFull

\* One turn of the loop makes a row, with or without an MSISDN.
MakeRow(hasMsisdn) ==
  /\ at = "filling" /\ left > 0 /\ ~SplitIsFull /\ ~FlushDue
  /\ pending' = Append(pending, hasMsisdn)
  /\ left' = left - 1
  /\ UNCHANGED <<dbVars, at, countVars, mine, childVars, history>>

Insert(rows) == customers' = [customers EXCEPT ![split] = @ \o rows]

\* The id LastInsertId gives to the first row, and the next ones to the others.
NewCustomers(rows) ==
  {[split |-> split, id |-> Len(customers[split]) + i] :
     i \in {j \in DOMAIN rows : rows[j]}}

FlushUncounted ==   \* mutated FlushCustomers: splitRowCount is not advanced
  /\ at = "filling" /\ FlushDue
  /\ Insert(pending)
  /\ mine' = mine \union NewCustomers(pending)
  /\ pending' = <<>>
  /\ UNCHANGED <<childTables, children, at, countVars, left, childVars, history>>

FlushNumbersNulls ==   \* mutated FlushCustomers: ids counted without the nulls
  /\ at = "filling" /\ FlushDue
  /\ Insert(pending)
  /\ mine' = mine \union
       {[split |-> split, id |-> Len(customers[split]) + i] :
          i \in 1..Cardinality({j \in DOMAIN pending : pending[j]})}
  /\ splitRows' = splitRows + Len(pending)
  /\ pending' = <<>>
  /\ UNCHANGED <<childTables, children, at, probe, total, split, left,
                 childVars, history>>

FlushCustomers ==
  /\ at = "filling" /\ FlushDue
  /\ Insert(pending)
  /\ mine' = mine \union NewCustomers(pending)
  /\ splitRows' = splitRows + Len(pending)
  /\ pending' = <<>>
  /\ UNCHANGED <<childTables, children, at, probe, total, split, left,
                 childVars, history>>

\* The INSERT fails, or succeeds and its answer is lost: the shard is skipped.
FlushFails ==
  /\ at = "filling" /\ FlushDue
  /\ Fault
  /\ UNCHANGED customers \/ Insert(pending)
  /\ at' = "failed"
  /\ UNCHANGED <<childTables, children, countVars, fillVars, childVars>>

NextSplit ==
  /\ at = "filling" /\ left > 0 /\ SplitIsFull /\ ~FlushDue
  /\ split' = split + 1 /\ splitRows' = 0
  /\ probe' = 0
  /\ at' = "creating"
  /\ UNCHANGED <<dbVars, total, fillVars, childVars, history>>

\* createSplitTables: customers first, then the four child tables, each with
\* CREATE TABLE IF NOT EXISTS.
CreateTable ==
  /\ at = "creating"
  /\ IF probe = 0
     THEN /\ customers' = IF split > Len(customers) THEN Append(customers, <<>>)
                          ELSE customers
          /\ UNCHANGED childTables
     ELSE /\ childTables' = childTables \union {<<Child[probe], split>>}
          /\ UNCHANGED customers
  /\ probe' = probe + 1
  /\ at' = IF probe = Len(Child) THEN "filling" ELSE "creating"
  /\ UNCHANGED <<children, total, split, splitRows, fillVars, childVars, history>>

CreateFails ==
  /\ at = "creating"
  /\ Fault
  /\ at' = "failed"
  /\ UNCHANGED <<dbVars, countVars, fillVars, childVars>>

LastSplitOnly ==   \* mutated FinishFilling: children for the last split only
  /\ at = "filling" /\ left = 0 /\ pending = <<>>
  /\ todo' = {c.split : c \in mine} \intersect {split}
  /\ at' = IF mine = {} THEN "done" ELSE "children"
  /\ UNCHANGED <<dbVars, countVars, fillVars, kind, sending, history>>

\* The zero dates set here by injectBadActivationDates change no row's place,
\* and a failure to set them is only logged.
FinishFilling ==
  /\ at = "filling" /\ left = 0 /\ pending = <<>>
  /\ todo' = {c.split : c \in mine}
  /\ at' = IF mine = {} THEN "done" ELSE "children"
  /\ UNCHANGED <<dbVars, countVars, fillVars, kind, sending, history>>

-----------------------------------------------------------------------------
(* Children *)

MineIn(n) == {c \in mine : c.split = n}

\* The splits come out of a Go map, in any order.
PickSplit(n) ==
  /\ at = "children" /\ n \in todo
  /\ todo' = todo \ {n}
  /\ split' = n
  /\ kind' = 1 /\ sending' = MineIn(n)
  /\ at' = "sending"
  /\ UNCHANGED <<dbVars, probe, total, splitRows, fillVars, history>>

AllSplitsDone ==
  /\ at = "children" /\ todo = {}
  /\ at' = "done"
  /\ UNCHANGED <<dbVars, countVars, fillVars, childVars, history>>

TableExists == <<Child[kind], split>> \in childTables

\* batchInsert sends its rows in chunks, in the order of the customers.
Chunk ==
  {c \in sending : Cardinality({d \in sending : d.id < c.id}) < Batch}

InsertChunk ==
  /\ at = "sending" /\ sending # {} /\ TableExists
  /\ children' = [children EXCEPT ![Child[kind]] = @ (+) SetToBag(Chunk)]
  /\ sending' = sending \ Chunk
  /\ UNCHANGED <<customers, childTables, at, countVars, fillVars, todo, kind, history>>

\* The next kind gets a row for every customer, but port_history for some.
NextKind ==
  /\ at = "sending" /\ sending = {} /\ kind < Len(Child)
  /\ kind' = kind + 1
  /\ IF kind' = Len(Child) THEN sending' \in SUBSET MineIn(split)
                           ELSE sending' = MineIn(split)
  /\ UNCHANGED <<dbVars, at, countVars, fillVars, todo, history>>

KindsDone ==
  /\ at = "sending" /\ sending = {} /\ kind = Len(Child)
  /\ at' = "children"
  /\ UNCHANGED <<dbVars, countVars, fillVars, childVars, history>>

\* A table that was never created, a failure or a lost answer ends the shard.
ChunkFails ==
  /\ at = "sending" /\ sending # {}
  /\ \/ ~TableExists /\ UNCHANGED <<children, history>>
     \/ TableExists /\ Fault /\ UNCHANGED children
     \/ /\ TableExists /\ Fault
        /\ children' = [children EXCEPT ![Child[kind]] = @ (+) SetToBag(Chunk)]
  /\ at' = "failed"
  /\ UNCHANGED <<customers, childTables, countVars, fillVars, childVars>>

-----------------------------------------------------------------------------

Crash ==
  /\ at \in Busy
  /\ Fault
  /\ at' = "failed"
  /\ UNCHANGED <<dbVars, countVars, fillVars, childVars>>

\* mysql_schema has created split 1 of the five tables, empty.
Init ==
  /\ customers = << <<>> >>
  /\ childTables = {<<Child[k], 1>> : k \in DOMAIN Child}
  /\ children = [k \in Range(Child) |-> EmptyBag]
  /\ at = "new"
  /\ probe = 1 /\ total = 0 /\ split = 1 /\ splitRows = 0
  /\ left = 0 /\ pending = <<>> /\ mine = {}
  /\ todo = {} /\ kind = 1 /\ sending = {}
  /\ runs = 0 /\ faults = 0 /\ misread = FALSE

Progress ==
  \/ CountSplit \/ Counted
  \/ \E hasMsisdn \in BOOLEAN : MakeRow(hasMsisdn)
  \/ FlushCustomers \/ NextSplit \/ CreateTable \/ FinishFilling
  \/ \E n \in todo : PickSplit(n)
  \/ InsertChunk \/ NextKind \/ KindsDone \/ AllSplitsDone

Next ==
  \/ StartRun \/ Progress
  \/ FlushFails \/ CreateFails \/ ChunkFails \/ Crash

Spec == Init /\ [][Next]_vars

\* A run goes on until it ends, and the seeder is run again after a failure.
FairSpec ==
  /\ Spec
  /\ WF_vars(Progress \/ FlushFails \/ CreateFails \/ ChunkFails)
  /\ WF_vars(StartRun)

-----------------------------------------------------------------------------
(* Properties *)

Customer == [split : 1..Len(customers), id : Nat \ {0}]

TypeOK ==
  /\ customers \in Seq(Seq(BOOLEAN))
  /\ childTables \subseteq Range(Child) \X (1..Len(customers))
  /\ DOMAIN children = Range(Child)
  /\ at \in Resting \union Busy
  /\ probe \in Nat /\ total \in Nat /\ splitRows \in Nat
  /\ split \in 1..Len(customers) + 1
  /\ left \in 0..Target /\ pending \in Seq(BOOLEAN)
  /\ mine \subseteq Customer /\ sending \subseteq mine
  /\ todo \subseteq 1..Len(customers) /\ kind \in DOMAIN Child
  /\ runs \in 0..MaxRuns /\ faults \in 0..MaxFaults /\ misread \in BOOLEAN

\* However often the seeder is killed, fails, or has inserted rows whose answer
\* it never saw, its runs together make no more customers than were asked for,
\* unless a failed count was taken for a missing table.  (inspectExistingSplits)
NoOverfill == misread \/ TotalRows <= Target

\* Splits fill in order: only the last one may be below the cap, none passes it
\* by a whole batch, and a run that resumes goes on in the last one.
SplitsFillInOrder ==
  misread \/ \A n \in DOMAIN customers :
    /\ n < Len(customers) => Len(customers[n]) >= Cap
    /\ Len(customers[n]) < Cap + Batch

\* "child tables land in the matching split table": a child row names a
\* customer of its own split that has an MSISDN, and no customer has two rows
\* in one child table, whatever was retried.  No foreign key enforces it.
\* (Checked with the types.)
ChildrenMatchTheirCustomer ==
  /\ TypeOK
  /\ \A k \in Range(Child) : \A c \in DOMAIN children[k] :
       /\ children[k][c] = 1
       /\ <<k, c.split>> \in childTables
       /\ c.id \in DOMAIN customers[c.split]
       /\ customers[c.split][c.id]

\* A run that ends without an error has given every customer it made, in
\* whichever split, its subscription, its bill and its SIM.
RunSeedsItsChildren ==
  at = "done" => \A c \in mine : \A k \in 1..3 : c \in DOMAIN children[Child[k]]

\* Run again after every failure, the seeder fills the shard in the end, even
\* when a failure left a split half created.
ShardFills == <>(TotalRows >= Target)
=============================================================================
