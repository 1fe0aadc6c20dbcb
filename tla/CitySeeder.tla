----------------------------- MODULE CitySeeder -----------------------------
(***************************************************************************)
(* seedCity of case 2 (cmd/seeder/main.go): fill the orders of one city of *)
(* one brand up to --records-per-city, in numbered split tables, and give  *)
(* the orders their rows in the three child tables.  It differs from case  *)
(* 1 in what it reads back: only split 1 is counted, an INSERT whose       *)
(* answer fails is sent a second time, and the children of all the orders  *)
(* of the run go to the tables of its last split.  The cities of a brand   *)
(* are seeded by a pool of workers, but share no table.                    *)
(*                                                                         *)
(* One action is one statement sent to PostgreSQL, each its own            *)
(* transaction, or one turn of the loop that makes rows.  An order is its  *)
(* BIGSERIAL id; the items of an order are one row.                        *)
(***************************************************************************)
EXTENDS Naturals, Sequences, FiniteSets, Bags, FiniteSetsExt, SequencesExt

CONSTANTS Target,     \* --records-per-city
          Cap,        \* --split-row-cap
          Batch,      \* insertBatchSize
          MaxRuns,    \* bound: runs of the seeder
          MaxFaults   \* bound: statements that fail and processes killed

ASSUME CityAssumption ==
  /\ Target \in Nat /\ Cap \in Nat \ {0} /\ Batch \in Nat \ {0}
  /\ MaxRuns \in Nat /\ MaxFaults \in Nat

Child == <<"order_items", "order_status_events", "delivery_assignments">>

\* The database.
VARIABLES orders,    \* orders[n]: the ids in orders_<city>_<n>
          serial,    \* serial[n]: the last id its BIGSERIAL has given out
          splits,    \* splits[k]: how many splits child table k has
          children   \* children[k]: the bag of its rows

\* The run under way.
VARIABLES at,        \* where the run is
          split,     \* splitNum
          splitRows, \* splitRowCount
          left,      \* rows still to be made
          pending,   \* rows made and not inserted yet
          ids,       \* orderIDs, each with the split that gave it out
          step,      \* the table being created (0 is orders), or the child filled
          sending    \* positions in ids of the orders it still has to be given

\* History.
VARIABLES runs, faults,
          made,      \* the orders ever inserted, as <<split, id, run>>
          blind      \* what the runs have not been able to see

dbVars == <<orders, serial, splits, children, made>>
fillVars == <<split, splitRows, left, pending>>
childVars == <<ids, step, sending>>
history == <<runs, faults, blind>>
vars == <<dbVars, at, fillVars, childVars, history>>

Resting == {"new", "ok", "skipped"}
Busy == {"counting", "filling", "again", "creating", "sending"}
BlindSpots == {"misread", "doubled", "cut", "readback"}

Fault(seen) ==
  /\ faults < MaxFaults /\ faults' = faults + 1
  /\ blind' = blind \union seen
  /\ UNCHANGED runs

TotalRows == FoldSeq(LAMBDA rows, sum : Cardinality(rows) + sum, 0, orders)

-----------------------------------------------------------------------------
(* How much is there *)

StartRun ==
  /\ at \in Resting /\ runs < MaxRuns
  /\ at' = "counting" /\ split' = 1 /\ splitRows' = 0 /\ left' = 0
  /\ pending' = 0 /\ ids' = <<>> /\ step' = 0 /\ sending' = {}
  /\ runs' = runs + 1
  /\ UNCHANGED <<dbVars, faults, blind>>

CountIgnored ==   \* mutated CountSplit1: a city below target is filled from the start
  /\ at = "counting"
  /\ splitRows' = Cardinality(orders[1])
  /\ left' = IF splitRows' < Target THEN Target ELSE 0
  /\ at' = IF left' = 0 THEN "ok" ELSE "filling"
  /\ UNCHANGED <<dbVars, split, pending, childVars, history>>

CountAny ==   \* mutated CountSplit1: a city that has orders is left alone
  /\ at = "counting"
  /\ splitRows' = Cardinality(orders[1])
  /\ left' = IF splitRows' = 0 THEN Target ELSE 0
  /\ at' = IF left' = 0 THEN "ok" ELSE "filling"
  /\ UNCHANGED <<dbVars, split, pending, childVars, history>>

\* Only split 1 is counted.
CountSplit1 ==
  /\ at = "counting"
  /\ splitRows' = Cardinality(orders[1])
  /\ left' = IF splitRows' < Target THEN Target - splitRows' ELSE 0
  /\ at' = IF left' = 0 THEN "ok" ELSE "filling"
  /\ UNCHANGED <<dbVars, split, pending, childVars, history>>

\* Any error of the count stands for an empty split.
CountFails ==
  /\ at = "counting"
  /\ Fault({"misread"})
  /\ left' = Target
  /\ at' = IF Target = 0 THEN "ok" ELSE "filling"
  /\ UNCHANGED <<dbVars, split, splitRows, pending, childVars>>

-----------------------------------------------------------------------------
(* Orders: flushOrders and createNextSplitTables *)

SplitIsFull == splitRows >= Cap

FlushDue == pending > 0 /\ (pending >= Batch \/ left = 0 \/ SplitIsFull)

MakeRow ==
  /\ at = "filling" /\ left > 0 /\ ~SplitIsFull /\ ~FlushDue
  /\ pending' = pending + 1 /\ left' = left - 1
  /\ UNCHANGED <<dbVars, at, split, splitRows, childVars, history>>

NewIds == serial[split] + 1 .. serial[split] + pending

\* The ids are spent whether or not the statement commits.
SpendIds == serial' = [serial EXCEPT ![split] = @ + pending]
Insert ==
  /\ orders' = [orders EXCEPT ![split] = @ \union NewIds]
  /\ made' = made \union ({split} \X NewIds \X {runs})
  /\ SpendIds
RollBack == UNCHANGED <<orders, made>> /\ (UNCHANGED serial \/ SpendIds)

Returned(n) == [i \in 1..n |-> [of |-> split, id |-> serial[split] + i]]

Counted == splitRows' = splitRows + pending /\ pending' = 0

FlushForgets ==   \* mutated FlushOrders: orderIDs is replaced instead of appended to
  /\ at = "filling" /\ FlushDue
  /\ Insert
  /\ ids' = Returned(pending)
  /\ Counted
  /\ UNCHANGED <<splits, children, at, split, left, step, sending, history>>

\* INSERT ... RETURNING order_id
FlushOrders ==
  /\ at = "filling" /\ FlushDue
  /\ Insert
  /\ ids' = ids \o Returned(pending)
  /\ Counted
  /\ UNCHANGED <<splits, children, at, split, left, step, sending, history>>

\* The connection ends once some ids have been read: rows.Err() is never asked,
\* so the batch counts as inserted whether or not it was committed.
FlushCut ==
  /\ at = "filling" /\ FlushDue
  /\ Fault({"cut"})
  /\ Insert \/ (UNCHANGED <<orders, made>> /\ SpendIds)
  /\ \E n \in 1..pending : ids' = ids \o Returned(n)
  /\ Counted
  /\ UNCHANGED <<splits, children, at, split, left, step, sending>>

\* The query reports an error; it may have been committed all the same.
QueryFails ==
  /\ at = "filling" /\ FlushDue
  /\ \/ Fault({}) /\ RollBack
     \/ Fault({"doubled"}) /\ Insert
  /\ at' = "again"
  /\ UNCHANGED <<splits, children, fillVars, childVars>>

\* The same rows are inserted with Exec, and no id comes back.
ExecAgain ==
  /\ at = "again"
  /\ Insert
  /\ Counted
  /\ at' = "filling"
  /\ UNCHANGED <<splits, children, split, left, childVars, history>>

ExecFails ==
  /\ at = "again"
  /\ Fault({})
  /\ RollBack \/ Insert
  /\ at' = "skipped"
  /\ UNCHANGED <<splits, children, fillVars, childVars>>

NextSplitEarly ==   \* mutated NextSplit: a split is left one batch too soon
  /\ at = "filling" /\ left > 0 /\ splitRows + Batch > Cap /\ ~FlushDue
  /\ split' = split + 1 /\ splitRows' = 0
  /\ step' = 0
  /\ at' = "creating"
  /\ UNCHANGED <<dbVars, left, pending, ids, sending, history>>

\* Whatever the next split holds, the run believes that it is empty.
NextSplit ==
  /\ at = "filling" /\ left > 0 /\ SplitIsFull /\ ~FlushDue
  /\ split' = split + 1 /\ splitRows' = 0
  /\ step' = 0
  /\ at' = "creating"
  /\ UNCHANGED <<dbVars, left, pending, ids, sending, history>>

\* orders first, then the children, each with CREATE TABLE IF NOT EXISTS.
CreateTable ==
  /\ at = "creating"
  /\ IF step = 0
     THEN /\ orders' = IF split > Len(orders) THEN Append(orders, {}) ELSE orders
          /\ serial' = IF split > Len(orders) THEN Append(serial, 0) ELSE serial
          /\ UNCHANGED splits
     ELSE /\ splits' = [splits EXCEPT ![Child[step]] = Max({@, split})]
          /\ UNCHANGED <<orders, serial>>
  /\ step' = step + 1
  /\ at' = IF step = Len(Child) THEN "filling" ELSE "creating"
  /\ UNCHANGED <<children, made, fillVars, ids, sending, history>>

CreateFails ==
  /\ at = "creating"
  /\ Fault({})
  /\ at' = "skipped"
  /\ UNCHANGED <<dbVars, fillVars, childVars>>

-----------------------------------------------------------------------------
(* Children *)

AllFlushed == at = "filling" /\ left = 0 /\ pending = 0

BeginChildren(known) ==
  /\ ids' = known
  /\ at' = IF known = <<>> THEN "ok" ELSE "sending"
  /\ step' = 1 /\ sending' = DOMAIN known
  /\ UNCHANGED <<dbVars, fillVars>>

FinishOrders ==
  /\ AllFlushed /\ ids # <<>>
  /\ BeginChildren(ids)
  /\ UNCHANGED history

\* Without a single id, up to Target orders of the last split are read back,
\* those of earlier runs among them.
ReadBack ==
  /\ AllFlushed /\ ids = <<>>
  /\ \E known \in kSubset(Min({Target, Cardinality(orders[split])}), orders[split]) :
       BeginChildren(SetToSeq({[of |-> split, id |-> i] : i \in known}))
  /\ blind' = blind \union {"readback"}
  /\ UNCHANGED <<runs, faults>>

ReadBackFails ==
  /\ AllFlushed /\ ids = <<>>
  /\ Fault({})
  /\ BeginChildren(<<>>)

\* batchInsert sends its rows in chunks, in the order of the ids.
Chunk == {i \in sending : Cardinality({j \in sending : j < i}) < Batch}

\* The rows carry the id alone, into the child table of the last split; whose
\* id it is, and which run wrote the row, is history.
ChildOf(o) == [of |-> o.of, id |-> o.id, in |-> split, run |-> runs]

WriteChunk ==
  children' = [children EXCEPT ![Child[step]] =
    @ (+) SetToBag({ChildOf(ids[i]) : i \in Chunk})]

TableExists == split <= splits[Child[step]]

SendChunkTwice ==   \* mutated SendChunk: the next chunk begins at the last row sent
  /\ at = "sending" /\ sending # {} /\ TableExists
  /\ WriteChunk
  /\ sending' = IF sending # Chunk /\ Batch > 1
                THEN (sending \ Chunk) \union {Max(Chunk)} ELSE sending \ Chunk
  /\ UNCHANGED <<orders, serial, splits, made, at, fillVars, ids, step, history>>

SendChunk ==
  /\ at = "sending" /\ sending # {} /\ TableExists
  /\ WriteChunk
  /\ sending' = sending \ Chunk
  /\ UNCHANGED <<orders, serial, splits, made, at, fillVars, ids, step, history>>

\* The rest of this child table is given up with a warning, and the run goes on.
ChunkFails ==
  /\ at = "sending" /\ sending # {}
  /\ \/ ~TableExists /\ UNCHANGED <<children, history>>
     \/ TableExists /\ Fault({}) /\ (UNCHANGED children \/ WriteChunk)
  /\ sending' = {}
  /\ UNCHANGED <<orders, serial, splits, made, at, fillVars, ids, step>>

\* Nine in ten orders get a delivery assignment.
NextChild ==
  /\ at = "sending" /\ sending = {} /\ step < Len(Child)
  /\ step' = step + 1
  /\ IF step' = Len(Child)
     THEN sending' \in SUBSET DOMAIN ids
     ELSE sending' = DOMAIN ids
  /\ UNCHANGED <<dbVars, at, fillVars, ids, history>>

CityDone ==
  /\ at = "sending" /\ sending = {} /\ step = Len(Child)
  /\ at' = "ok"
  /\ UNCHANGED <<dbVars, fillVars, childVars, history>>

-----------------------------------------------------------------------------

Crash ==
  /\ at \in Busy
  /\ Fault({})
  /\ at' = "skipped"
  /\ UNCHANGED <<dbVars, fillVars, childVars>>

\* pg_schema has created split 1 of the four tables, empty.
Init ==
  /\ orders = << {} >> /\ serial = <<0>>
  /\ splits = [k \in Range(Child) |-> 1]
  /\ children = [k \in Range(Child) |-> EmptyBag]
  /\ at = "new" /\ split = 1 /\ splitRows = 0 /\ left = 0 /\ pending = 0
  /\ ids = <<>> /\ step = 0 /\ sending = {}
  /\ runs = 0 /\ faults = 0 /\ made = {} /\ blind = {}

Progress ==
  \/ CountSplit1 \/ MakeRow \/ FlushOrders \/ ExecAgain \/ NextSplit
  \/ CreateTable \/ FinishOrders \/ ReadBack \/ SendChunk \/ NextChild
  \/ CityDone

Failure ==
  \/ CountFails \/ FlushCut \/ QueryFails \/ ExecFails \/ CreateFails
  \/ ReadBackFails \/ ChunkFails

Next == StartRun \/ Progress \/ Failure \/ Crash

Spec == Init /\ [][Next]_vars

\* A run goes on until it ends, and the seeder is run again afterwards.
FairSpec == Spec /\ WF_vars(Progress \/ Failure) /\ WF_vars(StartRun)

-----------------------------------------------------------------------------
(* Properties *)

ChildRow == [of : DOMAIN orders, id : Nat \ {0}, in : DOMAIN orders, run : 1..runs]

TypeOK ==
  /\ \A n \in DOMAIN orders : orders[n] \subseteq 1..serial[n]
  /\ DOMAIN serial = DOMAIN orders
  /\ made \subseteq (DOMAIN orders) \X (Nat \ {0}) \X (1..runs)
  /\ \A k \in Range(Child) : /\ splits[k] \in DOMAIN orders
                             /\ DOMAIN children[k] \subseteq ChildRow
  /\ at \in Resting \union Busy
  /\ split \in 1..Len(orders) + 1 /\ splitRows \in Nat
  /\ left \in 0..Target /\ pending \in 0..Batch
  /\ ids \in Seq([of : DOMAIN orders, id : Nat \ {0}])
  /\ sending \subseteq DOMAIN ids /\ step \in 0..Len(Child) + 1
  /\ runs \in 0..MaxRuns /\ faults \in 0..MaxFaults /\ blind \subseteq BlindSpots

\* A rerun does not converge once there is a second split, since only split 1 is
\* counted; but each run adds no more than what split 1 lacks of the target,
\* unless a count failed, a batch was sent twice or its answer was cut short.
GrowthIsBounded ==
  LET first == Cardinality(orders[1]) IN
  blind \intersect {"misread", "doubled", "cut"} = {} =>
    /\ first <= Target
    /\ TotalRows <= first + runs * (Target - first)

\* A split is only left once it holds the cap, though the run believes each
\* later split to be empty when it comes to it, and a count that failed makes
\* it overfill split 1; only a batch cut short leaves a split below the cap.
SplitsFillInOrder ==
  "cut" \notin blind =>
    \A n \in DOMAIN orders : n < Len(orders) => Cardinality(orders[n]) >= Cap

\* Every child row is there for an order that the run that wrote the row had
\* itself inserted, in the split whose table it is in or an earlier one, and no
\* order gets two rows of one kind, from whichever runs and in whichever splits,
\* unless a batch's answer was cut short (its ids may be of orders rolled back)
\* or orders were read back for lack of ids (they may be of earlier runs).  The
\* row itself holds the order_id alone: that another split may have given out
\* the same one is not seen here.  (Checked with the types.)
ChildrenNameTheirOrder ==
  /\ TypeOK
  /\ \A k \in Range(Child) : \A c \in DOMAIN children[k] :
       /\ c.of <= c.in
       /\ "cut" \in blind \/ c.id \in orders[c.of]
       /\ blind \intersect {"cut", "readback"} # {} \/ <<c.of, c.id, c.run>> \in made
       /\ "readback" \in blind \/
            /\ children[k][c] = 1
            /\ \A d \in DOMAIN children[k] : d.of = c.of /\ d.id = c.id => d = c

\* In a run that saw no failure, every order it inserted, in whichever split,
\* has its items and its status event, though maybe in a later split's tables.
RunSeedsItsChildren ==
  at = "ok" /\ faults = 0 =>
    \A n \in DOMAIN orders, k \in 1..2 : \A i \in orders[n] :
      \E c \in DOMAIN children[Child[k]] : c.of = n /\ c.id = i

\* Run once more often than something fails, the seeder brings the city to its
\* target, whatever was left half done.
CityFills == <>(TotalRows >= Target)
=============================================================================
