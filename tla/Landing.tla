------------------------------- MODULE Landing -------------------------------
(***************************************************************************)
(* The landing directories of case 6.  The movement seeder appends numbered *)
(* part files to one flat directory at each run; the snapshot seeder writes *)
(* the parts of a date from part-00000 on.  A flow lists a directory, reads *)
(* the parts in order and keeps the part and row it has come to in AuxDB;   *)
(* it is not in the repository and is modelled from the plan (1.5, 3.1,     *)
(* 3.3, 5.2).                                                               *)
(*                                                                          *)
(* A file is a sequence of rows, and a row is the run that wrote it and its *)
(* id, which both generators count from 1.  An encoder puts several rows    *)
(* into a block, and a kill leaves only whole blocks that can be read; here *)
(* rows reach the file one by one, so that a part may be cut off or read    *)
(* after any of them, whatever the size of a block.  Several runs may be    *)
(* under way at once.  The files then written by two of them hold something *)
(* or other: "overlap" records it, and the properties about their contents  *)
(* except it.                                                               *)
(***************************************************************************)
EXTENDS Naturals, Sequences, FiniteSets, FiniteSetsExt, SequencesExt

CONSTANTS RowsPerPart,  \* --rows-per-part
          Totals,       \* values of --new and --total
          MaxRuns,      \* bound: runs of the seeder
          MaxKills,     \* bound: runs killed or failed
          MaxCrashes    \* bound: crashes of the flow

ASSUME LandingAssumption ==
  /\ RowsPerPart \in Nat \ {0} /\ Totals \subseteq Nat
  /\ MaxRuns \in Nat /\ MaxKills \in Nat /\ MaxCrashes \in Nat

Run == 1..MaxRuns

\* The directory and the runs of its seeder.
VARIABLES kind,       \* "movement" or "snapshot"
          parts,      \* parts[n]: the rows of part n, for the parts there are
          writer,     \* writer[r]: what run r is doing, its first part, its
                      \* rows and how many of them it has written
          kills, overlap

\* The flow, and fc_movement_progress or fc_snapshot_progress.
VARIABLES scan,       \* whether it is on, the files listed, its place
          saved,      \* last_part and last_row
          delivered,  \* rows written, dropped or put into the backlog
          crashes

seederVars == <<kind, parts, writer, kills, overlap>>
flowVars == <<scan, saved, delivered, crashes>>
vars == <<seederVars, flowVars>>

-----------------------------------------------------------------------------
(* Seeders *)

Busy(r) == writer[r].at \in {"between", "open"}

Begin(r, first) ==
  /\ writer[r].at = "new"
  /\ \A s \in Run : s < r => writer[s].at # "new"
  /\ \E total \in Totals :
       writer' = [writer EXCEPT ![r] =
         [at |-> "between", first |-> first, total |-> total, made |-> 0]]
  /\ overlap' = (overlap \/ \E s \in Run : Busy(s))
  /\ UNCHANGED <<kind, parts, kills, flowVars>>

LastPart ==   \* mutated NextPartSeq: the highest number instead of one past it
  IF DOMAIN parts = {} THEN 0 ELSE Max(DOMAIN parts)

PartAfterNext ==   \* mutated NextPartSeq: a number is left out
  IF DOMAIN parts = {} THEN 0 ELSE Max(DOMAIN parts) + 2

\* One past the highest number there is.
NextPartSeq == IF DOMAIN parts = {} THEN 0 ELSE Max(DOMAIN parts) + 1

StartMovement(r) == kind = "movement" /\ Begin(r, NextPartSeq)

StartSnapshot(r) == kind = "snapshot" /\ Begin(r, 0)

\* The part that the next row of a run belongs into.
PartOf(r) == writer[r].first + writer[r].made \div RowsPerPart

\* O_CREATE and O_TRUNC: what the part held is gone.  The file is empty until the
\* encoder has written its header; both, and a part of no rows, count as one, and
\* a scan that finds no header and fails is one that crashes.
OpenPart(r) ==
  /\ writer[r].at = "between" /\ writer[r].made < writer[r].total
  /\ parts' = [n \in DOMAIN parts \union {PartOf(r)} |->
                 IF n = PartOf(r) THEN <<>> ELSE parts[n]]
  /\ writer' = [writer EXCEPT ![r].at = "open"]
  /\ UNCHANGED <<kind, kills, overlap, flowVars>>

ClosesLate(w) ==   \* mutated IsFull: a part is closed one row late
  w.made = w.total \/ w.made % RowsPerPart = 1

IsFull(w) == w.made = w.total \/ w.made % RowsPerPart = 0

\* A row reaches the file, and the part is closed after its last one.
WriteRow(r) ==
  /\ writer[r].at = "open"
  /\ LET w == [writer[r] EXCEPT !.made = @ + 1] IN
       /\ parts' = [parts EXCEPT ![PartOf(r)] = Append(@, [run |-> r, id |-> w.made])]
       /\ writer' = [writer EXCEPT ![r] =
                       IF IsFull(w) THEN [w EXCEPT !.at = "between"] ELSE w]
  /\ UNCHANGED <<kind, kills, overlap, flowVars>>

EndRun(r) ==
  /\ writer[r].at = "between" /\ writer[r].made = writer[r].total
  /\ writer' = [writer EXCEPT ![r].at = "done"]
  /\ UNCHANGED <<kind, parts, kills, overlap, flowVars>>

\* log.Fatalf or a kill: the part stays as far as it was written.
Kill(r) ==
  /\ Busy(r) /\ kills < MaxKills
  /\ writer' = [writer EXCEPT ![r].at = "killed"]
  /\ kills' = kills + 1
  /\ UNCHANGED <<kind, parts, overlap, flowVars>>

-----------------------------------------------------------------------------
(* The flow *)

\* A set of part numbers in ascending order.
Ascending(S) ==
  CHOOSE f \in [1..Cardinality(S) -> S] : \A i, j \in DOMAIN f : i < j => f[i] < f[j]

\* GenerateScan: the parts in the order of their numbers; a saved part is an
\* index into this list.
StartScan ==
  /\ ~scan.on
  /\ scan' = [on |-> TRUE, files |-> Ascending(DOMAIN parts),
              part |-> saved.part, row |-> saved.row]
  /\ UNCHANGED <<seederVars, saved, delivered, crashes>>

InFile == scan.part < Len(scan.files)
File == scan.files[scan.part + 1]
AtEndOfFile == scan.row >= Len(parts[File])

DeliverRow ==
  /\ scan.on /\ InFile /\ ~AtEndOfFile
  /\ delivered' = delivered \union {parts[File][scan.row + 1]}
  /\ scan' = [scan EXCEPT !.row = @ + 1]
  /\ UNCHANGED <<seederVars, saved, crashes>>

NextFile ==
  /\ scan.on /\ scan.part + 1 < Len(scan.files) /\ AtEndOfFile
  /\ scan' = [scan EXCEPT !.part = @ + 1, !.row = 0]
  /\ UNCHANGED <<seederVars, saved, delivered, crashes>>

Place == [part |-> scan.part, row |-> scan.row]

SaveProgress ==
  /\ scan.on /\ scan.row > 0 /\ saved # Place
  /\ saved' = Place
  /\ UNCHANGED <<seederVars, scan, delivered, crashes>>

EndScan ==
  /\ scan.on
  /\ InFile => scan.part + 1 = Len(scan.files) /\ AtEndOfFile
  /\ scan.row > 0 => saved = Place
  /\ scan' = [scan EXCEPT !.on = FALSE]
  /\ UNCHANGED <<seederVars, saved, delivered, crashes>>

CrashScan ==
  /\ scan.on /\ crashes < MaxCrashes
  /\ scan' = [scan EXCEPT !.on = FALSE]
  /\ crashes' = crashes + 1
  /\ UNCHANGED <<seederVars, saved, delivered>>

-----------------------------------------------------------------------------

Init ==
  /\ kind \in {"movement", "snapshot"}
  /\ parts = << >>
  /\ writer = [r \in Run |-> [at |-> "new", first |-> 0, total |-> 0, made |-> 0]]
  /\ kills = 0 /\ overlap = FALSE
  /\ scan = [on |-> FALSE, files |-> << >>, part |-> 0, row |-> 0]
  /\ saved = [part |-> 0, row |-> 0]
  /\ delivered = {} /\ crashes = 0

Write(r) == OpenPart(r) \/ WriteRow(r) \/ EndRun(r)

Scan == DeliverRow \/ NextFile \/ SaveProgress \/ EndScan

Next ==
  \/ \E r \in Run : StartMovement(r) \/ StartSnapshot(r) \/ Write(r) \/ Kill(r)
  \/ StartScan \/ Scan \/ CrashScan

Spec == Init /\ [][Next]_vars

\* A run goes on until it ends, and so does a scan, which is made again and again.
FairSpec ==
  /\ Spec
  /\ \A r \in Run : WF_vars(Write(r))
  /\ WF_vars(Scan) /\ WF_vars(StartScan)

-----------------------------------------------------------------------------
(* Properties *)

TypeOK ==
  /\ kind \in {"movement", "snapshot"}
  /\ \A n \in DOMAIN parts : /\ Len(parts[n]) <= RowsPerPart \/ overlap
                             /\ Range(parts[n]) \subseteq [run : Run, id : Nat \ {0}]
  /\ \A r \in Run : /\ writer[r].at \in {"new", "between", "open", "done", "killed"}
                    /\ writer[r].made <= writer[r].total
                    /\ writer[r].at = "open" => PartOf(r) \in DOMAIN parts
  /\ Range(scan.files) \subseteq DOMAIN parts
  /\ delivered \subseteq [run : Run, id : Nat \ {0}]
  /\ kills \in 0..MaxKills /\ crashes \in 0..MaxCrashes /\ overlap \in BOOLEAN

\* No number is left out, whichever runs are killed or run at once, so that an
\* index into the sorted list of the parts is a part's number, and stays it.
\* (Checked with the types.)
PartsAreContiguous ==
  /\ TypeOK
  /\ DOMAIN parts = 0..Cardinality(DOMAIN parts) - 1

\* "Existing part files are never touched": as long as no two runs overlap, a part
\* of the movement directory only grows, and only while the run that created it has
\* it open; the torn last part of a killed run stays as it is.
PartsAreKept ==
  [][kind = "movement" /\ ~overlap' =>
       \A n \in DOMAIN parts :
         /\ IsPrefix(parts[n], parts'[n])
         /\ parts'[n] # parts[n] =>
              \E r \in Run : writer[r].at = "open" /\ PartOf(r) = n]_vars

\* The parts of a run, one after the other.
Written(r) ==
  LET count == (writer[r].total + RowsPerPart - 1) \div RowsPerPart
      mine == DOMAIN parts \intersect writer[r].first..writer[r].first + count - 1
      files == Ascending(mine)
  IN  FlattenSeq([k \in DOMAIN files |-> parts[files[k]]])

\* A run that ends has put each of its rows, once and in order, into parts that
\* nobody else writes to; in a snapshot that holds until the next run.
RunIsWhole ==
  \A r \in Run :
    /\ writer[r].at = "done" /\ ~overlap
    /\ kind = "snapshot" => \A s \in Run : s > r => writer[s].at = "new"
    => Written(r) = [i \in 1..writer[r].total |-> [run |-> r, id |-> i]]

\* Scanned again and again, every movement is delivered, though a scan lists a
\* part that is still being written, and may crash after it has delivered rows
\* and before it saves its place: nothing is passed over for good.
MovementsArrive ==
  <>[](kind = "movement" /\ ~overlap =>
          \A n \in DOMAIN parts : Range(parts[n]) \subseteq delivered)

\* "unique (movement_id) -- already globally unique": no two movements of the
\* directory have one id, so that an upsert by it replaces no other movement.
MovementIdsAreUnique ==
  kind = "movement" =>
    \A m, n \in DOMAIN parts : \A i \in DOMAIN parts[m], j \in DOMAIN parts[n] :
      parts[m][i].id = parts[n][j].id => m = n /\ i = j
=============================================================================
