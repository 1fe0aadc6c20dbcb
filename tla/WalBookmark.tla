---------------------------- MODULE WalBookmark ----------------------------
(***************************************************************************)
(* The WAL enabler of case 2 (cmd/wal_enabler/main.go) and the two flows   *)
(* it stands between.  For each brand, in a goroutine of its own, it makes *)
(* sure of a replication slot and a publication, reads the current LSN and *)
(* records it in wal_positions.  The cold flow then copies what is in the  *)
(* tables, and the hot flow streams from the recorded LSN; both live       *)
(* outside the repository and are modelled from the plan (1.5, 2.3).       *)
(*                                                                         *)
(* One action is one statement.  The WAL of a brand is the number of       *)
(* changes committed so far, and an LSN is a number of changes.            *)
(***************************************************************************)
EXTENDS Naturals, FiniteSets, FiniteSetsExt

CONSTANTS Brands,     \* the source databases
          NoLsn,      \* a row of wal_positions that is not there
          MaxChanges, \* bound: changes committed to one brand
          MaxRuns,    \* bound: runs of the enabler
          MaxFaults   \* bound: statements that fail, programs killed

ASSUME WalAssumption ==
  /\ NoLsn \notin Nat
  /\ MaxChanges \in Nat /\ MaxRuns \in Nat /\ MaxFaults \in Nat

\* The source databases and AuxDB.
VARIABLES wal,        \* wal[b]: changes committed, pg_current_wal_lsn()
          slot,       \* slot[b]: the LSN the slot has been advanced to
          pub,        \* pub[b]: the LSN at which the publication was created
          bookmark    \* bookmark[b]: wal_positions.lsn

\* The enabler.
VARIABLES at,         \* at[b]: the statement the goroutine of b sends next
          lsn,        \* lsn[b]: the LSN it has read
          runs

\* The flows.
VARIABLES cold,       \* cold[b]: what the tables held when they were copied
          hot,        \* hot[b]: the position of the stream, NoLsn when stopped
          streamed    \* streamed[b]: the changes published to Redis

\* History.
VARIABLES faults,
          late        \* late[b]: b was recorded after its tables were copied

dbVars == <<wal, slot, pub, bookmark>>
enablerVars == <<at, lsn, runs>>
flowVars == <<cold, hot, streamed>>
vars == <<dbVars, enablerVars, flowVars, faults, late>>

Fault == faults < MaxFaults /\ faults' = faults + 1

Ended == {"off", "done", "failed"}

EnablerRuns == \E b \in Brands : at[b] \notin Ended

-----------------------------------------------------------------------------
(* The enabler *)

StartEnabler ==
  /\ ~EnablerRuns /\ runs < MaxRuns
  /\ at' = [b \in Brands |-> "connect"]
  /\ runs' = runs + 1
  /\ UNCHANGED <<dbVars, lsn, flowVars, faults, late>>

Step(b, from, to) == at[b] = from /\ at' = [at EXCEPT ![b] = to]

Connect(b) ==
  /\ Step(b, "connect", "slot")
  /\ UNCHANGED <<dbVars, lsn, runs, flowVars, faults, late>>

SlotAlways(b) ==   \* mutated EnsureSlot: an existing slot is made anew
  /\ Step(b, "slot", "publication")
  /\ slot' = [slot EXCEPT ![b] = wal[b]]
  /\ UNCHANGED <<wal, pub, bookmark, lsn, runs, flowVars, faults, late>>

\* A slot that exists keeps its position.
EnsureSlot(b) ==
  /\ Step(b, "slot", "publication")
  /\ slot' = [slot EXCEPT ![b] = IF @ = NoLsn THEN wal[b] ELSE @]
  /\ UNCHANGED <<wal, pub, bookmark, lsn, runs, flowVars, faults, late>>

PublicationLast(b) ==   \* mutated EnsurePublication: created once recorded
  /\ Step(b, "publication", "read")
  /\ pub' = [pub EXCEPT ![b] = IF @ = NoLsn /\ bookmark[b] # NoLsn THEN wal[b] ELSE @]
  /\ UNCHANGED <<wal, slot, bookmark, lsn, runs, flowVars, faults, late>>

\* CREATE PUBLICATION ... FOR ALL TABLES
EnsurePublication(b) ==
  /\ Step(b, "publication", "read")
  /\ pub' = [pub EXCEPT ![b] = IF @ = NoLsn THEN wal[b] ELSE @]
  /\ UNCHANGED <<wal, slot, bookmark, lsn, runs, flowVars, faults, late>>

ReadLsn(b) ==
  /\ Step(b, "read", "record")
  /\ lsn' = [lsn EXCEPT ![b] = wal[b]]
  /\ UNCHANGED <<dbVars, runs, flowVars, faults, late>>

\* INSERT ... ON CONFLICT (sub_brand) DO UPDATE SET lsn
Record(b) ==
  /\ bookmark' = [bookmark EXCEPT ![b] = lsn[b]]
  /\ late' = [late EXCEPT ![b] = @ \/ cold[b] # NoLsn]
  /\ UNCHANGED <<wal, slot, pub>>

RecordNever(b) ==   \* mutated RecordLsn: the upsert is left out
  /\ Step(b, "record", "done")
  /\ UNCHANGED <<dbVars, lsn, runs, flowVars, faults, late>>

RecordLsn(b) ==
  /\ Step(b, "record", "done")
  /\ Record(b)
  /\ UNCHANGED <<lsn, runs, flowVars, faults>>

\* A statement fails, or is carried out and its answer is lost: the goroutine
\* ends with an error, which main logs before it returns 0 like any other time.
StepFails(b) ==
  /\ at[b] \notin Ended /\ Fault
  /\ at' = [at EXCEPT ![b] = "failed"]
  /\ \/ UNCHANGED <<dbVars, late>>
     \/ /\ at[b] = "slot" /\ slot[b] = NoLsn
        /\ slot' = [slot EXCEPT ![b] = wal[b]]
        /\ UNCHANGED <<wal, pub, bookmark, late>>
     \/ /\ at[b] = "publication" /\ pub[b] = NoLsn
        /\ pub' = [pub EXCEPT ![b] = wal[b]]
        /\ UNCHANGED <<wal, slot, bookmark, late>>
     \/ at[b] = "record" /\ Record(b)
  /\ UNCHANGED <<lsn, runs, flowVars>>

-----------------------------------------------------------------------------
(* The source and the flows *)

\* The seeder and the hot pipeline write to the tables at any time.
Change(b) ==
  /\ wal[b] < MaxChanges
  /\ wal' = [wal EXCEPT ![b] = @ + 1]
  /\ UNCHANGED <<slot, pub, bookmark, enablerVars, flowVars, faults, late>>

\* The cold flow is started once the enabler has returned, whatever it logged.
CopyTables(b) ==
  /\ runs > 0 /\ ~EnablerRuns /\ cold[b] = NoLsn
  /\ cold' = [cold EXCEPT ![b] = wal[b]]
  /\ UNCHANGED <<dbVars, enablerVars, hot, streamed, faults, late>>

\* PostgreSQL streams from the bookmark, or from the slot if that is further.
ResumesAt(b) == Max({slot[b], bookmark[b]})

StartStream(b) ==
  /\ hot[b] = NoLsn /\ slot[b] # NoLsn /\ pub[b] # NoLsn /\ bookmark[b] # NoLsn
  /\ hot' = [hot EXCEPT ![b] = ResumesAt(b)]
  /\ UNCHANGED <<dbVars, enablerVars, cold, streamed, faults, late>>

\* XADD; the slot is advanced and the position saved later, one after the other.
StreamChange(b) ==
  /\ hot[b] # NoLsn /\ hot[b] < wal[b]
  /\ hot' = [hot EXCEPT ![b] = @ + 1]
  /\ streamed' = [streamed EXCEPT ![b] = @ \union {hot[b] + 1}]
  /\ UNCHANGED <<dbVars, enablerVars, cold, faults, late>>

AdvanceSlot(b) ==
  /\ hot[b] # NoLsn /\ slot[b] < hot[b]
  /\ slot' = [slot EXCEPT ![b] = hot[b]]
  /\ UNCHANGED <<wal, pub, bookmark, enablerVars, flowVars, faults, late>>

SavePosition(b) ==
  /\ hot[b] # NoLsn /\ slot[b] = hot[b] /\ bookmark[b] # hot[b]
  /\ bookmark' = [bookmark EXCEPT ![b] = hot[b]]
  /\ UNCHANGED <<wal, slot, pub, enablerVars, flowVars, faults, late>>

StreamStops(b) ==
  /\ hot[b] # NoLsn /\ Fault
  /\ hot' = [hot EXCEPT ![b] = NoLsn]
  /\ UNCHANGED <<dbVars, enablerVars, cold, streamed, late>>

-----------------------------------------------------------------------------

Init ==
  /\ wal = [b \in Brands |-> 0]
  /\ slot = [b \in Brands |-> NoLsn]
  /\ pub = [b \in Brands |-> NoLsn]
  /\ bookmark = [b \in Brands |-> NoLsn]
  /\ at = [b \in Brands |-> "off"]
  /\ lsn = [b \in Brands |-> NoLsn]
  /\ runs = 0
  /\ cold = [b \in Brands |-> NoLsn]
  /\ hot = [b \in Brands |-> NoLsn]
  /\ streamed = [b \in Brands |-> {}]
  /\ faults = 0
  /\ late = [b \in Brands |-> FALSE]

Enabling(b) ==
  Connect(b) \/ EnsureSlot(b) \/ EnsurePublication(b) \/ ReadLsn(b) \/ RecordLsn(b)

Streaming(b) == StartStream(b) \/ StreamChange(b) \/ AdvanceSlot(b) \/ SavePosition(b)

Next ==
  \/ StartEnabler
  \/ \E b \in Brands :
       \/ Enabling(b) \/ StepFails(b)
       \/ Change(b) \/ CopyTables(b)
       \/ Streaming(b) \/ StreamStops(b)

Spec == Init /\ [][Next]_vars

\* Goroutines run on, the flows are started, and the enabler is run again.
FairSpec ==
  /\ Spec
  /\ WF_vars(StartEnabler)
  /\ \A b \in Brands : /\ WF_vars(Enabling(b) \/ StepFails(b))
                       /\ WF_vars(CopyTables(b))
                       /\ WF_vars(Streaming(b))

-----------------------------------------------------------------------------
(* Properties *)

Past(b) == 0..wal[b] \union {NoLsn}

TypeOK ==
  /\ wal \in [Brands -> 0..MaxChanges]
  /\ {slot, pub, bookmark, lsn, cold, hot} \subseteq [Brands -> 0..MaxChanges \union {NoLsn}]
  /\ \A b \in Brands :
       {slot[b], pub[b], bookmark[b], lsn[b], cold[b], hot[b]} \subseteq Past(b)
  /\ at \in [Brands -> Ended \union {"connect", "slot", "publication", "read", "record"}]
  /\ streamed \in [Brands -> SUBSET (1..MaxChanges)]
  /\ runs \in 0..MaxRuns /\ faults \in 0..MaxFaults
  /\ late \in [Brands -> BOOLEAN]

\* A recorded bookmark can always be streamed from: slot and publication stand,
\* and the publication was created before anything above the bookmark, so
\* pgoutput never decodes a change older than the publication.
BookmarkIsStreamable ==
  \A b \in Brands : bookmark[b] # NoLsn =>
    /\ slot[b] # NoLsn /\ pub[b] # NoLsn
    /\ pub[b] <= bookmark[b]

Reachable(b, change) ==
  \/ change <= cold[b]
  \/ change \in streamed[b]
  \/ change > ResumesAt(b)
  \/ hot[b] # NoLsn /\ change > hot[b]

\* The cold flow and the stream meet: no change falls between the copy of the
\* tables and the position the stream resumes from, through every crash of the
\* stream, as long as the enabler records nothing once the tables are copied.
ColdAndHotMeet ==
  \A b \in Brands : ~late[b] /\ cold[b] # NoLsn /\ bookmark[b] # NoLsn =>
    \A change \in 1..wal[b] : Reachable(b, change)

\* A brand whose enabler failed part-way is taken up where it is by the next run:
\* with one run more than there are failures, every brand gets to stream.
EveryBrandStreams ==
  \A b \in Brands : <>(bookmark[b] # NoLsn /\ slot[b] # NoLsn /\ pub[b] # NoLsn)
=============================================================================
