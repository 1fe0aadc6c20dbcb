----------------------------- MODULE ResultFeed -----------------------------
(***************************************************************************)
(* What the enrichment service promises to the two flows that use it: a    *)
(* record handed over waits until it is settled; settling puts it, once,   *)
(* at the end of a log that readers follow by position, or loses it for    *)
(* good.  Queues, retries and the background worker are not visible here.  *)
(***************************************************************************)
EXTENDS Naturals, Sequences, SequencesExt

VARIABLES waiting,  \* the records handed over and not settled yet
          log,      \* the settled records that readers can page through
          lost      \* the settled records that never reach the log

feedVars == <<waiting, log, lost>>

Known == waiting \union Range(log) \union lost

FeedInit == waiting = {} /\ log = <<>> /\ lost = {}

\* A hand-over brings records the feed does not know yet.
Submit ==
  /\ waiting \subseteq waiting'
  /\ (waiting' \ waiting) \intersect Known = {}
  /\ UNCHANGED <<log, lost>>

\* Some waiting records are settled together: the log grows by records that
\* waited, each once, and the others that leave are lost.
Settle ==
  /\ waiting' \subseteq waiting
  /\ IsPrefix(log, log')
  /\ LET published == SubSeq(log', Len(log) + 1, Len(log'))
     IN  /\ IsInjective(published)
         /\ Range(published) \subseteq waiting \ waiting'
         /\ lost' = lost \union ((waiting \ waiting') \ Range(published))

\* The process behind the feed restarts: everything is forgotten.
Forget == waiting' = {} /\ log' = <<>> /\ lost' = {}

FeedNext == Submit \/ Settle \/ Forget

FeedSpec == FeedInit /\ [][FeedNext]_feedVars
=============================================================================
