------------------------- MODULE MC_EnrichService -------------------------
(* The enrich service on four POSTs of up to two records, with restarts:   *)
(* enough for a batch to be requeued behind another one more than once.    *)
EXTENDS EnrichService
=============================================================================
