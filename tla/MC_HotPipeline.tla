--------------------------- MODULE MC_HotPipeline ---------------------------
(* Two workers, two cities and two ticks of two orders each: a split is    *)
(* full after one tick, so the second one creates the next split.          *)
EXTENDS HotPipeline
=============================================================================
