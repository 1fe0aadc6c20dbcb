----------------------------- MODULE MC_Landing -----------------------------
(* Two runs of one or three rows  , in parts of two: a part that is full and *)
(* one that is not, a run killed in either of them, and a crash of the flow. *)
EXTENDS Landing
=============================================================================
