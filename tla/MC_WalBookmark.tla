---------------------------- MODULE MC_WalBookmark ----------------------------
(* One brand: three changes around the copy of the tables, three runs of the  *)
(* enabler, and two faults, which can stop the enabler between any two        *)
(* statements and the stream between publishing and saving its position.      *)
EXTENDS WalBookmark
=============================================================================
