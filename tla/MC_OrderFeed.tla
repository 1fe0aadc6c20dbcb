---------------------------- MODULE MC_OrderFeed ----------------------------
(* A pool of three events that a restart makes six, or the other way round;  *)
(* pages of 1 or, for a limit above the largest, of 2; no faults, a fault at *)
(* each third event, or at each event (60 is rounded up to all).             *)
EXTENDS OrderFeed

SomeTotals == {3, 6}
SomeRates == {0, 33, 60}
SomeLimits == {1, 4}
=============================================================================
