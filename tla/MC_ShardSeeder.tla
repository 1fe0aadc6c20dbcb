--------------------------- MODULE MC_ShardSeeder ---------------------------
(* A shard of five customers in splits of about three, inserted two at a   *)
(* time: two INSERTs of a full batch pass the cap, the last one is short.  *)
(* Of two runs of the seeder one may fail or be killed part-way.           *)
EXTENDS ShardSeeder
=============================================================================
