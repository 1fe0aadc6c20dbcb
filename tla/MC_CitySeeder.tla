---------------------------- MODULE MC_CitySeeder ----------------------------
(* A city of four orders in splits of about two, inserted three at a time:  *)
(* the first split ends at three rows and the second takes the fourth, and  *)
(* the rows of a child come in two chunks.  Two faults can strike one batch *)
(* twice, and the seeder is run three times.                                *)
EXTENDS CitySeeder
=============================================================================
