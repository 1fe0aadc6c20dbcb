------------------------------- MODULE MC_Setup -------------------------------
(* All seven cases, on two zones of one and two states, the three ways in    *)
(* which a company shards, two brands, one city and two rows of each seed.   *)
EXTENDS Setup

SomeZones == << [name |-> "north", states |-> <<"up", "bihar">>],
                [name |-> "central", states |-> <<"mp">>] >>

SomeCompanies == << [name |-> "vodafone", sharding |-> "zone_state"],
                    [name |-> "idea", sharding |-> "zone_only"],
                    [name |-> "tata_docomo", sharding |-> "state_only"] >>

SomeBrands == <<"zomato_food", "blinkit">>
SomeCities == <<"delhi">>
AllCases == 1..7
=============================================================================
