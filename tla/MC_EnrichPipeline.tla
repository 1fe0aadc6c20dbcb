------------------------- MODULE MC_EnrichPipeline -------------------------
(* The enrich service between its two flows: two messages, three POSTs, so *)
(* that both messages can be sent again, pages of one and two results, and *)
(* one crash of a flow.                                                    *)
EXTENDS EnrichPipeline
=============================================================================
