--------------------------- MODULE MCRequestPipeline ---------------------------
(* All messages have one author and channel.                                *)
EXTENDS RequestPipeline

MCKey == [m \in Messages |-> CHOOSE k \in Keys : TRUE]
==============================================================================
