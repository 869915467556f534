--------------------------- MODULE MCRefusalProxy ---------------------------
(* Requests of one model, so that each one's 503 is felt by the other.       *)
EXTENDS RefusalProxy

CONSTANT glm

MCModelOf == [r \in Requests |-> glm]
=============================================================================
