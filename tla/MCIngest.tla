------------------------------ MODULE MCIngest ------------------------------
(* The ways in which a chat can be named: a group by the id of its entity,  *)
(* by the id that events carry, by its username; a chat whose ids agree.    *)
EXTENDS Ingest

Named(c, e) == [config |-> c, entity |-> "bare", event |-> e]

MCAllCases == {Named("bare", "marked"), Named("marked", "marked"),
               Named("username", "marked"), Named("bare", "bare")}
=============================================================================
