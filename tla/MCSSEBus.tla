------------------------------ MODULE MCSSEBus ------------------------------
(***************************************************************************)
(* SSEBus for TLC: the connection handles and the publishers are           *)
(* interchangeable in safety runs.                                         *)
(***************************************************************************)
EXTENDS SSEBus, TLC

Symmetry == Permutations(Conns) \cup Permutations(Pushers)
=============================================================================
