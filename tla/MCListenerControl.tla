-------------------------- MODULE MCListenerControl --------------------------
(* ListenerControl for TLC. Threads, groups and runs are interchangeable.     *)
EXTENDS ListenerControl, TLC

ListenerSymmetry ==
  Permutations(Threads) \cup Permutations(Groups) \cup Permutations(Runs)
=============================================================================
