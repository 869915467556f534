--------------------------- MODULE DigestContract ---------------------------
(***************************************************************************)
(* What the pages may rely on of the digests, whoever generates them: one  *)
(* generation at a time, and each leaves at most one digest, whose window  *)
(* ends at a time at which that very generation was under way (digest.py   *)
(* and the lock of web/api/routes_digest.py). A generation may fail or die *)
(* with the process; digests are never lost.                               *)
(***************************************************************************)
EXTENDS Integers, Sequences

CONSTANTS
  Generators, \* who generates digests
  Beginning,  \* the time of the first start
  NotAtIt     \* no time

VARIABLES
  clock,
  ends,       \* the ends of the digests, in the order of creation
  since       \* since when each generator has been at it, or NotAtIt

vars == <<clock, ends, since>>

Init ==
  /\ clock = Beginning
  /\ ends = <<>>
  /\ since = [g \in Generators |-> NotAtIt]

Begin(g) ==
  /\ \A h \in Generators : since[h] = NotAtIt
  /\ since' = [since EXCEPT ![g] = clock]
  /\ UNCHANGED <<clock, ends>>

Publish(g) ==
  /\ since[g] # NotAtIt
  /\ \E t \in since[g]..clock : ends' = Append(ends, t)
  /\ since' = [since EXCEPT ![g] = NotAtIt]
  /\ UNCHANGED clock

GiveUp(g) ==
  /\ since[g] # NotAtIt
  /\ since' = [since EXCEPT ![g] = NotAtIt]
  /\ UNCHANGED <<clock, ends>>

Restart ==
  /\ since' = [g \in Generators |-> NotAtIt]
  /\ UNCHANGED <<clock, ends>>

Tick ==
  /\ clock' = clock + 1
  /\ UNCHANGED <<ends, since>>

Next ==
  \/ \E g \in Generators : Begin(g) \/ Publish(g) \/ GiveUp(g)
  \/ Restart
  \/ Tick

Spec == Init /\ [][Next]_vars
=============================================================================
