--------------------------- MODULE ClientContract ---------------------------
(***************************************************************************)
(* What tg_lock is for: the one Telegram client has one user at a time,    *)
(* "the lock must serialize all access" (web/crawl_service.py:176-181,     *)
(* web/api/_helpers.py _tg_client_guard). Who waits, for how long and in   *)
(* which order is left open, and so is how a use ends.                     *)
(***************************************************************************)
CONSTANT Parties   \* crawls, requests and starts of the listener

VARIABLE users     \* those who use the client

Init == users = {}

Begin(p) ==
  /\ users = {}
  /\ users' = {p}

End(p) ==
  /\ users = {p}
  /\ users' = {}

Next == \E p \in Parties : Begin(p) \/ End(p)

Spec == Init /\ [][Next]_users
=============================================================================
