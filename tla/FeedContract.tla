---------------------------- MODULE FeedContract ----------------------------
(***************************************************************************)
(* What a browser tab may rely on from the event bus, across any number of *)
(* reconnects: within one life of the server it handles an event at most   *)
(* once, and the events of one service thread in the order in which the    *)
(* thread published them (sse_bus.py and sse.js; crawl_status "running"    *)
(* before "idle"). Events may be missed, and those of different threads    *)
(* may overtake each other.                                                *)
(***************************************************************************)
EXTENDS Naturals, Sequences

CONSTANTS
  Threads,    \* service threads that publish
  Tabs        \* browser tabs

VARIABLES
  log,        \* the publishers of the events, in the order of their ids
  handled     \* per tab, the ids it has handled

vars == <<log, handled>>

Init ==
  /\ log = <<>>
  /\ handled = [c \in Tabs |-> {}]

Publish(t) ==
  /\ log' = Append(log, t)
  /\ UNCHANGED handled

\* Only what comes after all that this tab has had from the same thread.
Handle(c) ==
  /\ \E i \in 1..Len(log) :
       /\ \A j \in handled[c] : log[j] = log[i] => j < i
       /\ handled' = [handled EXCEPT ![c] = @ \cup {i}]
  /\ UNCHANGED log

\* The bus and its ids live in memory.
Restart ==
  /\ log' = <<>>
  /\ handled' = [c \in Tabs |-> {}]

Next ==
  \/ \E t \in Threads : Publish(t)
  \/ \E c \in Tabs : Handle(c)
  \/ Restart

Spec == Init /\ [][Next]_vars
=============================================================================
