------------------------------- MODULE SSEBus -------------------------------
(***************************************************************************)
(* The event bus of tgwatcher/web/sse_bus.py, the streaming endpoint of    *)
(* web/api/routes_sse.py that drains it, and the browser client of         *)
(* web/static/app/sse.js that reconnects with Last-Event-ID.               *)
(*                                                                         *)
(* push() is two-phase: the id is assigned and the listeners are           *)
(* snapshotted under the lock, the queues are filled after it is released. *)
(* Every service thread (crawl, listener, LLM, webhook) is a publisher.    *)
(* An event is represented by its id; its type and data play no part.      *)
(* The listener list is a set and a push serves its snapshot in any order. *)
(***************************************************************************)
EXTENDS Naturals, Sequences, FiniteSets

CONSTANTS
  Pushers,      \* threads that call SSEBus.push
  Clients,      \* browser tabs running sse.js
  Conns,        \* connection handles: one queue.Queue and one generator each
  MaxEvents,    \* MAX_SSE_EVENTS, the replay buffer
  QueueSize,    \* MAX_LISTENER_QUEUE, the bound of one listener's queue
  MaxId,        \* bound on the ids published in one server life
  MaxRestarts,  \* bound on server restarts
  None

ASSUME SSEAssumption ==
  /\ MaxEvents \in Nat \ {0}
  /\ QueueSize \in Nat \ {0}
  /\ MaxEvents <= QueueSize      \* 200 and 1024: a replay always fits
  /\ MaxId \in Nat
  /\ MaxRestarts \in Nat
  /\ None \notin Conns

VARIABLES
  eventId,    \* SSEBus._event_id
  events,     \* SSEBus._events, the ids in the replay buffer, oldest first
  listeners,  \* SSEBus._listeners
  queue,      \* the queue.Queue of each connection
  push,       \* each publisher's local state: its id, the queues still to fill
  conn,       \* the connection each client reads from, or None
  lastId,     \* _lastSSEId of each client
  restarts

bus     == <<eventId, events, listeners, queue, push>>
clients == <<conn, lastId>>

\* History: no action reads it, the properties do.
VARIABLES
  start,      \* per connection: ids above it are this connection's business
  offered,    \* per connection: ids replayed, put or dropped since it began
  received,   \* per client: ids handed to its handlers
  excused,    \* per client: ids lost for one of the reasons listed below
  publisher   \* publisher[i] pushed the event with id i

history == <<start, offered, received, excused, publisher>>
vars == <<eventId, events, listeners, queue, push, conn, lastId, restarts,
          start, offered, received, excused, publisher>>

IdlePush == [id |-> 0, todo |-> {}]

Init ==
  /\ eventId = 0
  /\ events = <<>>
  /\ listeners = {}
  /\ queue = [k \in Conns |-> <<>>]
  /\ push = [p \in Pushers |-> IdlePush]
  /\ conn = [c \in Clients |-> None]
  /\ lastId = [c \in Clients |-> 0]
  /\ restarts = 0
  /\ start = [k \in Conns |-> 0]
  /\ offered = [k \in Conns |-> {}]
  /\ received = [c \in Clients |-> {}]
  /\ excused = [c \in Clients |-> {}]
  /\ publisher = <<>>

-----------------------------------------------------------------------------
\* Faults a change to push() could bring: the buffer is never cut, or at the
\* wrong end.
TrimNothing(s) == s
TrimNewest(s) == IF Len(s) > MaxEvents THEN SubSeq(s, 1, MaxEvents) ELSE s

\* del self._events[: len(self._events) - self._max_events]
Trim(s) == IF Len(s) > MaxEvents
           THEN SubSeq(s, Len(s) - MaxEvents + 1, Len(s))
           ELSE s

\* The part of push() under the lock: a fresh id, the buffer, the snapshot.
PushBegin(p) ==
  /\ push[p].todo = {}
  /\ eventId < MaxId
  /\ eventId' = eventId + 1
  /\ events' = Trim(Append(events, eventId + 1))
  /\ push' = [push EXCEPT ![p] = [id |-> eventId + 1, todo |-> listeners]]
  /\ publisher' = Append(publisher, p)
  /\ UNCHANGED <<listeners, queue, clients, restarts,
                 start, offered, received, excused>>

\* Fault: the put is attempted again although it was already made.
PushPutAgain(p, k) ==
  /\ k \in push[p].todo
  /\ Len(queue[k]) < QueueSize
  /\ queue' = [queue EXCEPT ![k] = Append(@, push[p].id)]
  /\ offered' = [offered EXCEPT ![k] = @ \cup {push[p].id}]
  /\ UNCHANGED <<eventId, events, listeners, push, clients, restarts,
                 start, received, excused, publisher>>

\* Fault: a full queue ends the loop, so the listeners after it get nothing.
PushPutBreak(p, k) ==
  /\ k \in push[p].todo
  /\ offered' = [offered EXCEPT ![k] = @ \cup {push[p].id}]
  /\ \/ /\ Len(queue[k]) < QueueSize
        /\ queue' = [queue EXCEPT ![k] = Append(@, push[p].id)]
        /\ push' = [push EXCEPT ![p].todo = @ \ {k}]
        /\ UNCHANGED excused
     \/ /\ Len(queue[k]) >= QueueSize
        /\ push' = [push EXCEPT ![p].todo = {}]
        /\ UNCHANGED queue
        /\ excused' = [c \in Clients |->
             IF conn[c] = k THEN excused[c] \cup {push[p].id} ELSE excused[c]]
  /\ UNCHANGED <<eventId, events, listeners, clients, restarts, start, received,
                 publisher>>

\* One round of push()'s loop outside the lock: put_nowait, or drop when full.
PushPut(p, k) ==
  /\ k \in push[p].todo
  /\ push' = [push EXCEPT ![p].todo = @ \ {k}]
  /\ offered' = [offered EXCEPT ![k] = @ \cup {push[p].id}]
  /\ \/ /\ Len(queue[k]) < QueueSize
        /\ queue' = [queue EXCEPT ![k] = Append(@, push[p].id)]
        /\ UNCHANGED excused
     \/ /\ Len(queue[k]) >= QueueSize
        /\ UNCHANGED queue
        /\ excused' = [c \in Clients |->
             IF conn[c] = k THEN excused[c] \cup {push[p].id} ELSE excused[c]]
  /\ UNCHANGED <<eventId, events, listeners, clients, restarts, start, received,
                 publisher>>

\* The adjusted last_id that register_listener replays from.
ReplayFrom(last) ==
  IF last = 0 THEN eventId
  ELSE IF events # <<>> /\ last < events[1] THEN events[1] - 1
  ELSE last

\* Faults: off by one at the id the client has seen; newest first.
ReplayAfterNext(last) ==
  LET keep == {i \in 1..Len(events) : events[i] > last + 1}
  IN  IF keep = {} THEN <<>>
      ELSE SubSeq(events,
                  CHOOSE i \in keep : \A j \in keep : i <= j,
                  Len(events))
ReplayNewestFirst(last) ==
  LET keep == {i \in 1..Len(events) : events[i] > last}
  IN  [i \in 1..Cardinality(keep) |-> events[Len(events) - i + 1]]

\* The buffered events with an id above last, in buffer order.
Replay(last) ==
  LET keep == {i \in 1..Len(events) : events[i] > last}
  IN  IF keep = {} THEN <<>>
      ELSE SubSeq(events,
                  CHOOSE i \in keep : \A j \in keep : i <= j,
                  Len(events))

\* A queue object is new: no listener, and in no publisher's snapshot.
Unused(k) == /\ k \notin listeners
             /\ \A c \in Clients : conn[c] # k
             /\ \A p \in Pushers : k \notin push[p].todo

\* What a connecting client can no longer get: all of the past when it is
\* fresh, otherwise what it missed and the buffer has lost.
OutOfReach(c) ==
  IF lastId[c] = 0 THEN 1..eventId
  ELSE lastId[c] + 1 .. eventId - Len(events)

\* connectSSE -> sse_stream -> register_listener: one critical section adds
\* the queue to the listeners and preloads it with the replay.
Connect(c, k) ==
  LET from == ReplayFrom(lastId[c]) IN
  /\ conn[c] = None
  /\ Unused(k)
  /\ listeners' = listeners \cup {k}
  /\ queue' = [queue EXCEPT ![k] = Replay(from)]
  /\ conn' = [conn EXCEPT ![c] = k]
  /\ start' = [start EXCEPT ![k] = IF from < eventId THEN from ELSE eventId]
  /\ offered' = [offered EXCEPT ![k] =
                   {Replay(from)[i] : i \in 1..Len(Replay(from))}]
  /\ excused' = [excused EXCEPT ![c] = @ \cup OutOfReach(c)]
  /\ UNCHANGED <<eventId, events, push, lastId, restarts, received, publisher>>

\* generate() gets the next event and the client's pump() handles it.
Receive(c) ==
  LET k == conn[c] IN
  /\ k # None
  /\ queue[k] # <<>>
  /\ queue' = [queue EXCEPT ![k] = Tail(@)]
  /\ lastId' = [lastId EXCEPT ![c] = IF Head(queue[k]) > @ THEN Head(queue[k]) ELSE @]
  /\ received' = [received EXCEPT ![c] = @ \cup {Head(queue[k])}]
  /\ UNCHANGED <<eventId, events, listeners, push, conn, restarts,
                 start, offered, excused, publisher>>

\* What connection k still holds or is about to be given.
InFlight(k) == {queue[k][i] : i \in 1..Len(queue[k])}
                 \cup {push[p].id : p \in {q \in Pushers : k \in push[q].todo}}

\* The connection breaks; the server's generator has not noticed yet. What was
\* overtaken by a higher id is below Last-Event-ID and is not asked for again.
Disconnect(c) ==
  /\ conn[c] # None
  /\ conn' = [conn EXCEPT ![c] = None]
  /\ excused' = [excused EXCEPT ![c] =
                   @ \cup {i \in InFlight(conn[c]) : i <= lastId[c]}]
  /\ UNCHANGED <<bus, lastId, restarts, start, offered, received, publisher>>

\* The generator of a dead connection reaches its finally clause; a push under
\* way may still fill the queue object, which nobody reads.
Unregister(k) ==
  /\ k \in listeners
  /\ \A c \in Clients : conn[c] # k
  /\ listeners' = listeners \ {k}
  /\ queue' = [queue EXCEPT ![k] = <<>>]
  /\ start' = [start EXCEPT ![k] = 0]
  /\ offered' = [offered EXCEPT ![k] = {}]
  /\ UNCHANGED <<eventId, events, push, clients, restarts, received, excused,
                 publisher>>

\* The server process ends and starts again: the bus is in memory only, the
\* browser keeps its _lastSSEId.
Restart ==
  /\ restarts < MaxRestarts
  /\ restarts' = restarts + 1
  /\ eventId' = 0
  /\ events' = <<>>
  /\ listeners' = {}
  /\ queue' = [k \in Conns |-> <<>>]
  /\ push' = [p \in Pushers |-> IdlePush]
  /\ conn' = [c \in Clients |-> None]
  /\ offered' = [k \in Conns |-> {}]
  /\ start' = [k \in Conns |-> 0]
  /\ publisher' = <<>>
  /\ received' = [c \in Clients |-> {}]
  \* new events up to the old Last-Event-ID will not be replayed
  /\ excused' = [c \in Clients |-> 1..lastId[c]]
  /\ UNCHANGED lastId

Next ==
  \/ \E p \in Pushers : PushBegin(p)
  \/ \E p \in Pushers, k \in Conns : PushPut(p, k)
  \/ \E c \in Clients, k \in Conns : Connect(c, k)
  \/ \E c \in Clients : Receive(c)
  \/ \E c \in Clients : Disconnect(c)
  \/ \E k \in Conns : Unregister(k)
  \/ Restart

Spec == Init /\ [][Next]_vars
-----------------------------------------------------------------------------
TypeOK ==
  /\ eventId \in 0..MaxId
  /\ events \in Seq(1..MaxId) /\ Len(events) <= MaxEvents
  /\ listeners \subseteq Conns
  /\ queue \in [Conns -> Seq(1..MaxId)]
  /\ \A k \in Conns : Len(queue[k]) <= QueueSize
  /\ push \in [Pushers -> [id : 0..MaxId, todo : SUBSET Conns]]
  /\ conn \in [Clients -> Conns \cup {None}]
  /\ lastId \in [Clients -> 0..MaxId]
  /\ restarts \in 0..MaxRestarts
  /\ start \in [Conns -> 0..MaxId]
  /\ offered \in [Conns -> SUBSET (1..MaxId)]
  /\ received \in [Clients -> SUBSET (1..MaxId)]
  /\ excused \in [Clients -> SUBSET (1..MaxId)]
  /\ publisher \in Seq(Pushers)

\* The replay buffer is exactly the last MaxEvents ids, in order and without a
\* hole, whatever threads push at the same time (the docstring's "ring buffer
\* for replay"): register_listener reads its floor from the first element.
RingIsRecentHistory ==
  /\ Len(events) = IF eventId < MaxEvents THEN eventId ELSE MaxEvents
  /\ \A i \in 1..Len(events) : events[i] = eventId - Len(events) + i

\* No event enters a connection's queue twice: what a replay preloads is never
\* also put by a push that was under way when the listener registered.
OncePerConnection ==
  \A k \in Conns :
    /\ \A i, j \in 1..Len(queue[k]) : queue[k][i] = queue[k][j] => i = j
    /\ \A p \in Pushers : k \in push[p].todo => push[p].id \notin offered[k]

\* No event falls between the replay and the pushes: every id above the
\* registration floor was replayed, put or dropped, or a push still has it.
NothingMissedWhileRegistered ==
  \A k \in listeners : \A i \in start[k] + 1 .. eventId :
    \/ i \in offered[k]
    \/ \E p \in Pushers : push[p].id = i /\ k \in push[p].todo

\* Concurrent publishers may overtake each other on the way to a queue, but the
\* events of one thread stay in its order (crawl_status: running, then done).
PublisherOrderKept ==
  \A k \in listeners : \A i, j \in 1..Len(queue[k]) :
    i < j /\ publisher[queue[k][i]] = publisher[queue[k][j]]
      => queue[k][i] < queue[k][j]

\* A client has every event up to its Last-Event-ID, or will get it on the
\* connection it has, or lost it for one of these reasons: it was not there
\* yet, its queue was full, the replay buffer had moved on, a concurrent push
\* overtook the event just before the connection broke, the server restarted.
LossesAreAccounted ==
  \A c \in Clients : \A i \in 1..lastId[c] :
    \/ i \in received[c] \cup excused[c]
    \/ conn[c] # None /\ i \in InFlight(conn[c])
    \/ i > eventId
=============================================================================
