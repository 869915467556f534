---------------------------- MODULE SSEBusProofs ----------------------------
(***************************************************************************)
(* Theorems about SSEBus for any number of publishers, clients and         *)
(* connections and any sizes. The argument: ids are assigned under the     *)
(* lock, so the buffer is a window of consecutive ids; a replay is then    *)
(* the interval above the client's id, and a registration splits the ids   *)
(* into those replayed and those a later push offers.                      *)
(* Three more arguments follow: a thread that pushes carries its latest    *)
(* id, so its events keep their order; every published id is accounted for *)
(* on the way from the buffer through a queue to its client; and from both *)
(* together that bus and browser implement FeedContract.                   *)
(***************************************************************************)
EXTENDS SSEBus, SequenceTheorems, TLAPS

\* Id of the event before the first one in the buffer.
Floor == eventId - Len(events)

EventTypes ==
  /\ eventId \in 0..MaxId
  /\ events \in Seq(1..MaxId)
  /\ Len(events) <= MaxEvents

-----------------------------------------------------------------------------
\* Cutting a sequence keeps its last MaxEvents elements.
LEMMA TrimLemma ==
  ASSUME NEW S, NEW s \in Seq(S), Len(s) <= MaxEvents + 1
  PROVE  /\ Trim(s) \in Seq(S)
         /\ Len(Trim(s)) = IF Len(s) > MaxEvents THEN MaxEvents ELSE Len(s)
         /\ \A i \in 1..Len(Trim(s)) : Trim(s)[i] = s[Len(s) - Len(Trim(s)) + i]
<1>1. Len(s) \in Nat /\ MaxEvents \in Nat /\ \A i \in 1..Len(s) : s[i] \in S
  BY LenProperties, ElementOfSeq, SSEAssumption
<1>2. CASE Len(s) > MaxEvents
  <2>1. Len(s) = MaxEvents + 1 /\ Trim(s) = SubSeq(s, 2, Len(s))
    BY <1>1, <1>2 DEF Trim
  <2>2. \A i \in 2..Len(s) : s[i] \in S
    BY <1>1
  <2>3. /\ SubSeq(s, 2, Len(s)) \in Seq(S)
        /\ Len(SubSeq(s, 2, Len(s))) = IF 2 <= Len(s) THEN Len(s) - 2 + 1 ELSE 0
        /\ \A i \in 1..Len(s) - 2 + 1 : SubSeq(s, 2, Len(s))[i] = s[2 + i - 1]
    BY <1>1, <2>2, SubSeqProperties
  <2> QED
    BY <1>1, <1>2, <2>1, <2>3, SSEAssumption
<1>3. CASE ~(Len(s) > MaxEvents)
  <2>1. Trim(s) = s
    BY <1>3 DEF Trim
  <2>2. \A i \in 1..Len(s) : Len(s) - Len(s) + i = i
    BY <1>1
  <2> QED
    BY <1>1, <1>3, <2>1, <2>2
<1> QED
  BY <1>2, <1>3

\* Appending the next id and cutting the front keeps the window.
LEMMA WindowLemma ==
  ASSUME EventTypes, RingIsRecentHistory, eventId < MaxId,
         eventId' = eventId + 1, events' = Trim(Append(events, eventId + 1))
  PROVE  EventTypes' /\ RingIsRecentHistory'
<1> DEFINE s == Append(events, eventId + 1)
<1>1. /\ eventId \in Nat /\ MaxEvents \in Nat \ {0} /\ MaxId \in Nat
      /\ events \in Seq(1..MaxId) /\ Len(events) \in Nat /\ Len(events) <= MaxEvents
      /\ eventId + 1 \in 1..MaxId
  BY SSEAssumption, LenProperties DEF EventTypes
<1>2. /\ s \in Seq(1..MaxId)
      /\ Len(s) = Len(events) + 1
      /\ \A i \in 1..Len(events) : s[i] = events[i]
      /\ s[Len(events) + 1] = eventId + 1
  BY <1>1, AppendProperties
<1>3. events' = Trim(s)
  OBVIOUS
<1> HIDE DEF s
<1>4. ASSUME NEW i \in 1..Len(s) PROVE s[i] = eventId + 1 - Len(s) + i
  <2>1. i \in Nat /\ (i \in 1..Len(events) \/ i = Len(events) + 1)
    BY <1>1, <1>2
  <2>2. CASE i \in 1..Len(events)
    <3>1. s[i] = eventId - Len(events) + i
      BY <1>2, <2>2 DEF RingIsRecentHistory
    <3> QED
      BY <1>1, <1>2, <2>1, <3>1
  <2>3. CASE i = Len(events) + 1
    <3>1. s[i] = eventId + 1
      BY <1>2, <2>3
    <3> QED
      BY <1>1, <1>2, <2>3, <3>1
  <2> QED
    BY <2>1, <2>2, <2>3
<1>5. Len(events) = IF eventId < MaxEvents THEN eventId ELSE MaxEvents
  BY DEF RingIsRecentHistory
<1>6. /\ Trim(s) \in Seq(1..MaxId)
      /\ Len(Trim(s)) = IF Len(s) > MaxEvents THEN MaxEvents ELSE Len(s)
      /\ \A i \in 1..Len(Trim(s)) : Trim(s)[i] = s[Len(s) - Len(Trim(s)) + i]
  <2>1. Len(s) <= MaxEvents + 1
    BY <1>1, <1>2
  <2> QED
    BY <1>2, <2>1, TrimLemma
<1>7. Len(events') = IF eventId' < MaxEvents THEN eventId' ELSE MaxEvents
  BY <1>1, <1>2, <1>3, <1>5, <1>6
<1>8. ASSUME NEW i \in 1..Len(events')
      PROVE  events'[i] = eventId' - Len(events') + i
  <2>1. Len(events') \in Nat /\ Len(events') <= Len(s) /\ Len(s) \in Nat
    BY <1>1, <1>2, <1>3, <1>6
  <2>2. Len(s) - Len(events') + i \in 1..Len(s)
    BY <2>1, <1>8
  <2>3. events'[i] = s[Len(s) - Len(events') + i]
    BY <1>3, <1>6, <1>8
  <2>4. s[Len(s) - Len(events') + i] = eventId + 1 - Len(s) + (Len(s) - Len(events') + i)
    BY <2>2, <1>4
  <2> QED
    BY <1>1, <2>1, <2>3, <2>4
<1>9. EventTypes'
  BY <1>1, <1>2, <1>3, <1>6 DEF EventTypes
<1> QED
  BY <1>7, <1>8, <1>9 DEF RingIsRecentHistory

\* A replay is the increasing sequence of all buffered ids above last.
LEMMA ReplayLemma ==
  ASSUME EventTypes, RingIsRecentHistory, NEW last \in Nat
  PROVE  /\ Replay(last) \in Seq(1..MaxId)
         /\ Len(Replay(last)) <= MaxEvents
         /\ \A i \in 1..Len(Replay(last)) :
              Replay(last)[i] > last /\ Replay(last)[i] \in 1..eventId
         /\ \A i, j \in 1..Len(Replay(last)) :
              i < j => Replay(last)[i] < Replay(last)[j]
         /\ \A n \in 1..eventId :
              n > last /\ n > Floor => \E i \in 1..Len(Replay(last)) : Replay(last)[i] = n
<1> DEFINE keep  == {i \in 1..Len(events) : events[i] > last}
           first == IF last <= Floor THEN 1 ELSE last - Floor + 1
           from  == CHOOSE i \in keep : \A j \in keep : i <= j
<1>1. /\ eventId \in Nat /\ Len(events) \in Nat /\ Floor \in Nat
      /\ Floor = eventId - Len(events) /\ MaxEvents \in Nat /\ MaxId \in Nat
      /\ Len(events) <= MaxEvents /\ eventId <= MaxId
      /\ events \in Seq(1..MaxId)
  BY SSEAssumption, LenProperties DEF EventTypes, RingIsRecentHistory, Floor
<1>2. \A i \in 1..Len(events) : events[i] = Floor + i /\ events[i] \in 1..MaxId
  BY <1>1, ElementOfSeq DEF RingIsRecentHistory
<1>3. ASSUME NEW n \in 1..eventId, n > Floor
      PROVE  n - Floor \in 1..Len(events) /\ events[n - Floor] = n
  <2>1. n - Floor \in 1..Len(events)
    BY <1>1, <1>3
  <2>2. events[n - Floor] = Floor + (n - Floor)
    BY <1>2, <2>1
  <2> QED
    BY <1>1, <2>1, <2>2
<1>4. CASE keep = {}
  <2>1. Replay(last) = <<>>
    BY <1>4 DEF Replay
  <2>2. <<>> \in Seq(1..MaxId) /\ Len(<<>>) = 0
    BY EmptySeq
  <2>3. ASSUME NEW n \in 1..eventId, n > last, n > Floor PROVE FALSE
    <3>1. n - Floor \in keep
      BY <1>3, <2>3
    <3> QED
      BY <1>4, <3>1
  <2>4. 1..0 = {}
    OBVIOUS
  <2> QED
    BY <1>1, <2>1, <2>2, <2>3, <2>4
<1>5. CASE keep # {}
  <2>1. first \in Nat \ {0}
    BY <1>1
  <2>2. \A i \in 1..Len(events) : i \in keep <=> i >= first
    BY <1>1, <1>2
  <2>3. first \in keep /\ \A j \in keep : first <= j
    <3>1. PICK j \in 1..Len(events) : j \in keep
      BY <1>5
    <3>2. j >= first /\ \A i \in keep : i >= first
      BY <2>2, <3>1
    <3>3. first \in 1..Len(events)
      <4> HIDE DEF first, keep
      <4> QED
        BY <1>1, <2>1, <3>1, <3>2
    <3>4. first \in keep
      <4>1. first >= first
        BY <2>1
      <4> HIDE DEF first, keep
      <4> QED
        BY <2>2, <3>3, <4>1
    <3>5. \A i \in keep : first <= i
      <4> HIDE DEF first
      <4> QED
        BY <1>1, <2>1, <3>2
    <3> QED
      BY <3>4, <3>5
  <2>4. from = first
    <3> HIDE DEF first, keep
    <3>1. from \in keep /\ \A j \in keep : from <= j
      BY <2>3
    <3>2. from <= first /\ first <= from /\ from \in Int /\ first \in Int
      BY <2>1, <2>3, <3>1 DEF keep
    <3> HIDE DEF from
    <3> QED
      BY <3>2
  <2>5. Replay(last) = SubSeq(events, first, Len(events))
    BY <1>5, <2>4 DEF Replay
  <2>6. first \in 1..Len(events)
    BY <2>3
  <2> HIDE DEF first, from
  <2>7. /\ Replay(last) \in Seq(1..MaxId)
        /\ Len(Replay(last)) = Len(events) - first + 1
        /\ \A i \in 1..Len(events) - first + 1 : Replay(last)[i] = events[first + i - 1]
    <3>1. \A i \in first..Len(events) : events[i] \in 1..MaxId
      BY <1>1, <1>2, <2>6
    <3>2. /\ SubSeq(events, first, Len(events)) \in Seq(1..MaxId)
          /\ Len(SubSeq(events, first, Len(events))) =
               IF first <= Len(events) THEN Len(events) - first + 1 ELSE 0
          /\ \A i \in 1..Len(events) - first + 1 :
               SubSeq(events, first, Len(events))[i] = events[first + i - 1]
      BY <1>1, <2>1, <3>1, SubSeqProperties
    <3> QED
      <4>1. first <= Len(events)
        BY <1>1, <2>1, <2>6
      <4> QED
        BY <2>5, <3>2, <4>1
  <2> HIDE DEF keep
  <2>8. \A i \in 1..Len(Replay(last)) : first + i - 1 \in 1..Len(events)
    BY <1>1, <2>6, <2>7
  <2>9. \A i \in 1..Len(Replay(last)) :
          /\ Replay(last)[i] = Floor + (first + i - 1)
          /\ Replay(last)[i] \in 1..eventId
    <3> SUFFICES ASSUME NEW i \in 1..Len(Replay(last))
                 PROVE  /\ Replay(last)[i] = Floor + (first + i - 1)
                        /\ Replay(last)[i] \in 1..eventId
      OBVIOUS
    <3>1. first + i - 1 \in 1..Len(events)
      BY <2>8
    <3>2. Replay(last)[i] = events[first + i - 1]
      BY <2>7
    <3>3. events[first + i - 1] = Floor + (first + i - 1)
      BY <1>2, <3>1
    <3> QED
      BY <1>1, <3>1, <3>2, <3>3
  <2>10. ASSUME NEW i \in 1..Len(Replay(last)) PROVE Replay(last)[i] > last
    <3>1. first + i - 1 >= first /\ first + i - 1 \in 1..Len(events)
      BY <1>1, <2>6, <2>8, <2>10
    <3>2. first + i - 1 \in keep
      BY <2>2, <3>1
    <3>3. Replay(last)[i] = events[first + i - 1]
      BY <2>7, <2>10
    <3> QED
      BY <3>2, <3>3 DEF keep
  <2>11. ASSUME NEW n \in 1..eventId, n > last, n > Floor
         PROVE  \E i \in 1..Len(Replay(last)) : Replay(last)[i] = n
    <3>1. n - Floor \in 1..Len(events) /\ events[n - Floor] = n
      BY <1>3, <2>11
    <3>2. n - Floor \in keep
      BY <3>1, <2>11 DEF keep
    <3>3. n - Floor >= first
      BY <2>2, <3>1, <3>2
    <3>4. n - Floor - first + 1 \in 1..Len(Replay(last))
      <4>1. first \in Nat \ {0} /\ n - Floor - first + 1 >= 1
            /\ n - Floor - first + 1 <= Len(events) - first + 1
        BY <1>1, <2>1, <3>1, <3>3
      <4>2. n - Floor - first + 1 \in Int
        BY <1>1, <2>1
      <4> QED
        BY <1>1, <2>7, <4>1, <4>2
    <3>5. Replay(last)[n - Floor - first + 1] = Floor + (first + (n - Floor - first + 1) - 1)
      BY <2>9, <3>4
    <3>6. Floor + (first + (n - Floor - first + 1) - 1) = n
      BY <1>1, <2>6, <2>11
    <3> QED
      BY <3>4, <3>5, <3>6
  <2>12. \A i, j \in 1..Len(Replay(last)) : i < j => Replay(last)[i] < Replay(last)[j]
    BY <1>1, <2>1, <2>6, <2>7, <2>9
  <2>13. Len(Replay(last)) <= MaxEvents
    BY <1>1, <2>6, <2>7
  <2> QED
    BY <2>7, <2>9, <2>10, <2>11, <2>12, <2>13
<1> QED
  BY <1>4, <1>5

-----------------------------------------------------------------------------
\* A listener's floor never lies below the buffer, so its replay has no hole.
LEMMA ReplayFromLemma ==
  ASSUME EventTypes, RingIsRecentHistory, NEW last \in 0..MaxId
  PROVE  ReplayFrom(last) \in 0..MaxId /\ ReplayFrom(last) >= Floor
<1>1. /\ eventId \in Nat /\ Len(events) \in Nat /\ Floor \in Nat
      /\ Floor = eventId - Len(events) /\ MaxEvents \in Nat \ {0} /\ MaxId \in Nat
      /\ Len(events) <= MaxEvents /\ eventId <= MaxId
  BY SSEAssumption, LenProperties DEF EventTypes, RingIsRecentHistory, Floor
<1>2. CASE events = <<>>
  <2>1. Len(events) = 0
    BY <1>2, EmptySeq
  <2>2. eventId = 0
    BY <1>1, <2>1 DEF RingIsRecentHistory
  <2> QED
    BY <1>1, <1>2, <2>1, <2>2 DEF ReplayFrom
<1>3. CASE events # <<>>
  <2>1. 1 \in 1..Len(events)
    BY <1>1, <1>3, EmptySeq DEF EventTypes
  <2>2. events[1] = Floor + 1
    BY <1>1, <2>1 DEF RingIsRecentHistory
  <2> QED
    BY <1>1, <1>3, <2>2 DEF ReplayFrom
<1> QED
  BY <1>2, <1>3

LEMMA TypeInit == Init => TypeOK
<1> SUFFICES ASSUME Init PROVE TypeOK
  OBVIOUS
<1>1. <<>> \in Seq(1..MaxId) /\ Len(<<>>) = 0 /\ <<>> \in Seq(Pushers)
  BY EmptySeq
<1> QED
  BY <1>1, SSEAssumption DEF Init, TypeOK, IdlePush

\* The buffer facts that the lemmas above ask for.
LEMMA TypeHasEvents == TypeOK => EventTypes
BY DEF TypeOK, EventTypes

-----------------------------------------------------------------------------
\* Pushes under way carry different ids, all of them already assigned.
PendingIds ==
  /\ \A p \in Pushers : push[p].todo # {} => push[p].id \in 1..eventId
  /\ \A p, q \in Pushers :
       p # q /\ push[p].todo # {} /\ push[q].todo # {} => push[p].id # push[q].id

\* offered records at least what the queue holds, and only assigned ids.
OfferedIds ==
  \A k \in Conns :
    /\ offered[k] \subseteq 1..eventId
    /\ \A i \in 1..Len(queue[k]) : queue[k][i] \in offered[k]
    /\ start[k] <= eventId

\* The inductive invariant.
IInv ==
  /\ TypeOK
  /\ RingIsRecentHistory
  /\ PendingIds
  /\ OfferedIds
  /\ OncePerConnection
  /\ NothingMissedWhileRegistered

LEMMA IInvInit == Init => IInv
<1> SUFFICES ASSUME Init PROVE IInv
  OBVIOUS
<1>1. Len(<<>>) = 0 /\ 1..0 = {}
  BY EmptySeq
<1>2. TypeOK
  BY TypeInit
<1>3. RingIsRecentHistory
  BY <1>1, SSEAssumption DEF Init, RingIsRecentHistory
<1>4. PendingIds /\ OfferedIds
  BY <1>1 DEF Init, PendingIds, OfferedIds, IdlePush
<1>5. OncePerConnection /\ NothingMissedWhileRegistered
  BY <1>1 DEF Init, OncePerConnection, NothingMissedWhileRegistered, IdlePush
<1> QED
  BY <1>2, <1>3, <1>4, <1>5 DEF IInv

\* Plain facts about the numbers, used in every step below.
LEMMA Numbers ==
  ASSUME TypeOK
  PROVE  /\ eventId \in Nat /\ eventId <= MaxId /\ MaxId \in Nat
         /\ \A k \in Conns : queue[k] \in Seq(1..MaxId) /\ Len(queue[k]) \in Nat
         /\ \A k \in Conns : start[k] \in Nat
BY SSEAssumption, LenProperties DEF TypeOK

LEMMA PushBeginStep ==
  ASSUME IInv, NEW p \in Pushers, PushBegin(p) PROVE IInv'
<1> USE DEF IInv
<1>1. /\ eventId \in Nat /\ eventId < MaxId /\ MaxId \in Nat
      /\ eventId' = eventId + 1 /\ events' = Trim(Append(events, eventId + 1))
      /\ push[p].todo = {}
      /\ push' = [push EXCEPT ![p] = [id |-> eventId + 1, todo |-> listeners]]
      /\ publisher' = Append(publisher, p)
      /\ UNCHANGED <<listeners, queue, conn, lastId, restarts,
                     start, offered, received, excused>>
  BY Numbers DEF PushBegin, clients
<1>2. EventTypes' /\ RingIsRecentHistory'
  BY <1>1, WindowLemma, TypeHasEvents
<1>3. push'[p] = [id |-> eventId + 1, todo |-> listeners]
      /\ \A q \in Pushers \ {p} : push'[q] = push[q]
  BY <1>1 DEF TypeOK
<1>4. TypeOK'
  <2>1. publisher' \in Seq(Pushers)
    BY <1>1, AppendProperties DEF TypeOK
  <2>2. push' \in [Pushers -> [id : 0..MaxId, todo : SUBSET Conns]]
    BY <1>1 DEF TypeOK
  <2> QED
    BY <1>1, <1>2, <2>1, <2>2 DEF TypeOK, EventTypes
<1>5. PendingIds'
  BY <1>1, <1>3 DEF PendingIds
<1>6. OfferedIds'
  BY <1>1, Numbers DEF OfferedIds
<1>7. OncePerConnection'
  BY <1>1, <1>3 DEF OncePerConnection, OfferedIds
<1>8. NothingMissedWhileRegistered'
  <2> SUFFICES ASSUME NEW k \in listeners, NEW i \in start[k] + 1 .. eventId + 1,
                      i \notin offered[k]
               PROVE  \E q \in Pushers : push'[q].id = i /\ k \in push'[q].todo
    BY <1>1 DEF NothingMissedWhileRegistered
  <2>1. start[k] \in Nat
    BY Numbers DEF TypeOK
  <2>2. CASE i = eventId + 1
    BY <1>3, <2>2
  <2>3. CASE i # eventId + 1
    <3>1. i \in start[k] + 1 .. eventId
      BY <1>1, <2>1, <2>3
    <3>2. PICK q \in Pushers : push[q].id = i /\ k \in push[q].todo
      BY <3>1 DEF NothingMissedWhileRegistered
    <3> QED
      BY <1>1, <1>3, <3>2
  <2> QED
    BY <2>2, <2>3
<1> QED
  BY <1>2, <1>4, <1>5, <1>6, <1>7, <1>8

LEMMA PushPutStep ==
  ASSUME IInv, NEW p \in Pushers, NEW k \in Conns, PushPut(p, k) PROVE IInv'
<1> USE DEF IInv
<1>1. /\ k \in push[p].todo
      /\ push' = [push EXCEPT ![p].todo = @ \ {k}]
      /\ offered' = [offered EXCEPT ![k] = @ \cup {push[p].id}]
      /\ UNCHANGED <<eventId, events, listeners, conn, lastId, restarts, start,
                     received, publisher>>
  BY DEF PushPut, clients
<1>2. /\ push[p].id \in 1..eventId /\ push[p].id \in 1..MaxId
      /\ push[p].id \notin offered[k]
  BY <1>1, Numbers DEF PendingIds, OncePerConnection
<1>3. /\ queue[k] \in Seq(1..MaxId) /\ Len(queue[k]) \in Nat
      /\ Append(queue[k], push[p].id) \in Seq(1..MaxId)
      /\ Len(Append(queue[k], push[p].id)) = Len(queue[k]) + 1
      /\ \A i \in 1..Len(queue[k]) : Append(queue[k], push[p].id)[i] = queue[k][i]
      /\ Append(queue[k], push[p].id)[Len(queue[k]) + 1] = push[p].id
  BY <1>2, Numbers, AppendProperties
<1>4. /\ push'[p] = [id |-> push[p].id, todo |-> push[p].todo \ {k}]
      /\ \A q \in Pushers \ {p} : push'[q] = push[q]
  BY <1>1 DEF TypeOK
<1>5. /\ offered'[k] = offered[k] \cup {push[p].id}
      /\ \A j \in Conns \ {k} : offered'[j] = offered[j]
  BY <1>1 DEF TypeOK
<1>6. /\ \A j \in Conns \ {k} : queue'[j] = queue[j]
      /\ \/ queue'[k] = queue[k]
         \/ queue'[k] = Append(queue[k], push[p].id) /\ Len(queue[k]) < QueueSize
  BY DEF PushPut, TypeOK
<1>7. TypeOK'
  <2>1. queue' \in [Conns -> Seq(1..MaxId)]
    BY <1>3 DEF PushPut, TypeOK
  <2>2. \A j \in Conns : Len(queue'[j]) <= QueueSize
    <3> SUFFICES ASSUME NEW j \in Conns PROVE Len(queue'[j]) <= QueueSize
      OBVIOUS
    <3>1. CASE queue'[j] = queue[j]
      BY <3>1 DEF TypeOK
    <3>2. CASE j = k /\ queue'[k] = Append(queue[k], push[p].id)
               /\ Len(queue[k]) < QueueSize
      BY <1>3, <3>2, SSEAssumption
    <3> QED
      BY <1>6, <3>1, <3>2
  <2>3. excused' \in [Clients -> SUBSET (1..MaxId)]
    BY <1>2 DEF PushPut, TypeOK
  <2>4. push' \in [Pushers -> [id : 0..MaxId, todo : SUBSET Conns]]
    BY <1>1 DEF TypeOK
  <2>5. offered' \in [Conns -> SUBSET (1..MaxId)]
    BY <1>1, <1>2 DEF TypeOK
  <2> QED
    BY <1>1, <2>1, <2>2, <2>3, <2>4, <2>5 DEF TypeOK
<1>8. RingIsRecentHistory'
  BY <1>1 DEF RingIsRecentHistory
<1>9. PendingIds'
  BY <1>1, <1>4 DEF PendingIds
<1>10. OfferedIds'
  <2> SUFFICES ASSUME NEW j \in Conns
               PROVE  /\ offered'[j] \subseteq 1..eventId
                      /\ \A i \in 1..Len(queue'[j]) : queue'[j][i] \in offered'[j]
                      /\ start[j] <= eventId
    BY <1>1 DEF OfferedIds
  <2>1. offered'[j] \subseteq 1..eventId /\ start[j] <= eventId
    BY <1>2, <1>5 DEF OfferedIds
  <2>2. ASSUME NEW i \in 1..Len(queue'[j]) PROVE queue'[j][i] \in offered'[j]
    <3>1. CASE queue'[j] = queue[j]
      BY <1>5, <2>2, <3>1 DEF OfferedIds
    <3>2. CASE j = k /\ queue'[k] = Append(queue[k], push[p].id)
      <4>1. i \in 1..Len(queue[k]) \/ i = Len(queue[k]) + 1
        BY <1>3, <2>2, <3>2
      <4> QED
        BY <1>3, <1>5, <3>2, <4>1 DEF OfferedIds
    <3> QED
      BY <1>6, <3>1, <3>2
  <2> QED
    BY <2>1, <2>2
<1>11. OncePerConnection'
  <2>1. ASSUME NEW j \in Conns, NEW a \in 1..Len(queue'[j]), NEW b \in 1..Len(queue'[j]),
               queue'[j][a] = queue'[j][b]
        PROVE  a = b
    <3>1. CASE queue'[j] = queue[j]
      BY <2>1, <3>1 DEF OncePerConnection
    <3>2. CASE j = k /\ queue'[k] = Append(queue[k], push[p].id)
      <4>1. /\ a \in 1..Len(queue[k]) \/ a = Len(queue[k]) + 1
            /\ b \in 1..Len(queue[k]) \/ b = Len(queue[k]) + 1
        BY <1>3, <2>1, <3>2
      <4>2. \A i \in 1..Len(queue[k]) : queue[k][i] # push[p].id
        BY <1>2 DEF OfferedIds
      <4> QED
        BY <1>3, <2>1, <3>2, <4>1, <4>2 DEF OncePerConnection
    <3> QED
      BY <1>6, <3>1, <3>2
  <2>2. ASSUME NEW j \in Conns, NEW q \in Pushers, j \in push'[q].todo
        PROVE  push'[q].id \notin offered'[j]
    <3>1. push'[q].id = push[q].id /\ j \in push[q].todo /\ ~(q = p /\ j = k)
      BY <1>4, <2>2
    <3>2. push[q].id \notin offered[j]
      BY <3>1 DEF OncePerConnection
    <3>3. j = k => push[q].id # push[p].id
      BY <1>1, <3>1 DEF PendingIds
    <3> QED
      BY <1>5, <3>1, <3>2, <3>3
  <2> QED
    BY <2>1, <2>2 DEF OncePerConnection
<1>12. NothingMissedWhileRegistered'
  <2> SUFFICES ASSUME NEW j \in listeners, NEW i \in start[j] + 1 .. eventId,
                      i \notin offered'[j]
               PROVE  \E q \in Pushers : push'[q].id = i /\ j \in push'[q].todo
    BY <1>1 DEF NothingMissedWhileRegistered
  <2>1. j \in Conns /\ i \notin offered[j]
    BY <1>5 DEF TypeOK
  <2>2. PICK q \in Pushers : push[q].id = i /\ j \in push[q].todo
    BY <2>1 DEF NothingMissedWhileRegistered
  <2>3. ~(q = p /\ j = k)
    BY <1>5, <2>2
  <2>4. push'[q].id = i /\ j \in push'[q].todo
    BY <1>4, <2>2, <2>3
  <2> QED
    BY <2>4
<1> QED
  BY <1>7, <1>8, <1>9, <1>10, <1>11, <1>12

LEMMA ConnectStep ==
  ASSUME IInv, NEW c \in Clients, NEW k \in Conns, Connect(c, k) PROVE IInv'
<1> USE DEF IInv
<1> DEFINE from == ReplayFrom(lastId[c])
           r    == Replay(from)
           got  == {r[i] : i \in 1..Len(r)}
<1>1. /\ Unused(k)
      /\ listeners' = listeners \cup {k}
      /\ queue' = [queue EXCEPT ![k] = r]
      /\ conn' = [conn EXCEPT ![c] = k]
      /\ start' = [start EXCEPT ![k] = IF from < eventId THEN from ELSE eventId]
      /\ offered' = [offered EXCEPT ![k] = got]
      /\ excused' = [excused EXCEPT ![c] = @ \cup OutOfReach(c)]
      /\ UNCHANGED <<eventId, events, push, lastId, restarts, received, publisher>>
  BY DEF Connect
<1>2. lastId[c] \in 0..MaxId /\ EventTypes
  BY TypeHasEvents DEF TypeOK
<1>3. from \in 0..MaxId /\ from >= Floor
  BY <1>2, ReplayFromLemma
<1> HIDE DEF from
<1>4. /\ eventId \in Nat /\ eventId <= MaxId /\ MaxId \in Nat /\ from \in Nat
      /\ Len(events) \in Nat /\ Floor = eventId - Len(events)
  BY <1>2, <1>3, Numbers, LenProperties DEF EventTypes, Floor
<1>5. /\ r \in Seq(1..MaxId)
      /\ Len(r) <= MaxEvents
      /\ \A i \in 1..Len(r) : r[i] > from /\ r[i] \in 1..eventId
      /\ \A i, j \in 1..Len(r) : i < j => r[i] < r[j]
      /\ \A n \in 1..eventId : n > from /\ n > Floor => \E i \in 1..Len(r) : r[i] = n
  BY <1>2, <1>4, ReplayLemma
<1> HIDE DEF r
<1>6. Len(r) \in Nat
  BY <1>5, LenProperties
<1>7. got \subseteq 1..eventId /\ \A n \in from + 1 .. eventId : n \in got
  <2>1. got \subseteq 1..eventId
    BY <1>5
  <2>2. ASSUME NEW n \in from + 1 .. eventId PROVE n \in got
    <3>1. n \in 1..eventId /\ n > from /\ n > Floor
      BY <1>3, <1>4, <2>2
    <3> QED
      BY <1>5, <3>1
  <2> QED
    BY <2>1, <2>2
<1>8. /\ queue'[k] = r /\ \A j \in Conns \ {k} : queue'[j] = queue[j]
      /\ offered'[k] = got /\ \A j \in Conns \ {k} : offered'[j] = offered[j]
      /\ start'[k] = IF from < eventId THEN from ELSE eventId
      /\ \A j \in Conns \ {k} : start'[j] = start[j]
  BY <1>1 DEF TypeOK
<1>9. \A i \in 1..Len(r) : r[i] \in got
  OBVIOUS
<1>10. \A p \in Pushers : k \notin push[p].todo
  BY <1>1 DEF Unused
<1>11. TypeOK'
  <2>1. Len(r) <= QueueSize
    BY <1>5, <1>6, SSEAssumption
  <2>2. queue' \in [Conns -> Seq(1..MaxId)] /\ \A j \in Conns : Len(queue'[j]) <= QueueSize
    BY <1>1, <1>5, <1>8, <2>1 DEF TypeOK
  <2>3. start' \in [Conns -> 0..MaxId]
    BY <1>1, <1>3, <1>4 DEF TypeOK
  <2>4. got \subseteq 1..MaxId
    BY <1>4, <1>7
  <2>5. offered' \in [Conns -> SUBSET (1..MaxId)]
    <3> HIDE DEF got
    <3> QED
      BY <1>1, <2>4 DEF TypeOK
  <2>6. OutOfReach(c) \subseteq 1..MaxId
    <3>1. \A n \in 1..eventId : n \in 1..MaxId
      BY <1>4
    <3>2. \A n \in lastId[c] + 1 .. eventId - Len(events) : n \in 1..MaxId
      BY <1>2, <1>4
    <3> QED
      BY <3>1, <3>2 DEF OutOfReach
  <2>7. excused' \in [Clients -> SUBSET (1..MaxId)]
    BY <1>1, <2>6 DEF TypeOK
  <2> QED
    BY <1>1, <2>2, <2>3, <2>5, <2>7 DEF TypeOK
<1> HIDE DEF got
<1>12. RingIsRecentHistory' /\ PendingIds'
  BY <1>1 DEF RingIsRecentHistory, PendingIds
<1>13. OfferedIds'
  <2> SUFFICES ASSUME NEW j \in Conns
               PROVE  /\ offered'[j] \subseteq 1..eventId
                      /\ \A i \in 1..Len(queue'[j]) : queue'[j][i] \in offered'[j]
                      /\ start'[j] <= eventId
    BY <1>1 DEF OfferedIds
  <2>1. CASE j = k
    <3>1. offered'[k] \subseteq 1..eventId
      BY <1>7, <1>8
    <3>2. \A i \in 1..Len(queue'[k]) : queue'[k][i] \in offered'[k]
      BY <1>8, <1>9
    <3>3. start'[k] <= eventId
      BY <1>4, <1>8
    <3> QED
      BY <2>1, <3>1, <3>2, <3>3
  <2>2. CASE j # k
    BY <1>8, <2>2 DEF OfferedIds
  <2> QED
    BY <2>1, <2>2
<1>14. OncePerConnection'
  <2>1. ASSUME NEW j \in Conns, NEW a \in 1..Len(queue'[j]), NEW b \in 1..Len(queue'[j]),
               queue'[j][a] = queue'[j][b]
        PROVE  a = b
    <3>1. CASE j = k
      <4>1. a \in 1..Len(r) /\ b \in 1..Len(r) /\ r[a] = r[b]
        BY <1>8, <2>1, <3>1
      <4>2. a \in Int /\ b \in Int /\ r[a] \in Int
        BY <1>5, <4>1
      <4> QED
        BY <1>5, <4>1, <4>2
    <3>2. CASE j # k
      BY <1>8, <2>1, <3>2 DEF OncePerConnection
    <3> QED
      BY <3>1, <3>2
  <2>2. ASSUME NEW j \in Conns, NEW q \in Pushers, j \in push'[q].todo
        PROVE  push'[q].id \notin offered'[j]
    BY <1>1, <1>8, <1>10, <2>2 DEF OncePerConnection
  <2> QED
    BY <2>1, <2>2 DEF OncePerConnection
<1>15. NothingMissedWhileRegistered'
  <2> SUFFICES ASSUME NEW j \in listeners', NEW i \in start'[j] + 1 .. eventId,
                      i \notin offered'[j]
               PROVE  \E q \in Pushers : push[q].id = i /\ j \in push[q].todo
    BY <1>1 DEF NothingMissedWhileRegistered
  <2>1. CASE j = k
    <3>1. i \in from + 1 .. eventId
      BY <1>4, <1>8, <2>1
    <3> QED
      BY <1>7, <1>8, <2>1, <3>1
  <2>2. CASE j # k
    <3>1. j \in listeners /\ j \in Conns
      BY <1>1, <2>2 DEF TypeOK
    <3> QED
      BY <1>8, <2>2, <3>1 DEF NothingMissedWhileRegistered
  <2> QED
    BY <2>1, <2>2
<1> QED
  BY <1>11, <1>12, <1>13, <1>14, <1>15

LEMMA ReceiveStep ==
  ASSUME IInv, NEW c \in Clients, Receive(c) PROVE IInv'
<1> USE DEF IInv
<1> DEFINE k == conn[c]
<1>1. /\ k # None /\ queue[k] # <<>>
      /\ queue' = [queue EXCEPT ![k] = Tail(queue[k])]
      /\ lastId' = [lastId EXCEPT ![c] = IF Head(queue[k]) > @ THEN Head(queue[k]) ELSE @]
      /\ received' = [received EXCEPT ![c] = @ \cup {Head(queue[k])}]
      /\ UNCHANGED <<eventId, events, listeners, push, conn, restarts,
                     start, offered, excused, publisher>>
  BY DEF Receive, TypeOK
<1>2. k \in Conns
  BY <1>1 DEF TypeOK
<1> HIDE DEF k
<1>3. /\ queue[k] \in Seq(1..MaxId) /\ Len(queue[k]) \in Nat
      /\ Head(queue[k]) \in 1..MaxId
      /\ Tail(queue[k]) \in Seq(1..MaxId)
      /\ Len(Tail(queue[k])) = Len(queue[k]) - 1
      /\ \A i \in 1..Len(Tail(queue[k])) : Tail(queue[k])[i] = queue[k][i + 1]
  BY <1>1, <1>2, Numbers, HeadTailProperties
<1>4. queue'[k] = Tail(queue[k]) /\ \A j \in Conns \ {k} : queue'[j] = queue[j]
  BY <1>1, <1>2 DEF TypeOK
<1>5. \A i \in 1..Len(queue'[k]) : i + 1 \in 1..Len(queue[k]) /\ queue'[k][i] = queue[k][i + 1]
  BY <1>3, <1>4
<1>6. TypeOK'
  <2>1. queue' \in [Conns -> Seq(1..MaxId)]
    BY <1>1, <1>3 DEF TypeOK
  <2>2. \A j \in Conns : Len(queue'[j]) <= QueueSize
    <3>1. Len(queue'[k]) <= QueueSize
      BY <1>2, <1>3, <1>4, SSEAssumption DEF TypeOK
    <3> QED
      BY <1>4, <3>1 DEF TypeOK
  <2>3. lastId' \in [Clients -> 0..MaxId]
    <3>1. Head(queue[k]) \in 0..MaxId
      BY <1>3, Numbers
    <3> QED
      BY <1>1, <3>1 DEF TypeOK
  <2>4. received' \in [Clients -> SUBSET (1..MaxId)]
    BY <1>1, <1>3 DEF TypeOK
  <2> QED
    BY <1>1, <2>1, <2>2, <2>3, <2>4 DEF TypeOK
<1>7. RingIsRecentHistory' /\ PendingIds' /\ NothingMissedWhileRegistered'
  BY <1>1 DEF RingIsRecentHistory, PendingIds, NothingMissedWhileRegistered
<1>8. OfferedIds'
  <2>1. \A i \in 1..Len(queue'[k]) : queue'[k][i] \in offered[k]
    BY <1>2, <1>5 DEF OfferedIds
  <2> QED
    BY <1>1, <1>4, <2>1 DEF OfferedIds
<1>9. OncePerConnection'
  <2>1. ASSUME NEW j \in Conns, NEW a \in 1..Len(queue'[j]), NEW b \in 1..Len(queue'[j]),
               queue'[j][a] = queue'[j][b]
        PROVE  a = b
    <3>1. CASE j = k
      <4>1. a + 1 = b + 1
        BY <1>2, <1>5, <2>1, <3>1 DEF OncePerConnection
      <4>2. a \in Int /\ b \in Int
        BY <2>1
      <4> HIDE DEF TypeOK
      <4> QED
        BY <4>1, <4>2
    <3>2. CASE j # k
      BY <1>4, <2>1, <3>2 DEF OncePerConnection
    <3> QED
      BY <3>1, <3>2
  <2> QED
    BY <1>1, <2>1 DEF OncePerConnection
<1> QED
  BY <1>6, <1>7, <1>8, <1>9

LEMMA DisconnectStep ==
  ASSUME IInv, NEW c \in Clients, Disconnect(c) PROVE IInv'
<1> USE DEF IInv
<1>1. /\ conn[c] # None
      /\ conn' = [conn EXCEPT ![c] = None]
      /\ excused' = [excused EXCEPT ![c] =
                       @ \cup {i \in InFlight(conn[c]) : i <= lastId[c]}]
      /\ UNCHANGED <<eventId, events, listeners, queue, push, lastId, restarts,
                     start, offered, received, publisher>>
  BY DEF Disconnect, bus
<1>2. conn[c] \in Conns
  BY <1>1 DEF TypeOK
<1>3. InFlight(conn[c]) \subseteq 1..MaxId
  <2>1. \A i \in 1..Len(queue[conn[c]]) : queue[conn[c]][i] \in 1..MaxId
    BY <1>2, Numbers, ElementOfSeq
  <2>2. \A p \in Pushers : conn[c] \in push[p].todo => push[p].id \in 1..MaxId
    BY Numbers DEF PendingIds
  <2> QED
    BY <2>1, <2>2 DEF InFlight
<1>4. TypeOK'
  <2> DEFINE overtaken == {i \in InFlight(conn[c]) : i <= lastId[c]}
  <2>1. overtaken \subseteq 1..MaxId
    BY <1>3
  <2> HIDE DEF overtaken
  <2>2. excused' \in [Clients -> SUBSET (1..MaxId)]
    BY <1>1, <2>1 DEF TypeOK, overtaken
  <2> QED
    BY <1>1, <2>2 DEF TypeOK
<1>5. RingIsRecentHistory' /\ PendingIds' /\ OfferedIds'
  BY <1>1 DEF RingIsRecentHistory, PendingIds, OfferedIds
<1>6. OncePerConnection' /\ NothingMissedWhileRegistered'
  BY <1>1 DEF OncePerConnection, NothingMissedWhileRegistered
<1> QED
  BY <1>4, <1>5, <1>6

LEMMA UnregisterStep ==
  ASSUME IInv, NEW k \in Conns, Unregister(k) PROVE IInv'
<1> USE DEF IInv
<1>1. /\ listeners' = listeners \ {k}
      /\ queue' = [queue EXCEPT ![k] = <<>>]
      /\ start' = [start EXCEPT ![k] = 0]
      /\ offered' = [offered EXCEPT ![k] = {}]
      /\ UNCHANGED <<eventId, events, push, conn, lastId, restarts, received,
                     excused, publisher>>
  BY DEF Unregister, clients
<1>2. <<>> \in Seq(1..MaxId) /\ Len(<<>>) = 0 /\ 1..0 = {}
  BY EmptySeq
<1>3. /\ queue'[k] = <<>> /\ \A j \in Conns \ {k} : queue'[j] = queue[j]
      /\ offered'[k] = {} /\ \A j \in Conns \ {k} : offered'[j] = offered[j]
      /\ start'[k] = 0 /\ \A j \in Conns \ {k} : start'[j] = start[j]
  BY <1>1 DEF TypeOK
<1>4. TypeOK'
  <2>1. \A j \in Conns : Len(queue'[j]) <= QueueSize
    BY <1>2, <1>3, SSEAssumption DEF TypeOK
  <2>2. 0 \in 0..MaxId
    BY Numbers
  <2> QED
    BY <1>1, <1>2, <2>1, <2>2 DEF TypeOK
<1>5. RingIsRecentHistory' /\ PendingIds'
  BY <1>1 DEF RingIsRecentHistory, PendingIds
<1>6. OfferedIds'
  BY <1>1, <1>2, <1>3, Numbers DEF OfferedIds
<1>7. OncePerConnection'
  BY <1>1, <1>2, <1>3 DEF OncePerConnection
<1>8. NothingMissedWhileRegistered'
  BY <1>1, <1>3 DEF NothingMissedWhileRegistered, TypeOK
<1> QED
  BY <1>4, <1>5, <1>6, <1>7, <1>8

LEMMA RestartStep ==
  ASSUME IInv, Restart PROVE IInv'
<1> USE DEF IInv
<1>1. /\ restarts' = restarts + 1 /\ restarts < MaxRestarts
      /\ eventId' = 0 /\ events' = <<>> /\ listeners' = {}
      /\ queue' = [k \in Conns |-> <<>>]
      /\ push' = [p \in Pushers |-> IdlePush]
      /\ conn' = [c \in Clients |-> None]
      /\ offered' = [k \in Conns |-> {}] /\ start' = [k \in Conns |-> 0]
      /\ publisher' = <<>>
      /\ received' = [c \in Clients |-> {}]
      /\ excused' = [c \in Clients |-> 1..lastId[c]]
      /\ lastId' = lastId
  BY DEF Restart
<1>2. <<>> \in Seq(1..MaxId) /\ <<>> \in Seq(Pushers) /\ Len(<<>>) = 0 /\ 1..0 = {}
  BY EmptySeq
<1>3. TypeOK'
  <2>1. restarts' \in 0..MaxRestarts
    BY <1>1, SSEAssumption DEF TypeOK
  <2>2. \A c \in Clients : 1..lastId[c] \subseteq 1..MaxId
    BY Numbers DEF TypeOK
  <2>3. excused' \in [Clients -> SUBSET (1..MaxId)]
    BY <1>1, <2>2
  <2> QED
    BY <1>1, <1>2, <2>1, <2>3, SSEAssumption DEF TypeOK, IdlePush
<1>4. RingIsRecentHistory'
  BY <1>1, <1>2, SSEAssumption DEF RingIsRecentHistory
<1> QED
  BY <1>1, <1>2, <1>3, <1>4 DEF PendingIds, OfferedIds, OncePerConnection,
       NothingMissedWhileRegistered, IdlePush

LEMMA IInvStep == IInv /\ [Next]_vars => IInv'
<1> SUFFICES ASSUME IInv, [Next]_vars PROVE IInv'
  OBVIOUS
<1>1. CASE UNCHANGED vars
  BY <1>1 DEF vars, IInv, TypeOK, RingIsRecentHistory, PendingIds, OfferedIds,
              OncePerConnection, NothingMissedWhileRegistered
<1>2. CASE Next
  BY <1>2, PushBeginStep, PushPutStep, ConnectStep, ReceiveStep, DisconnectStep,
     UnregisterStep, RestartStep DEF Next
<1> QED
  BY <1>1, <1>2

-----------------------------------------------------------------------------
\* The values of the bus, of its clients and of its publishers keep their types,
\* and no queue outgrows its bound: register_listener's replay fits, and push
\* drops what does not.
THEOREM TypeCorrect == Spec => []TypeOK
<1>1. IInv => TypeOK
  BY DEF IInv
<1> QED
  BY IInvInit, IInvStep, <1>1, PTL DEF Spec

\* The replay buffer of push() is the window of the most recent ids, for any
\* number of publishers: the id and the slot are taken in one critical section.
THEOREM RingIsWindow == Spec => []RingIsRecentHistory
<1>1. IInv => RingIsRecentHistory
  BY DEF IInv
<1> QED
  BY IInvInit, IInvStep, <1>1, PTL DEF Spec

\* A replay and the pushes under way at the registration never both give a
\* connection the same event: the snapshot of listeners is taken with the id.
THEOREM NeverTwice == Spec => []OncePerConnection
<1>1. IInv => OncePerConnection
  BY DEF IInv
<1> QED
  BY IInvInit, IInvStep, <1>1, PTL DEF Spec

\* Nor does any event fall between them: above its floor, a registered listener
\* was offered every event or is in the snapshot of the push that has it.
THEOREM NothingMissed == Spec => []NothingMissedWhileRegistered
<1>1. IInv => NothingMissedWhileRegistered
  BY DEF IInv
<1> QED
  BY IInvInit, IInvStep, <1>1, PTL DEF Spec

-----------------------------------------------------------------------------
(* The order of one publisher's events. A thread is at one push at a time, *)
(* its latest, so what it adds to a queue is above all of its own in there *)

LatestPush ==
  \A p \in Pushers : push[p].todo # {} =>
    /\ publisher[push[p].id] = p
    /\ \A i \in push[p].id + 1 .. eventId : publisher[i] # p

InOrder(q) ==
  \A i, j \in 1..Len(q) : i < j /\ publisher[q[i]] = publisher[q[j]] => q[i] < q[j]

\* Of every queue object: one without a listener may be given events all the same.
OrderInv ==
  /\ Len(publisher) = eventId
  /\ LatestPush
  /\ \A k \in Conns : InOrder(queue[k])

-----------------------------------------------------------------------------
(* Losses. For the client of a connection nothing published is lost        *)
(* silently, and one that is not connected has its account settled.        *)

Holds(c) == received[c] \cup excused[c]
Reading(c) == conn[c] # None

Accounted(c, i) ==
  \/ i \in Holds(c)
  \/ Reading(c) /\ i \in InFlight(conn[c])
  \/ ~Reading(c) /\ i > lastId[c]

LossInv ==
  /\ \A c \in Clients : Reading(c) => conn[c] \in listeners
  /\ \A c, d \in Clients : Reading(c) /\ conn[c] = conn[d] => c = d
  /\ \A c \in Clients : \A i \in 1..eventId : Accounted(c, i)
  \* an id the server has not given again since its restart
  /\ \A c \in Clients : \A i \in 1..lastId[c] : i > eventId => i \in Holds(c)

-----------------------------------------------------------------------------
(* What the steps do to a queue, as both arguments need it                 *)

LEMMA QueueIds ==
  ASSUME IInv, NEW k \in Conns
  PROVE  /\ eventId \in Nat /\ Len(queue[k]) \in Nat
         /\ \A i \in 1..Len(queue[k]) : queue[k][i] \in 1..eventId
  BY Numbers DEF IInv, OfferedIds

LEMMA PutEffect ==
  ASSUME IInv, NEW p \in Pushers, NEW k \in Conns, PushPut(p, k)
  PROVE  /\ push[p].id \in 1..eventId /\ k \in push[p].todo /\ push[p].id \notin offered[k]
         /\ push'[p].id = push[p].id /\ push'[p].todo = push[p].todo \ {k}
         /\ \A q \in Pushers \ {p} : push'[q] = push[q]
         /\ \A j \in Conns \ {k} : queue'[j] = queue[j]
         /\ \/ /\ Len(queue'[k]) = Len(queue[k]) + 1
               /\ \A i \in 1..Len(queue[k]) : queue'[k][i] = queue[k][i]
               /\ queue'[k][Len(queue[k]) + 1] = push[p].id
            \/ /\ queue'[k] = queue[k]
               /\ \A c \in Clients : conn[c] = k => push[p].id \in excused'[c]
         /\ \A c \in Clients : excused[c] \subseteq excused'[c]
         /\ UNCHANGED <<eventId, listeners, conn, lastId, received, publisher>>
<1>1. k \in push[p].todo /\ push[p].id \in 1..eventId /\ push[p].id \notin offered[k]
  BY DEF PushPut, IInv, PendingIds, OncePerConnection
<1>2. push[p].id \in 1..MaxId /\ queue[k] \in Seq(1..MaxId)
  BY <1>1, Numbers DEF IInv
<1>3. /\ Len(Append(queue[k], push[p].id)) = Len(queue[k]) + 1
      /\ \A i \in 1..Len(queue[k]) : Append(queue[k], push[p].id)[i] = queue[k][i]
      /\ Append(queue[k], push[p].id)[Len(queue[k]) + 1] = push[p].id
  BY <1>2, AppendProperties
<1>4. /\ push'[p] = [id |-> push[p].id, todo |-> push[p].todo \ {k}]
      /\ \A q \in Pushers \ {p} : push'[q] = push[q]
  BY DEF PushPut, IInv, TypeOK
<1>5. push'[p].id = push[p].id /\ push'[p].todo = push[p].todo \ {k}
  BY <1>4
<1>6. \A j \in Conns \ {k} : queue'[j] = queue[j]
  BY DEF PushPut, IInv, TypeOK
<1>7. \/ /\ queue'[k] = Append(queue[k], push[p].id)
         /\ UNCHANGED excused
      \/ /\ queue'[k] = queue[k]
         /\ excused' = [c \in Clients |->
              IF conn[c] = k THEN excused[c] \cup {push[p].id} ELSE excused[c]]
  BY DEF PushPut, IInv, TypeOK
<1>8. \A c \in Clients : excused[c] \subseteq excused'[c]
  BY <1>7
<1>9. \/ queue'[k] = Append(queue[k], push[p].id)
      \/ /\ queue'[k] = queue[k]
         /\ \A c \in Clients : conn[c] = k => push[p].id \in excused'[c]
  BY <1>7
<1>10. UNCHANGED <<eventId, listeners, conn, lastId, received, publisher>>
  BY DEF PushPut, clients
<1> QED
  BY <1>1, <1>3, <1>4, <1>5, <1>6, <1>8, <1>9, <1>10

LEMMA ConnectEffect ==
  ASSUME IInv, NEW c \in Clients, NEW k \in Conns, Connect(c, k)
  PROVE  /\ \A i \in 1..Len(queue'[k]) : queue'[k][i] \in 1..eventId
         /\ \A i, j \in 1..Len(queue'[k]) : i < j => queue'[k][i] < queue'[k][j]
         /\ \A n \in 1..eventId : n > ReplayFrom(lastId[c])
                                  => \E i \in 1..Len(queue'[k]) : queue'[k][i] = n
         /\ \A j \in Conns \ {k} : queue'[j] = queue[j]
<1>1. EventTypes /\ lastId[c] \in 0..MaxId /\ MaxId \in Nat /\ RingIsRecentHistory
  BY TypeHasEvents, Numbers DEF IInv, TypeOK
<1>2. ReplayFrom(lastId[c]) \in Nat /\ ReplayFrom(lastId[c]) >= Floor
  BY <1>1, ReplayFromLemma
<1>3. queue'[k] = Replay(ReplayFrom(lastId[c]))
  BY DEF Connect, IInv, TypeOK
<1>4. \A j \in Conns \ {k} : queue'[j] = queue[j]
  BY DEF Connect, IInv, TypeOK
<1>5. Floor \in Int /\ eventId \in Nat
  BY <1>1, LenProperties DEF EventTypes, Floor
<1>6. \A n \in 1..eventId : n > ReplayFrom(lastId[c]) => n > Floor
  BY <1>2, <1>5
<1> DEFINE from == ReplayFrom(lastId[c])
           r    == Replay(from)
<1>7. /\ \A i \in 1..Len(r) : r[i] \in 1..eventId
      /\ \A i, j \in 1..Len(r) : i < j => r[i] < r[j]
      /\ \A n \in 1..eventId : n > from /\ n > Floor => \E i \in 1..Len(r) : r[i] = n
  <2> HIDE DEF from
  <2>1. from \in Nat
    BY <1>2 DEF from
  <2> QED
    BY <1>1, <2>1, ReplayLemma
<1>8. queue'[k] = r
  BY <1>3
<1> HIDE DEF r
<1> QED
  BY <1>4, <1>6, <1>7, <1>8

LEMMA ReceiveEffect ==
  ASSUME IInv, NEW c \in Clients, Receive(c)
  PROVE  /\ conn[c] \in Conns
         /\ Len(queue[conn[c]]) \in Nat /\ Len(queue[conn[c]]) >= 1
         /\ Head(queue[conn[c]]) = queue[conn[c]][1]
         /\ Len(queue'[conn[c]]) = Len(queue[conn[c]]) - 1
         /\ \A i \in 1..Len(queue'[conn[c]]) : /\ i + 1 \in 1..Len(queue[conn[c]])
                                               /\ queue'[conn[c]][i] = queue[conn[c]][i + 1]
         /\ \A j \in Conns \ {conn[c]} : queue'[j] = queue[j]
<1>1. conn[c] \in Conns /\ queue[conn[c]] # <<>>
  BY DEF Receive, IInv, TypeOK
<1>2. queue[conn[c]] \in Seq(1..MaxId) /\ Len(queue[conn[c]]) \in Nat
  BY <1>1, Numbers DEF IInv
<1>3. Len(queue[conn[c]]) >= 1 /\ Head(queue[conn[c]]) = queue[conn[c]][1]
  BY <1>1, <1>2, EmptySeq
<1>4. /\ Len(Tail(queue[conn[c]])) = Len(queue[conn[c]]) - 1
      /\ \A i \in 1..Len(Tail(queue[conn[c]])) :
           Tail(queue[conn[c]])[i] = queue[conn[c]][i + 1]
  BY <1>1, <1>2, HeadTailProperties
<1>5. /\ queue'[conn[c]] = Tail(queue[conn[c]])
      /\ \A j \in Conns \ {conn[c]} : queue'[j] = queue[j]
  BY <1>1 DEF Receive, IInv, TypeOK
<1>6. \A i \in 1..Len(queue'[conn[c]]) : i + 1 \in 1..Len(queue[conn[c]])
  BY <1>2, <1>4, <1>5
<1> QED
  BY <1>1, <1>2, <1>3, <1>4, <1>5, <1>6

-----------------------------------------------------------------------------
LEMMA OrderPushBegin ==
  ASSUME IInv, OrderInv, NEW p \in Pushers, PushBegin(p)
  PROVE  OrderInv'
<1>1. /\ eventId \in Nat /\ eventId' = eventId + 1 /\ publisher' = Append(publisher, p)
      /\ push' = [push EXCEPT ![p] = [id |-> eventId + 1, todo |-> listeners]]
      /\ UNCHANGED queue
  BY Numbers DEF PushBegin, IInv
<1>2. publisher \in Seq(Pushers) /\ Len(publisher) = eventId
  BY DEF IInv, TypeOK, OrderInv
<1>3. /\ Len(publisher') = eventId + 1 /\ publisher'[eventId + 1] = p
      /\ \A i \in 1..eventId : publisher'[i] = publisher[i]
  BY <1>1, <1>2, AppendProperties
<1>4. push'[p].id = eventId + 1 /\ \A q \in Pushers \ {p} : push'[q] = push[q]
  BY <1>1 DEF IInv, TypeOK
<1>5. LatestPush'
  <2> SUFFICES ASSUME NEW q \in Pushers, push'[q].todo # {}
               PROVE  /\ publisher'[push'[q].id] = q
                      /\ \A i \in push'[q].id + 1 .. eventId + 1 : publisher'[i] # q
    BY <1>1 DEF LatestPush
  <2>1. CASE q = p
    BY <1>1, <1>3, <1>4, <2>1
  <2>2. CASE q # p
    <3>1. /\ push'[q] = push[q] /\ push[q].id \in 1..eventId /\ publisher[push[q].id] = q
          /\ \A i \in push[q].id + 1 .. eventId : publisher[i] # q
      BY <1>4, <2>2 DEF IInv, PendingIds, OrderInv, LatestPush
    <3>2. ASSUME NEW i \in push[q].id + 1 .. eventId + 1 PROVE publisher'[i] # q
      <4>1. CASE i = eventId + 1
        BY <1>3, <2>2, <4>1
      <4>2. CASE i # eventId + 1
        <5>1. i \in push[q].id + 1 .. eventId /\ i \in 1..eventId
          BY <1>1, <3>1, <3>2, <4>2
        <5> QED
          BY <1>3, <3>1, <5>1
      <4> QED
        BY <4>1, <4>2
    <3> QED
      BY <1>3, <3>1, <3>2
  <2> QED
    BY <2>1, <2>2
<1>6. \A k \in Conns : InOrder(queue[k])'
  <2> SUFFICES ASSUME NEW k \in Conns PROVE InOrder(queue[k])'
    OBVIOUS
  <2>1. \A i \in 1..Len(queue[k]) : publisher'[queue[k][i]] = publisher[queue[k][i]]
    BY <1>3, QueueIds
  <2>2. InOrder(queue[k])
    BY DEF OrderInv
  <2> SUFFICES ASSUME NEW i \in 1..Len(queue[k]), NEW j \in 1..Len(queue[k]), i < j,
                      publisher'[queue[k][i]] = publisher'[queue[k][j]]
               PROVE  queue[k][i] < queue[k][j]
    BY <1>1 DEF InOrder
  <2>3. publisher[queue[k][i]] = publisher[queue[k][j]]
    BY <2>1
  <2> QED
    BY <2>2, <2>3 DEF InOrder
<1> QED
  BY <1>1, <1>3, <1>5, <1>6 DEF OrderInv

LEMMA OrderPushPut ==
  ASSUME IInv, OrderInv, NEW p \in Pushers, NEW k \in Conns, PushPut(p, k)
  PROVE  OrderInv'
<1>1. UNCHANGED <<eventId, publisher>> /\ Len(publisher) = eventId
  BY PutEffect DEF OrderInv
<1>2. LatestPush'
  <2> SUFFICES ASSUME NEW q \in Pushers, push'[q].todo # {}
               PROVE  /\ publisher[push'[q].id] = q
                      /\ \A i \in push'[q].id + 1 .. eventId : publisher[i] # q
    BY <1>1 DEF LatestPush
  <2>1. push[q].todo # {} /\ push'[q].id = push[q].id
    <3>1. CASE q = p
      <4>1. push'[p].id = push[p].id /\ push'[p].todo = push[p].todo \ {k}
        BY PutEffect
      <4> QED
        BY <3>1, <4>1
    <3>2. CASE q # p
      <4>1. push'[q] = push[q]
        BY <3>2, PutEffect
      <4> QED
        BY <4>1
    <3> QED
      BY <3>1, <3>2
  <2> QED
    BY <2>1 DEF OrderInv, LatestPush
<1>3. InOrder(queue[k])'
  <2>1. CASE queue'[k] = queue[k]
    BY <1>1, <2>1 DEF OrderInv, InOrder
  <2>2. CASE queue'[k] # queue[k]
    <3> DEFINE n == Len(queue[k])
    <3>1. /\ n \in Nat /\ eventId \in Nat
          /\ \A i \in 1..n : queue[k][i] \in 1..eventId /\ queue[k][i] \in offered[k]
      BY QueueIds DEF IInv, OfferedIds
    <3>2. /\ Len(queue'[k]) = n + 1 /\ \A i \in 1..n : queue'[k][i] = queue[k][i]
          /\ queue'[k][n + 1] = push[p].id
      BY <2>2, PutEffect
    <3>3. /\ push[p].id \in 1..eventId /\ push[p].id \notin offered[k]
          /\ publisher[push[p].id] = p
          /\ \A i \in push[p].id + 1 .. eventId : publisher[i] # p
      BY PutEffect DEF OrderInv, LatestPush
    <3> HIDE DEF n
    <3> SUFFICES ASSUME NEW a \in 1..n + 1, NEW b \in 1..n + 1, a < b,
                        publisher[queue'[k][a]] = publisher[queue'[k][b]]
                 PROVE  queue'[k][a] < queue'[k][b]
      BY <1>1, <3>2 DEF InOrder
    <3>4. a \in 1..n
      BY <3>1
    <3>5. CASE b \in 1..n
      BY <3>2, <3>4, <3>5 DEF OrderInv, InOrder, n
    <3>6. CASE b = n + 1
      <4>1. publisher[queue[k][a]] = p /\ queue[k][a] # push[p].id
            /\ queue[k][a] \in 1..eventId
        BY <3>1, <3>2, <3>3, <3>4, <3>6
      <4>2. ~(queue[k][a] \in push[p].id + 1 .. eventId)
        BY <3>3, <4>1
      <4>3. queue[k][a] < push[p].id
        BY <3>1, <3>3, <4>1, <4>2
      <4> QED
        BY <3>2, <3>4, <3>6, <4>3
    <3> QED
      BY <3>1, <3>5, <3>6
  <2> QED
    BY <2>1, <2>2
<1>4. ASSUME NEW j \in Conns \ {k} PROVE InOrder(queue[j])'
  <2>1. queue'[j] = queue[j]
    BY PutEffect
  <2>2. InOrder(queue[j])
    BY DEF OrderInv
  <2> QED
    BY <1>1, <2>1, <2>2 DEF InOrder
<1> QED
  BY <1>1, <1>2, <1>3, <1>4 DEF OrderInv

LEMMA OrderConnect ==
  ASSUME IInv, OrderInv, NEW c \in Clients, NEW k \in Conns, Connect(c, k)
  PROVE  OrderInv'
<1>1. UNCHANGED <<eventId, publisher, push>>
  BY DEF Connect
<1>2. Len(publisher') = eventId' /\ LatestPush'
  BY <1>1 DEF OrderInv, LatestPush
<1>3. InOrder(queue[k])'
  BY ConnectEffect DEF InOrder
<1>4. ASSUME NEW j \in Conns \ {k} PROVE InOrder(queue[j])'
  <2>1. queue'[j] = queue[j]
    BY ConnectEffect
  <2>2. InOrder(queue[j])
    BY DEF OrderInv
  <2> QED
    BY <1>1, <2>1, <2>2 DEF InOrder
<1> QED
  BY <1>2, <1>3, <1>4 DEF OrderInv

LEMMA OrderReceive ==
  ASSUME IInv, OrderInv, NEW c \in Clients, Receive(c)
  PROVE  OrderInv'
<1>0. PICK k \in Conns : k = conn[c]
  BY ReceiveEffect
<1>1. UNCHANGED <<eventId, publisher, push>>
  BY DEF Receive
<1>2. Len(publisher') = eventId' /\ LatestPush'
  BY <1>1 DEF OrderInv, LatestPush
<1>3. /\ Len(queue[k]) \in Nat /\ Len(queue'[k]) = Len(queue[k]) - 1
      /\ \A i \in 1..Len(queue'[k]) :
           i + 1 \in 1..Len(queue[k]) /\ queue'[k][i] = queue[k][i + 1]
      /\ \A j \in Conns \ {k} : queue'[j] = queue[j]
  BY <1>0, ReceiveEffect
<1>4. InOrder(queue[k])'
  <2> SUFFICES ASSUME NEW i \in 1..Len(queue'[k]), NEW j \in 1..Len(queue'[k]), i < j,
                      publisher[queue'[k][i]] = publisher[queue'[k][j]]
               PROVE  queue'[k][i] < queue'[k][j]
    BY <1>1 DEF InOrder
  <2>1. /\ i + 1 \in 1..Len(queue[k]) /\ j + 1 \in 1..Len(queue[k]) /\ i + 1 < j + 1
        /\ queue'[k][i] = queue[k][i + 1] /\ queue'[k][j] = queue[k][j + 1]
    BY <1>3
  <2> QED
    BY <1>3, <2>1 DEF OrderInv, InOrder
<1>5. ASSUME NEW j \in Conns \ {k} PROVE InOrder(queue[j])'
  <2>1. queue'[j] = queue[j]
    BY <1>3
  <2>2. InOrder(queue[j])
    BY DEF OrderInv
  <2> QED
    BY <1>1, <2>1, <2>2 DEF InOrder
<1> QED
  BY <1>2, <1>4, <1>5 DEF OrderInv

LEMMA OrderUnregister ==
  ASSUME IInv, OrderInv, NEW k \in Conns, Unregister(k)
  PROVE  OrderInv'
<1>1. UNCHANGED <<eventId, publisher, push>> /\ queue' = [queue EXCEPT ![k] = <<>>]
  BY DEF Unregister
<1>2. Len(publisher') = eventId' /\ LatestPush'
  BY <1>1 DEF OrderInv, LatestPush
<1>3. Len(<<>>) = 0 /\ 1..0 = {}
  BY EmptySeq
<1>4. ASSUME NEW j \in Conns PROVE InOrder(queue[j])'
  <2>1. CASE j = k
    <3>1. queue'[j] = <<>>
      BY <1>1, <2>1 DEF IInv, TypeOK
    <3> QED
      BY <1>3, <3>1 DEF InOrder
  <2>2. CASE j # k
    <3>1. queue'[j] = queue[j] /\ InOrder(queue[j])
      BY <1>1, <2>2 DEF OrderInv, IInv, TypeOK
    <3> QED
      BY <1>1, <3>1 DEF InOrder
  <2> QED
    BY <2>1, <2>2
<1> QED
  BY <1>2, <1>4 DEF OrderInv

\* With nothing published and no push under way there is nothing to order.
LEMMA OrderAtRest ==
  /\ Init => OrderInv
  /\ Restart => OrderInv'
<1>1. Len(<<>>) = 0 /\ 1..0 = {}
  BY EmptySeq
<1>2. Init => OrderInv
  BY <1>1 DEF Init, OrderInv, LatestPush, InOrder, IdlePush
<1>3. Restart => OrderInv'
  BY <1>1 DEF Restart, OrderInv, LatestPush, InOrder, IdlePush
<1> QED
  BY <1>2, <1>3

LEMMA OrderStep == IInv /\ OrderInv /\ [Next]_vars => OrderInv'
<1> SUFFICES ASSUME IInv, OrderInv, [Next]_vars PROVE OrderInv'
  OBVIOUS
<1>1. CASE UNCHANGED vars \/ \E c \in Clients : Disconnect(c)
  <2>1. UNCHANGED <<eventId, publisher, push, queue>>
    BY <1>1 DEF vars, Disconnect, bus
  <2> QED
    BY <2>1 DEF OrderInv, LatestPush, InOrder
<1> QED
  BY <1>1, OrderPushBegin, OrderPushPut, OrderConnect, OrderReceive, OrderUnregister,
     OrderAtRest DEF Next

\* Publishers overtake each other between the lock and the queues, but what one thread
\* pushes arrives in its order on every connection.
THEOREM OwnOrderIsKept == Spec => []PublisherOrderKept
<1>1. IInv /\ OrderInv => PublisherOrderKept
  BY DEF IInv, TypeOK, OrderInv, InOrder, PublisherOrderKept
<1> QED
  BY IInvInit, IInvStep, OrderAtRest, OrderStep, <1>1, PTL DEF Spec

-----------------------------------------------------------------------------
LEMMA LossPushBegin ==
  ASSUME IInv, LossInv, NEW p \in Pushers, PushBegin(p)
  PROVE  LossInv'
<1>1. /\ eventId \in Nat /\ eventId' = eventId + 1 /\ push[p].todo = {}
      /\ UNCHANGED <<listeners, queue, conn, lastId, received, excused>>
  BY Numbers DEF PushBegin, IInv, clients
<1>2. push'[p] = [id |-> eventId + 1, todo |-> listeners]
      /\ \A q \in Pushers \ {p} : push'[q] = push[q]
  BY DEF PushBegin, IInv, TypeOK
<1>3. push'[p].id = eventId + 1 /\ push'[p].todo = listeners
  BY <1>2
<1>6. \A c \in Clients : Holds(c)' = Holds(c) /\ (Reading(c)' <=> Reading(c))
  BY <1>1 DEF Holds, Reading
<1>7. ASSUME NEW c \in Clients, NEW i \in 1..eventId + 1
      PROVE  Accounted(c, i)'
  <2>1. CASE i \in 1..eventId
    <3>1. Accounted(c, i)
      BY <2>1 DEF LossInv
    <3>2. Reading(c) => conn[c] \in Conns
      BY DEF Reading, IInv, TypeOK
    <3>3. Reading(c) /\ i \in InFlight(conn[c]) => i \in InFlight(conn[c])'
      BY <1>1, <1>2, <3>2 DEF InFlight
    <3> QED
      BY <1>1, <1>6, <3>1, <3>3 DEF Accounted
  <2>2. CASE i = eventId + 1
    <3>1. CASE Reading(c)
      <4>1. conn[c] \in listeners
        BY <3>1 DEF LossInv
      <4>2. i \in InFlight(conn[c])'
        BY <1>1, <1>3, <2>2, <4>1 DEF InFlight
      <4> QED
        BY <1>6, <3>1, <4>2 DEF Accounted
    <3>2. CASE ~Reading(c) /\ i > lastId[c]
      BY <1>1, <1>6, <3>2 DEF Accounted
    <3>3. CASE ~Reading(c) /\ ~(i > lastId[c])
      <4>1. i \in 1..lastId[c] /\ i > eventId
        BY <1>1, <2>2, <3>3 DEF IInv, TypeOK
      <4>2. i \in Holds(c)
        BY <4>1 DEF LossInv
      <4> QED
        BY <1>6, <4>2 DEF Accounted
    <3> QED
      BY <3>1, <3>2, <3>3
  <2> QED
    BY <1>1, <2>1, <2>2
<1>8. ASSUME NEW c \in Clients, NEW i \in 1..lastId[c], i > eventId + 1
      PROVE  i \in Holds(c)
  <2>1. i > eventId
    BY <1>1, <1>8
  <2> QED
    BY <2>1 DEF LossInv
<1>9. /\ \A c \in Clients : Reading(c) => conn[c] \in listeners
      /\ \A c, d \in Clients : Reading(c) /\ conn[c] = conn[d] => c = d
  BY DEF LossInv
<1>10. \A c \in Clients : \A i \in 1..eventId' : Accounted(c, i)'
  BY <1>1, <1>7
<1>11. \A c \in Clients : \A i \in 1..lastId'[c] : i > eventId' => i \in Holds(c)'
  BY <1>1, <1>6, <1>8
<1> QED
  BY <1>1, <1>6, <1>9, <1>10, <1>11 DEF LossInv

LEMMA LossPushPut ==
  ASSUME IInv, LossInv, NEW p \in Pushers, NEW k \in Conns, PushPut(p, k)
  PROVE  LossInv'
<1>1. UNCHANGED <<eventId, listeners, conn, lastId, received>>
  BY PutEffect
<1>2. \A q \in Pushers, j \in Conns : j \in push[q].todo /\ ~(q = p /\ j = k)
                                      => j \in push'[q].todo /\ push'[q].id = push[q].id
  <2> SUFFICES ASSUME NEW q \in Pushers, NEW j \in Conns, j \in push[q].todo,
                      ~(q = p /\ j = k)
               PROVE  j \in push'[q].todo /\ push'[q].id = push[q].id
    OBVIOUS
  <2>1. CASE q = p
    <3>1. push'[p].id = push[p].id /\ push'[p].todo = push[p].todo \ {k}
      BY PutEffect
    <3> QED
      BY <2>1, <3>1
  <2>2. CASE q # p
    <3>1. push'[q] = push[q]
      BY <2>2, PutEffect
    <3> QED
      BY <3>1
  <2> QED
    BY <2>1, <2>2
\* What a queue held, it holds.
<1>3. ASSUME NEW j \in Conns, NEW a \in 1..Len(queue[j])
      PROVE  \E b \in 1..Len(queue'[j]) : queue'[j][b] = queue[j][a]
  <2>1. CASE queue'[j] = queue[j]
    BY <2>1
  <2>2. CASE queue'[j] # queue[j]
    <3>1. j = k
      BY <2>2, PutEffect
    <3>2. /\ Len(queue'[k]) = Len(queue[k]) + 1
          /\ \A i \in 1..Len(queue[k]) : queue'[k][i] = queue[k][i]
      BY <2>2, <3>1, PutEffect
    <3>3. Len(queue[k]) \in Nat
      BY QueueIds
    <3>4. a \in 1..Len(queue'[k]) /\ queue'[k][a] = queue[k][a]
      BY <3>1, <3>2, <3>3
    <3> QED
      BY <3>1, <3>4
  <2> QED
    BY <2>1, <2>2
<1>4. ASSUME NEW j \in Conns, NEW i, i \in InFlight(j), ~(j = k /\ i = push[p].id)
      PROVE  i \in InFlight(j)'
  <2>1. CASE i \in {queue[j][a] : a \in 1..Len(queue[j])}
    BY <1>3, <2>1 DEF InFlight
  <2>2. CASE \E q \in Pushers : j \in push[q].todo /\ i = push[q].id
    <3>1. PICK q \in Pushers : j \in push[q].todo /\ i = push[q].id
      BY <2>2
    <3>2. j \in push'[q].todo /\ push'[q].id = i
      BY <1>2, <1>4, <3>1
    <3> QED
      BY <3>2 DEF InFlight
  <2> QED
    BY <1>4, <2>1, <2>2 DEF InFlight
\* The event put is in the queue, or noted as lost by the client that reads it.
<1>5. \/ push[p].id \in InFlight(k)'
      \/ \A c \in Clients : conn[c] = k => push[p].id \in excused'[c]
  <2>1. CASE queue'[k] = queue[k]
    BY <2>1, PutEffect DEF InFlight
  <2>2. CASE queue'[k] # queue[k]
    <3>1. Len(queue'[k]) = Len(queue[k]) + 1 /\ queue'[k][Len(queue[k]) + 1] = push[p].id
      BY <2>2, PutEffect
    <3>2. Len(queue[k]) + 1 \in 1..Len(queue'[k])
      BY <3>1, QueueIds
    <3> QED
      BY <3>1, <3>2 DEF InFlight
  <2> QED
    BY <2>1, <2>2
<1>6. \A c \in Clients : excused[c] \subseteq excused'[c]
  BY PutEffect
<1>7. \A c \in Clients : Holds(c) \subseteq Holds(c)' /\ (Reading(c)' <=> Reading(c))
  BY <1>1, <1>6 DEF Holds, Reading
<1>8. ASSUME NEW c \in Clients, NEW i \in 1..eventId
      PROVE  Accounted(c, i)'
  <2>1. Accounted(c, i)
    BY DEF LossInv
  <2>2. CASE Reading(c) /\ i \in InFlight(conn[c])
    <3>1. PICK j \in Conns : j = conn[c]
      BY <2>2 DEF Reading, IInv, TypeOK
    <3>2. conn'[c] = j
      BY <1>1, <3>1
    <3>3. CASE j = k /\ i = push[p].id
      <4>1. i \in InFlight(j)' \/ i \in excused'[c]
        BY <1>5, <3>1, <3>3
      <4> QED
        BY <1>7, <2>2, <3>2, <4>1 DEF Accounted, Holds
    <3>4. CASE ~(j = k /\ i = push[p].id)
      <4>1. i \in InFlight(j)'
        BY <1>4, <2>2, <3>1, <3>4
      <4> QED
        BY <1>7, <2>2, <3>2, <4>1 DEF Accounted
    <3> QED
      BY <3>3, <3>4
  <2>3. CASE i \in Holds(c) \/ (~Reading(c) /\ i > lastId[c])
    BY <1>1, <1>7, <2>3 DEF Accounted
  <2> QED
    BY <2>1, <2>2, <2>3 DEF Accounted
<1>9. /\ \A c \in Clients : Reading(c) => conn[c] \in listeners
      /\ \A c, d \in Clients : Reading(c) /\ conn[c] = conn[d] => c = d
      /\ \A c \in Clients : \A i \in 1..lastId[c] : i > eventId => i \in Holds(c)
  BY DEF LossInv
<1>10. \A c \in Clients : \A i \in 1..eventId' : Accounted(c, i)'
  BY <1>1, <1>8
<1> QED
  BY <1>1, <1>7, <1>9, <1>10 DEF LossInv

\* What lies between a client's id and the start of its replay is out of its reach.
LEMMA SkippedIsOutOfReach ==
  ASSUME IInv, NEW c \in Clients, NEW i \in 1..eventId,
         i > lastId[c], i <= ReplayFrom(lastId[c])
  PROVE  i \in OutOfReach(c)
<1>1. /\ eventId \in Nat /\ lastId[c] \in Nat /\ Len(events) \in Nat
      /\ RingIsRecentHistory /\ events \in Seq(1..MaxId)
  BY Numbers, LenProperties DEF IInv, TypeOK
<1>2. CASE lastId[c] = 0
  BY <1>2 DEF OutOfReach
<1>3. CASE lastId[c] # 0
  <2>1. events # <<>> /\ lastId[c] < events[1]
    BY <1>1, <1>3 DEF ReplayFrom
  <2>2. 1 \in 1..Len(events)
    BY <1>1, <2>1, EmptySeq
  <2>3. events[1] = eventId - Len(events) + 1
    BY <2>2 DEF IInv, RingIsRecentHistory
  <2>4. i <= eventId - Len(events)
    BY <1>1, <1>3, <2>1, <2>3 DEF ReplayFrom
  <2> QED
    BY <1>1, <1>3, <2>4 DEF OutOfReach
<1> QED
  BY <1>2, <1>3

\* A client whose connection a step leaves alone keeps its account.
LEMMA AccountKept ==
  ASSUME IInv, NEW c \in Clients, NEW i, Accounted(c, i),
         Holds(c) \subseteq Holds(c)', conn'[c] = conn[c], lastId'[c] = lastId[c],
         Reading(c) => queue'[conn[c]] = queue[conn[c]], UNCHANGED push
  PROVE  Accounted(c, i)'
<1>1. Reading(c)' <=> Reading(c)
  BY DEF Reading
<1>2. CASE Reading(c) /\ i \in InFlight(conn[c])
  <2>1. PICK k \in Conns : k = conn[c]
    BY <1>2 DEF Reading, IInv, TypeOK
  <2>2. i \in InFlight(k)'
    BY <1>2, <2>1 DEF InFlight
  <2> QED
    BY <1>1, <1>2, <2>1, <2>2 DEF Accounted
<1>3. CASE i \in Holds(c) \/ (~Reading(c) /\ i > lastId[c])
  BY <1>1, <1>3 DEF Accounted
<1> QED
  BY <1>2, <1>3 DEF Accounted

LEMMA LossConnect ==
  ASSUME IInv, LossInv, NEW c \in Clients, NEW k \in Conns, Connect(c, k)
  PROVE  LossInv'
<1>1. /\ ~Reading(c) /\ k \notin listeners /\ (\A d \in Clients : conn[d] # k) /\ k # None
      /\ listeners' = listeners \cup {k}
      /\ UNCHANGED <<eventId, push, lastId, received>>
  BY SSEAssumption DEF Connect, Unused, Reading
<1>2. conn'[c] = k /\ \A d \in Clients \ {c} : conn'[d] = conn[d]
  BY DEF Connect, IInv, TypeOK
<1>3. /\ excused'[c] = excused[c] \cup OutOfReach(c)
      /\ \A d \in Clients \ {c} : excused'[d] = excused[d]
  BY DEF Connect, IInv, TypeOK
<1>4. /\ \A d \in Clients : Holds(d) \subseteq Holds(d)'
      /\ OutOfReach(c) \subseteq Holds(c)'
  BY <1>1, <1>3 DEF Holds
<1>5. Reading(c)' /\ \A d \in Clients \ {c} : Reading(d)' <=> Reading(d)
  BY <1>1, <1>2 DEF Reading
<1>6. \A d \in Clients : Reading(d)' => conn'[d] \in listeners'
  BY <1>1, <1>2, <1>5 DEF LossInv
<1>7. \A d, e \in Clients : Reading(d)' /\ conn'[d] = conn'[e] => d = e
  BY <1>1, <1>2, <1>5 DEF LossInv
<1>8. \A d \in Clients : \A i \in 1..lastId'[d] : i > eventId' => i \in Holds(d)'
  BY <1>1, <1>4 DEF LossInv
<1>9. ASSUME NEW d \in Clients \ {c}, NEW i \in 1..eventId PROVE Accounted(d, i)'
  <2>1. Accounted(d, i)
    BY DEF LossInv
  <2>2. Reading(d) => conn[d] \in Conns \ {k}
    BY <1>1 DEF Reading, IInv, TypeOK
  <2>3. Reading(d) => queue'[conn[d]] = queue[conn[d]]
    BY <2>2, ConnectEffect
  <2> QED
    BY <1>1, <1>2, <1>4, <2>1, <2>3, AccountKept
<1>10. ASSUME NEW i \in 1..eventId PROVE Accounted(c, i)'
  <2>1. lastId[c] \in Nat /\ ReplayFrom(lastId[c]) \in Nat /\ i \in Nat
    BY TypeHasEvents, ReplayFromLemma, Numbers DEF IInv, TypeOK
  <2>2. CASE i <= lastId[c]
    <3>1. Accounted(c, i)
      BY DEF LossInv
    <3>2. i \in Holds(c)
      BY <1>1, <2>1, <2>2, <3>1 DEF Accounted
    <3> QED
      BY <1>4, <3>2 DEF Accounted
  <2>3. CASE i > lastId[c] /\ i <= ReplayFrom(lastId[c])
    <3>1. i \in Holds(c)'
      BY <1>4, <2>3, SkippedIsOutOfReach
    <3> QED
      BY <3>1 DEF Accounted
  <2>4. CASE i > ReplayFrom(lastId[c])
    <3>1. \E a \in 1..Len(queue'[k]) : queue'[k][a] = i
      BY <2>4, ConnectEffect
    <3>2. i \in InFlight(k)'
      BY <3>1 DEF InFlight
    <3> QED
      BY <1>2, <1>5, <3>2 DEF Accounted
  <2> QED
    BY <2>1, <2>2, <2>3, <2>4
<1> QED
  BY <1>1, <1>6, <1>7, <1>8, <1>9, <1>10 DEF LossInv

LEMMA LossReceive ==
  ASSUME IInv, LossInv, NEW c \in Clients, Receive(c)
  PROVE  LossInv'
<1>1. PICK k \in Conns : k = conn[c]
  BY ReceiveEffect
<1>2. Reading(c) /\ UNCHANGED <<eventId, listeners, push, conn, excused>>
  BY DEF Receive, Reading
<1>3. /\ Len(queue[k]) \in Nat /\ Len(queue[k]) >= 1 /\ Head(queue[k]) = queue[k][1]
      /\ Len(queue'[k]) = Len(queue[k]) - 1
      /\ \A i \in 1..Len(queue'[k]) : queue'[k][i] = queue[k][i + 1]
      /\ \A j \in Conns \ {k} : queue'[j] = queue[j]
  BY <1>1, ReceiveEffect
<1>4. eventId \in Nat /\ Head(queue[k]) \in 1..eventId
  BY <1>3, QueueIds
<1>5. /\ received'[c] = received[c] \cup {Head(queue[k])}
      /\ \A d \in Clients \ {c} : received'[d] = received[d]
  BY <1>1 DEF Receive, IInv, TypeOK
<1>6. /\ lastId'[c] \in {lastId[c], Head(queue[k])}
      /\ \A d \in Clients \ {c} : lastId'[d] = lastId[d]
  BY <1>1 DEF Receive, IInv, TypeOK
<1>7. /\ \A d \in Clients : Holds(d) \subseteq Holds(d)' /\ (Reading(d)' <=> Reading(d))
      /\ Head(queue[k]) \in Holds(c)'
  BY <1>2, <1>5 DEF Holds, Reading
<1>8. ASSUME NEW d \in Clients \ {c}, NEW i \in 1..eventId PROVE Accounted(d, i)'
  <2>1. Accounted(d, i)
    BY DEF LossInv
  <2>2. Reading(d) => conn[d] \in Conns \ {k}
    BY <1>1, <1>2 DEF LossInv, Reading, IInv, TypeOK
  <2>3. Reading(d) => queue'[conn[d]] = queue[conn[d]]
    BY <1>3, <2>2
  <2> QED
    BY <1>2, <1>6, <1>7, <2>1, <2>3, AccountKept
<1>9. ASSUME NEW i \in 1..eventId PROVE Accounted(c, i)'
  <2>1. i \in Holds(c) \/ i \in InFlight(k)
    BY <1>1, <1>2 DEF LossInv, Accounted
  <2>2. CASE i \in Holds(c) \/ i = Head(queue[k])
    BY <1>7, <2>2 DEF Accounted
  <2>3. CASE i \in InFlight(k) /\ i # Head(queue[k])
    <3>1. ASSUME \E a \in 1..Len(queue[k]) : i = queue[k][a]
          PROVE  i \in InFlight(k)'
      <4>1. PICK a \in 1..Len(queue[k]) : i = queue[k][a]
        BY <3>1
      <4>2. a # 1 /\ a \in Nat
        BY <1>3, <2>3, <4>1
      <4>3. a - 1 \in 1..Len(queue'[k]) /\ (a - 1) + 1 = a
        BY <1>3, <4>1, <4>2
      <4>4. queue'[k][a - 1] = i
        BY <1>3, <4>1, <4>3
      <4> QED
        BY <4>3, <4>4 DEF InFlight
    <3>2. ASSUME i \in {push[p].id : p \in {q \in Pushers : k \in push[q].todo}}
          PROVE  i \in InFlight(k)'
      BY <1>2, <3>2 DEF InFlight
    <3>3. i \in InFlight(k)'
      BY <2>3, <3>1, <3>2 DEF InFlight
    <3> QED
      BY <1>1, <1>2, <1>7, <3>3 DEF Accounted
  <2> QED
    BY <2>1, <2>2, <2>3
<1>10. ASSUME NEW d \in Clients, NEW i \in 1..lastId'[d], i > eventId
       PROVE  i \in Holds(d)'
  <2>1. i \in 1..lastId[d]
    BY <1>4, <1>6, <1>10
  <2> QED
    BY <1>7, <1>10, <2>1 DEF LossInv
<1>11. /\ \A d \in Clients : Reading(d) => conn[d] \in listeners
       /\ \A d, e \in Clients : Reading(d) /\ conn[d] = conn[e] => d = e
  BY DEF LossInv
<1> QED
  BY <1>2, <1>7, <1>8, <1>9, <1>10, <1>11 DEF LossInv

LEMMA LossDisconnect ==
  ASSUME IInv, LossInv, NEW c \in Clients, Disconnect(c)
  PROVE  LossInv'
<1>1. /\ Reading(c) /\ UNCHANGED <<eventId, listeners, queue, push, lastId, received>>
      /\ eventId \in Nat
  BY Numbers DEF Disconnect, Reading, bus, IInv
<1>2. conn'[c] = None /\ \A d \in Clients \ {c} : conn'[d] = conn[d]
  BY DEF Disconnect, IInv, TypeOK
<1>3. /\ excused'[c] = excused[c] \cup {i \in InFlight(conn[c]) : i <= lastId[c]}
      /\ \A d \in Clients \ {c} : excused'[d] = excused[d]
  BY DEF Disconnect, IInv, TypeOK
<1>4. \A d \in Clients : Holds(d) \subseteq Holds(d)'
  BY <1>1, <1>3 DEF Holds
<1>5. ~Reading(c)' /\ \A d \in Clients \ {c} : Reading(d)' <=> Reading(d)
  BY <1>2 DEF Reading
<1>6. ASSUME NEW d \in Clients \ {c}, NEW i \in 1..eventId PROVE Accounted(d, i)'
  <2>1. Accounted(d, i)
    BY DEF LossInv
  <2> QED
    BY <1>1, <1>2, <1>4, <2>1, AccountKept
<1>7. ASSUME NEW i \in 1..eventId PROVE Accounted(c, i)'
  <2>1. i \in Holds(c) \/ i \in InFlight(conn[c])
    BY <1>1 DEF LossInv, Accounted
  <2>2. CASE i \in Holds(c)
    BY <1>4, <2>2 DEF Accounted
  <2>3. CASE i \in InFlight(conn[c]) /\ i <= lastId[c]
    BY <1>3, <2>3 DEF Accounted, Holds
  <2>4. CASE i > lastId[c]
    BY <1>1, <1>5, <2>4 DEF Accounted
  <2>5. lastId[c] \in Nat /\ i \in Nat
    BY <1>1, Numbers DEF IInv, TypeOK
  <2> QED
    BY <2>1, <2>2, <2>3, <2>4, <2>5
<1>8. /\ \A d \in Clients : Reading(d)' => conn'[d] \in listeners'
      /\ \A d, e \in Clients : Reading(d)' /\ conn'[d] = conn'[e] => d = e
      /\ \A d \in Clients : \A i \in 1..lastId'[d] : i > eventId' => i \in Holds(d)'
  BY <1>1, <1>2, <1>4, <1>5 DEF LossInv, Reading
<1> QED
  BY <1>1, <1>6, <1>7, <1>8 DEF LossInv

LEMMA LossUnregister ==
  ASSUME IInv, LossInv, NEW k \in Conns, Unregister(k)
  PROVE  LossInv'
<1>1. /\ (\A c \in Clients : conn[c] # k) /\ listeners' = listeners \ {k}
      /\ UNCHANGED <<eventId, push, conn, lastId, received, excused>>
  BY DEF Unregister, clients
<1>2. \A j \in Conns \ {k} : queue'[j] = queue[j]
  BY DEF Unregister, IInv, TypeOK
<1>3. \A c \in Clients : Holds(c)' = Holds(c) /\ (Reading(c)' <=> Reading(c))
  BY <1>1 DEF Holds, Reading
<1>4. ASSUME NEW c \in Clients, NEW i \in 1..eventId PROVE Accounted(c, i)'
  <2>1. Accounted(c, i)
    BY DEF LossInv
  <2>2. Reading(c) => conn[c] \in Conns \ {k}
    BY <1>1 DEF Reading, IInv, TypeOK
  <2>3. Reading(c) => queue'[conn[c]] = queue[conn[c]]
    BY <1>2, <2>2
  <2> QED
    BY <1>1, <1>3, <2>1, <2>3, AccountKept
<1>5. /\ \A c \in Clients : Reading(c)' => conn'[c] \in listeners'
      /\ \A c, d \in Clients : Reading(c)' /\ conn'[c] = conn'[d] => c = d
      /\ \A c \in Clients : \A i \in 1..lastId'[c] : i > eventId' => i \in Holds(c)'
  BY <1>1, <1>3 DEF LossInv
<1> QED
  BY <1>1, <1>4, <1>5 DEF LossInv

\* Initially nothing is published; after a restart a client is excused from all ids up
\* to the one it remembers.
LEMMA LossAtStart ==
  /\ Init => LossInv
  /\ IInv /\ Restart => LossInv'
<1>1. 1..0 = {}
  OBVIOUS
<1>2. Init => LossInv
  BY <1>1 DEF Init, LossInv, Reading
<1>3. ASSUME IInv, Restart PROVE LossInv'
  <2>1. eventId' = 0 /\ lastId' = lastId /\ \A c \in Clients : ~Reading(c)'
    BY <1>3 DEF Restart, Reading
  <2>2. \A c \in Clients : \A i \in 1..lastId[c] : i \in Holds(c)'
    BY <1>3 DEF Restart, Holds
  <2> QED
    BY <1>1, <2>1, <2>2 DEF LossInv
<1> QED
  BY <1>2, <1>3

LEMMA LossStep == IInv /\ LossInv /\ [Next]_vars => LossInv'
<1> SUFFICES ASSUME IInv, LossInv, [Next]_vars PROVE LossInv'
  OBVIOUS
<1>1. CASE UNCHANGED vars
  BY <1>1 DEF vars, LossInv, Accounted, Holds, Reading, InFlight
<1> QED
  BY <1>1, LossPushBegin, LossPushPut, LossConnect, LossReceive, LossDisconnect,
     LossUnregister, LossAtStart DEF Next

\* Whatever the browser's Last-Event-ID covers it has been given, will still be given,
\* or lost in one of the ways the comment on LossesAreAccounted lists.
THEOREM NoSilentLoss == Spec => []LossesAreAccounted
<1>1. IInv /\ LossInv => LossesAreAccounted
  <2> SUFFICES ASSUME IInv, LossInv, NEW c \in Clients, NEW i \in 1..lastId[c], ~(i > eventId)
               PROVE  i \in Holds(c) \/ (Reading(c) /\ i \in InFlight(conn[c]))
    BY DEF LossesAreAccounted, Holds, Reading
  <2>1. eventId \in Nat /\ lastId[c] \in Nat
    BY Numbers DEF IInv, TypeOK
  <2>2. i \in 1..eventId /\ ~(i > lastId[c])
    BY <2>1
  <2> QED
    BY <2>2 DEF LossInv, Accounted
<1> QED
  BY IInvInit, IInvStep, LossAtStart, LossStep, <1>1, PTL DEF Spec

-----------------------------------------------------------------------------
(* The feed of a tab. Last-Event-ID is above all that a tab has handled,   *)
(* so a replay starts after it; on a connection, what a queue still holds  *)
(* of one thread is after what was taken from it. Hence the bus and the    *)
(* browser implement FeedContract across reconnects and restarts.          *)

Feed == INSTANCE FeedContract WITH
  Threads <- Pushers, Tabs <- Clients, log <- publisher, handled <- received

\* What the tab has had from a thread is below all it will get on this connection.
Ahead(c) ==
  Reading(c) => \A i \in InFlight(conn[c]), j \in received[c] :
                  publisher[j] = publisher[i] => j < i

FeedInv ==
  /\ \A c \in Clients : received[c] \subseteq 1..eventId
  /\ \A c \in Clients : received[c] \subseteq 1..lastId[c]
  /\ \A c \in Clients : Ahead(c)

AllInv == IInv /\ OrderInv /\ LossInv

LEMMA InFlightIds ==
  ASSUME IInv, NEW k \in Conns
  PROVE  InFlight(k) \subseteq 1..eventId
BY QueueIds DEF InFlight, IInv, PendingIds

\* A tab that a step gives nothing new stays ahead.
LEMMA AheadKept ==
  ASSUME IInv, NEW c \in Clients, Ahead(c), Reading(c)' => Reading(c) /\ conn'[c] = conn[c],
         received'[c] \subseteq received[c], UNCHANGED publisher,
         Reading(c) => InFlight(conn[c])' \subseteq InFlight(conn[c])
  PROVE  Ahead(c)'
<1>1. CASE ~Reading(c)'
  BY <1>1 DEF Ahead
<1>2. CASE Reading(c)'
  <2>1. Reading(c) /\ conn'[c] = conn[c]
    BY <1>2
  <2>2. PICK k \in Conns : k = conn[c]
    BY <2>1 DEF Reading, IInv, TypeOK
  <2>3. InFlight(k)' \subseteq InFlight(k)
    BY <2>1, <2>2
  <2>4. conn'[c] = k
    BY <2>1, <2>2
  <2> SUFFICES ASSUME NEW i \in InFlight(k)', NEW j \in received'[c],
                      publisher'[j] = publisher'[i]
               PROVE  j < i
    BY <2>4 DEF Ahead
  <2> QED
    BY <2>1, <2>2, <2>3 DEF Ahead
<1> QED
  BY <1>1, <1>2

LEMMA FeedPushBegin ==
  ASSUME AllInv, FeedInv, NEW p \in Pushers, PushBegin(p)
  PROVE  FeedInv'
<1> USE DEF AllInv
<1>1. /\ eventId \in Nat /\ eventId' = eventId + 1 /\ push[p].todo = {}
      /\ publisher' = Append(publisher, p)
      /\ UNCHANGED <<listeners, queue, conn, lastId, received>>
  BY Numbers DEF PushBegin, IInv, clients
<1>2. \A i \in 1..eventId : publisher'[i] = publisher[i]
  BY <1>1, AppendProperties DEF IInv, TypeOK, OrderInv
<1>3. push'[p] = [id |-> eventId + 1, todo |-> listeners]
      /\ \A q \in Pushers \ {p} : push'[q] = push[q]
  BY DEF PushBegin, IInv, TypeOK
<1>4. \A k \in Conns : InFlight(k)' \subseteq InFlight(k) \cup {eventId + 1}
  <2>1. push'[p].id = eventId + 1
    BY <1>3
  <2> QED
    BY <1>1, <1>3, <2>1 DEF InFlight
<1>5. ASSUME NEW c \in Clients PROVE Ahead(c)'
  <2>1. CASE ~Reading(c)
    BY <1>1, <2>1 DEF Ahead, Reading
  <2>2. CASE Reading(c)
    <3>1. PICK k \in Conns : k = conn[c]
      BY <2>2 DEF Reading, IInv, TypeOK
    <3>2. conn'[c] = k
      BY <1>1, <3>1
    <3> SUFFICES ASSUME NEW i \in InFlight(k)', NEW j \in received[c],
                        publisher'[j] = publisher'[i]
                 PROVE  j < i
      BY <1>1, <3>2 DEF Ahead
    <3>3. j \in 1..eventId
      BY DEF FeedInv
    <3>4. CASE i = eventId + 1
      BY <1>1, <3>3, <3>4
    <3>5. CASE i \in InFlight(k)
      <4>1. i \in 1..eventId
        BY <3>5, InFlightIds
      <4>2. publisher[j] = publisher[i]
        BY <1>2, <3>3, <4>1
      <4> QED
        BY <2>2, <3>1, <3>5, <4>2 DEF FeedInv, Ahead
    <3> QED
      BY <1>4, <3>4, <3>5
  <2> QED
    BY <2>1, <2>2
<1>6. \A c \in Clients : received'[c] \subseteq 1..eventId'
  BY <1>1 DEF FeedInv
<1> QED
  BY <1>1, <1>5, <1>6 DEF FeedInv

LEMMA FeedPushPut ==
  ASSUME AllInv, FeedInv, NEW p \in Pushers, NEW k \in Conns, PushPut(p, k)
  PROVE  FeedInv'
<1> USE DEF AllInv
<1>1. UNCHANGED <<eventId, conn, lastId, received, publisher>>
  BY PutEffect
<1>2. ASSUME NEW j \in Conns PROVE InFlight(j)' \subseteq InFlight(j)
  <2>1. \A q \in Pushers : push'[q].todo \subseteq push[q].todo /\ push'[q].id = push[q].id
    BY PutEffect
  <2>2. ASSUME NEW q \in Pushers, j \in push'[q].todo PROVE push'[q].id \in InFlight(j)
    BY <2>1, <2>2 DEF InFlight
  <2>3. ASSUME NEW a \in 1..Len(queue'[j]) PROVE queue'[j][a] \in InFlight(j)
    <3>1. CASE queue'[j] = queue[j]
      BY <2>3, <3>1 DEF InFlight
    <3>2. CASE queue'[j] # queue[j]
      <4>1. j = k
        BY <3>2, PutEffect
      <4>2. /\ Len(queue'[j]) = Len(queue[j]) + 1
            /\ \A i \in 1..Len(queue[j]) : queue'[j][i] = queue[j][i]
            /\ queue'[j][Len(queue[j]) + 1] = push[p].id
            /\ j \in push[p].todo
        BY <3>2, <4>1, PutEffect
      <4>3. a \in 1..Len(queue[j]) \/ a = Len(queue[j]) + 1
        BY <4>2, QueueIds
      <4> QED
        BY <4>2, <4>3 DEF InFlight
    <3> QED
      BY <3>1, <3>2
  <2> QED
    BY <2>2, <2>3 DEF InFlight
<1>3. ASSUME NEW c \in Clients PROVE Ahead(c)'
  <2>1. Reading(c) => InFlight(conn[c])' \subseteq InFlight(conn[c])
    <3>1. CASE Reading(c)
      <4>1. PICK j \in Conns : j = conn[c]
        BY <3>1 DEF Reading, IInv, TypeOK
      <4>2. conn'[c] = j
        BY <1>1, <4>1
      <4> QED
        BY <1>2, <4>1, <4>2
    <3> QED
      BY <3>1
  <2>2. Ahead(c) /\ (Reading(c)' => Reading(c) /\ conn'[c] = conn[c])
    BY <1>1 DEF FeedInv, Reading
  <2> QED
    BY <1>1, <2>1, <2>2, AheadKept
<1> QED
  BY <1>1, <1>3 DEF FeedInv

\* A replay starts above Last-Event-ID, except for a tab that has had nothing yet.
LEMMA ReplayIsAhead ==
  ASSUME IInv, NEW c \in Clients, NEW n \in Nat, n > ReplayFrom(lastId[c])
  PROVE  lastId[c] # 0 => n > lastId[c]
<1>1. /\ eventId \in Nat /\ lastId[c] \in Nat /\ Len(events) \in Nat
      /\ RingIsRecentHistory /\ events \in Seq(1..MaxId)
  BY Numbers, LenProperties DEF IInv, TypeOK
<1>2. CASE lastId[c] # 0 /\ events # <<>> /\ lastId[c] < events[1]
  <2>1. 1 \in 1..Len(events)
    BY <1>1, <1>2, EmptySeq
  <2>2. events[1] \in Nat
    BY <1>1, <2>1 DEF RingIsRecentHistory
  <2> QED
    BY <1>1, <1>2, <2>2 DEF ReplayFrom
<1>3. CASE lastId[c] # 0 /\ ~(events # <<>> /\ lastId[c] < events[1])
  BY <1>3 DEF ReplayFrom
<1> QED
  BY <1>2, <1>3

LEMMA FeedConnect ==
  ASSUME AllInv, FeedInv, NEW c \in Clients, NEW k \in Conns, Connect(c, k)
  PROVE  FeedInv'
<1> USE DEF AllInv
<1>1. /\ UNCHANGED <<eventId, push, lastId, received, publisher>>
      /\ \A p \in Pushers : k \notin push[p].todo
      /\ \A d \in Clients : conn[d] # k
  BY DEF Connect, Unused
<1>2. conn'[c] = k /\ \A d \in Clients \ {c} : conn'[d] = conn[d]
  BY DEF Connect, IInv, TypeOK
<1>3. \A j \in Conns \ {k} : queue'[j] = queue[j]
  BY ConnectEffect
<1>4. ASSUME NEW d \in Clients \ {c} PROVE Ahead(d)'
  <2>1. Reading(d) => InFlight(conn[d])' \subseteq InFlight(conn[d])
    <3>1. CASE Reading(d)
      <4>1. PICK j \in Conns : j = conn[d]
        BY <3>1 DEF Reading, IInv, TypeOK
      <4>2. conn'[d] = j /\ queue'[j] = queue[j]
        BY <1>1, <1>2, <1>3, <4>1
      <4>3. InFlight(j)' = InFlight(j)
        BY <1>1, <4>2 DEF InFlight
      <4> QED
        BY <4>1, <4>2, <4>3
    <3> QED
      BY <3>1
  <2>2. Ahead(d) /\ (Reading(d)' => Reading(d) /\ conn'[d] = conn[d])
    BY <1>2 DEF FeedInv, Reading
  <2> QED
    BY <1>1, <2>1, <2>2, AheadKept
<1>5. Ahead(c)'
  <2> SUFFICES ASSUME NEW i \in InFlight(k)', NEW j \in received[c] PROVE j < i
    BY <1>1, <1>2 DEF Ahead
  <2>1. PICK a \in 1..Len(queue'[k]) : queue'[k][a] = i
    BY <1>1 DEF InFlight
  <2>2. queue'[k] = Replay(ReplayFrom(lastId[c]))
    BY DEF Connect, IInv, TypeOK
  <2>3. ReplayFrom(lastId[c]) \in Nat
    BY TypeHasEvents, ReplayFromLemma DEF IInv, TypeOK
  <2>4. i \in Nat /\ i > ReplayFrom(lastId[c])
    <3>1. EventTypes /\ RingIsRecentHistory
      BY TypeHasEvents DEF IInv
    <3>2. PICK from \in Nat : from = ReplayFrom(lastId[c])
      BY <2>3
    <3>3. \A b \in 1..Len(Replay(from)) : Replay(from)[b] > from /\ Replay(from)[b] \in 1..eventId
      BY <3>1, ReplayLemma
    <3> QED
      BY <2>1, <2>2, <3>2, <3>3
  <2>5. j \in 1..lastId[c] /\ lastId[c] \in Nat
    BY Numbers DEF FeedInv, IInv, TypeOK
  <2>6. lastId[c] # 0
    BY <2>5
  <2>7. i > lastId[c]
    BY <2>4, <2>6, ReplayIsAhead
  <2> QED
    BY <2>4, <2>5, <2>7
<1> QED
  BY <1>1, <1>4, <1>5 DEF FeedInv

\* The event a tab takes is the first of its thread's that are on the way to it.
LEMMA HeadIsFirst ==
  ASSUME AllInv, NEW k \in Conns, NEW i \in InFlight(k)', UNCHANGED push,
         Len(queue[k]) >= 1,
         Len(queue'[k]) = Len(queue[k]) - 1,
         \A a \in 1..Len(queue'[k]) :
           a + 1 \in 1..Len(queue[k]) /\ queue'[k][a] = queue[k][a + 1]
  PROVE  i \in InFlight(k) /\ (publisher[queue[k][1]] = publisher[i] => queue[k][1] < i)
<1> USE DEF AllInv
<1>1. /\ eventId \in Nat /\ Len(queue[k]) \in Nat /\ 1 \in 1..Len(queue[k])
      /\ queue[k][1] \in 1..eventId /\ queue[k][1] \in offered[k]
  BY QueueIds DEF IInv, OfferedIds
<1>2. ASSUME NEW a \in 1..Len(queue'[k]), i = queue'[k][a]
      PROVE  i \in InFlight(k) /\ (publisher[queue[k][1]] = publisher[i] => queue[k][1] < i)
  <2>1. a + 1 \in 1..Len(queue[k]) /\ i = queue[k][a + 1] /\ 1 < a + 1
    BY <1>2
  <2>2. i \in InFlight(k)
    BY <2>1 DEF InFlight
  <2>3. InOrder(queue[k])
    BY DEF OrderInv
  <2> QED
    BY <1>1, <2>1, <2>2, <2>3 DEF InOrder
<1>3. ASSUME NEW p \in Pushers, k \in push[p].todo, i = push[p].id
      PROVE  i \in InFlight(k) /\ (publisher[queue[k][1]] = publisher[i] => queue[k][1] < i)
  <2>1. i \in InFlight(k)
    BY <1>3 DEF InFlight
  <2>2. /\ i \in 1..eventId /\ i \notin offered[k] /\ publisher[i] = p
        /\ \A b \in i + 1 .. eventId : publisher[b] # p
    BY <1>3 DEF IInv, PendingIds, OncePerConnection, OrderInv, LatestPush
  <2>3. ASSUME publisher[queue[k][1]] = publisher[i] PROVE queue[k][1] < i
    <3>1. queue[k][1] # i /\ ~(queue[k][1] \in i + 1 .. eventId)
      BY <1>1, <2>2, <2>3
    <3> QED
      BY <1>1, <2>2, <3>1
  <2> QED
    BY <2>1, <2>3
<1> QED
  BY <1>2, <1>3 DEF InFlight

LEMMA FeedReceive ==
  ASSUME AllInv, FeedInv, NEW c \in Clients, Receive(c)
  PROVE  FeedInv'
<1> USE DEF AllInv
<1>1. PICK k \in Conns : k = conn[c]
  BY ReceiveEffect
<1>2. Reading(c) /\ UNCHANGED <<eventId, push, conn, publisher>>
  BY DEF Receive, Reading
<1>3. /\ Len(queue[k]) \in Nat /\ Len(queue[k]) >= 1 /\ Head(queue[k]) = queue[k][1]
      /\ Len(queue'[k]) = Len(queue[k]) - 1
      /\ \A a \in 1..Len(queue'[k]) :
           a + 1 \in 1..Len(queue[k]) /\ queue'[k][a] = queue[k][a + 1]
      /\ \A j \in Conns \ {k} : queue'[j] = queue[j]
  BY <1>1, ReceiveEffect
<1>4. /\ 1 \in 1..Len(queue[k]) /\ eventId \in Nat
      /\ Head(queue[k]) \in 1..eventId /\ Head(queue[k]) \in InFlight(k)
  BY <1>3, QueueIds DEF InFlight
<1>5. /\ received'[c] = received[c] \cup {Head(queue[k])}
      /\ \A d \in Clients \ {c} : received'[d] = received[d]
  BY <1>1 DEF Receive, IInv, TypeOK
<1>6. /\ lastId'[c] = (IF Head(queue[k]) > lastId[c] THEN Head(queue[k]) ELSE lastId[c])
      /\ \A d \in Clients \ {c} : lastId'[d] = lastId[d]
  BY <1>1 DEF Receive, IInv, TypeOK
<1>7. ASSUME NEW d \in Clients \ {c} PROVE Ahead(d)'
  <2>1. Reading(d) => InFlight(conn[d])' \subseteq InFlight(conn[d])
    <3>1. CASE Reading(d)
      <4>1. PICK j \in Conns : j = conn[d]
        BY <3>1 DEF Reading, IInv, TypeOK
      <4>2. j # k
        BY <1>1, <1>2, <3>1, <4>1 DEF LossInv
      <4>3. conn'[d] = j /\ queue'[j] = queue[j]
        BY <1>2, <1>3, <4>1, <4>2
      <4>4. InFlight(j)' = InFlight(j)
        BY <1>2, <4>3 DEF InFlight
      <4> QED
        BY <4>1, <4>3, <4>4
    <3> QED
      BY <3>1
  <2>2. Ahead(d) /\ (Reading(d)' => Reading(d) /\ conn'[d] = conn[d])
    BY <1>2 DEF FeedInv, Reading
  <2> QED
    BY <1>2, <1>5, <2>1, <2>2, AheadKept
<1>8. Ahead(c)'
  <2>1. conn'[c] = k
    BY <1>1, <1>2
  <2> SUFFICES ASSUME NEW i \in InFlight(k)', NEW j \in received'[c],
                      publisher[j] = publisher[i]
               PROVE  j < i
    BY <1>2, <2>1 DEF Ahead
  <2>2. i \in InFlight(k) /\ (publisher[queue[k][1]] = publisher[i] => queue[k][1] < i)
    BY <1>2, <1>3, HeadIsFirst
  <2>3. CASE j \in received[c]
    BY <1>1, <1>2, <2>2, <2>3 DEF FeedInv, Ahead
  <2>4. CASE j = Head(queue[k])
    BY <1>3, <2>2, <2>4
  <2> QED
    BY <1>5, <2>3, <2>4
<1>9. \A d \in Clients : received'[d] \subseteq 1..eventId'
  BY <1>2, <1>4, <1>5 DEF FeedInv
<1>10. \A d \in Clients : received'[d] \subseteq 1..lastId'[d]
  <2>1. \A d \in Clients : received[d] \subseteq 1..lastId[d] /\ lastId[d] \in Nat
    BY Numbers DEF FeedInv, IInv, TypeOK
  <2> QED
    BY <1>4, <1>5, <1>6, <2>1
<1> QED
  BY <1>7, <1>8, <1>9, <1>10 DEF FeedInv

LEMMA FeedDisconnect ==
  ASSUME AllInv, FeedInv, NEW c \in Clients, Disconnect(c)
  PROVE  FeedInv'
<1> USE DEF AllInv
<1>1. UNCHANGED <<eventId, queue, push, lastId, received, publisher>>
  BY DEF Disconnect, bus
<1>2. conn'[c] = None /\ \A d \in Clients \ {c} : conn'[d] = conn[d]
  BY DEF Disconnect, IInv, TypeOK
<1>3. Ahead(c)'
  BY <1>2 DEF Ahead, Reading
<1>4. ASSUME NEW d \in Clients \ {c} PROVE Ahead(d)'
  BY <1>1, <1>2 DEF FeedInv, Ahead, Reading, InFlight
<1> QED
  BY <1>1, <1>3, <1>4 DEF FeedInv

LEMMA FeedUnregister ==
  ASSUME AllInv, FeedInv, NEW k \in Conns, Unregister(k)
  PROVE  FeedInv'
<1> USE DEF AllInv
<1>1. /\ UNCHANGED <<eventId, push, conn, lastId, received, publisher>>
      /\ \A c \in Clients : conn[c] # k
  BY DEF Unregister, clients
<1>2. \A j \in Conns \ {k} : queue'[j] = queue[j]
  BY DEF Unregister, IInv, TypeOK
<1>3. ASSUME NEW d \in Clients PROVE Ahead(d)'
  <2>1. Reading(d) => InFlight(conn[d])' \subseteq InFlight(conn[d])
    <3>1. CASE Reading(d)
      <4>1. PICK j \in Conns : j = conn[d]
        BY <3>1 DEF Reading, IInv, TypeOK
      <4>2. conn'[d] = j /\ queue'[j] = queue[j]
        BY <1>1, <1>2, <4>1
      <4>3. InFlight(j)' = InFlight(j)
        BY <1>1, <4>2 DEF InFlight
      <4> QED
        BY <4>1, <4>2, <4>3
    <3> QED
      BY <3>1
  <2>2. Ahead(d) /\ (Reading(d)' => Reading(d) /\ conn'[d] = conn[d])
    BY <1>1 DEF FeedInv, Reading
  <2> QED
    BY <1>1, <2>1, <2>2, AheadKept
<1> QED
  BY <1>1, <1>3 DEF FeedInv

LEMMA FeedAtRest ==
  /\ Init => FeedInv
  /\ Restart => FeedInv'
<1>1. Init => FeedInv
  BY DEF Init, FeedInv, Ahead, Reading
<1>2. Restart => FeedInv'
  BY DEF Restart, FeedInv, Ahead, Reading
<1> QED
  BY <1>1, <1>2

LEMMA AllInvInit == Init => AllInv /\ FeedInv
BY IInvInit, OrderAtRest, LossAtStart, FeedAtRest DEF AllInv

LEMMA AllInvStep == AllInv /\ FeedInv /\ [Next]_vars => AllInv' /\ FeedInv'
<1> SUFFICES ASSUME AllInv, FeedInv, [Next]_vars PROVE AllInv' /\ FeedInv'
  OBVIOUS
<1>1. AllInv'
  BY IInvStep, OrderStep, LossStep DEF AllInv
<1>2. CASE UNCHANGED vars
  <2>1. FeedInv'
    BY <1>2 DEF vars, FeedInv, Ahead, Reading, InFlight
  <2> QED
    BY <1>1, <2>1
<1>3. CASE Next
  <2>1. FeedInv'
    BY <1>3, FeedPushBegin, FeedPushPut, FeedConnect, FeedReceive, FeedDisconnect,
       FeedUnregister, FeedAtRest DEF Next
  <2> QED
    BY <1>1, <2>1
<1> QED
  BY <1>2, <1>3

\* What a tab handles next comes after all it has had from the same thread.
LEMMA HandleStep ==
  ASSUME AllInv, FeedInv, NEW c \in Clients, Receive(c)
  PROVE  Feed!Handle(c)
<1> USE DEF AllInv
<1>1. PICK k \in Conns : k = conn[c]
  BY ReceiveEffect
<1>2. Reading(c) /\ UNCHANGED publisher
  BY DEF Receive, Reading
<1>3. /\ Len(queue[k]) \in Nat /\ Len(queue[k]) >= 1 /\ Head(queue[k]) = queue[k][1]
  BY <1>1, ReceiveEffect
<1>4. Head(queue[k]) \in 1..Len(publisher) /\ Head(queue[k]) \in InFlight(k)
  <2>1. 1 \in 1..Len(queue[k])
    BY <1>3
  <2> QED
    BY <1>3, <2>1, QueueIds DEF InFlight, OrderInv
<1>5. received' = [received EXCEPT ![c] = @ \cup {Head(queue[k])}]
  BY <1>1 DEF Receive
<1>6. \A j \in received[c] : publisher[j] = publisher[Head(queue[k])] => j < Head(queue[k])
  BY <1>1, <1>2, <1>4 DEF FeedInv, Ahead
<1> QED
  BY <1>2, <1>4, <1>5, <1>6 DEF Feed!Handle

LEMMA FeedStep == AllInv /\ FeedInv /\ [Next]_vars => [Feed!Next]_(Feed!vars)
<1> SUFFICES ASSUME AllInv, FeedInv, [Next]_vars PROVE [Feed!Next]_(Feed!vars)
  OBVIOUS
<1>1. ASSUME NEW p \in Pushers, PushBegin(p) PROVE Feed!Next
  <2>1. Feed!Publish(p)
    BY <1>1 DEF PushBegin, Feed!Publish
  <2> QED
    BY <2>1 DEF Feed!Next
<1>2. ASSUME NEW c \in Clients, Receive(c) PROVE Feed!Next
  BY <1>2, HandleStep DEF Feed!Next
<1>3. ASSUME Restart PROVE Feed!Next
  <2>1. Feed!Restart
    BY <1>3 DEF Restart, Feed!Restart
  <2> QED
    BY <2>1 DEF Feed!Next
<1>4. ASSUME \/ UNCHANGED vars
             \/ \E p \in Pushers, k \in Conns : PushPut(p, k)
             \/ \E c \in Clients, k \in Conns : Connect(c, k)
             \/ \E c \in Clients : Disconnect(c)
             \/ \E k \in Conns : Unregister(k)
      PROVE  UNCHANGED Feed!vars
  BY <1>4 DEF vars, PushPut, Connect, Disconnect, Unregister, Feed!vars
<1> QED
  BY <1>1, <1>2, <1>3, <1>4 DEF Next

\* Across any number of reconnects a tab handles an event at most once, and what one
\* thread published in the order in which it published it: SSEBus implements FeedContract.
THEOREM FeedIsInOrder == Spec => Feed!Spec
<1>1. Init => Feed!Init
  BY DEF Init, Feed!Init
<1> QED
  BY AllInvInit, AllInvStep, FeedStep, <1>1, PTL DEF Spec, Feed!Spec
=============================================================================
