--------------------------- MODULE DeliveryProofs ---------------------------
(***************************************************************************)
(* Theorems about Delivery for any signals, chats, plans, windows, numbers *)
(* of workers and start-up orders: type correctness with the bound on the  *)
(* pool, what the filter for duplicates achieves, that a quota is used up  *)
(* by acknowledged messages only, and that of the subscriptions the expiry *)
(* thread has seen only lapsed ones expire.                                *)
(***************************************************************************)
EXTENDS Delivery, FiniteSetTheorems, SequenceTheorems, TLAPS

\* The pool is within its bound, which is a number only if the sends are finite.
Inv == TypeOK /\ IsFiniteSet(sending)

\* A send that is about to count has looked its counter up before its own
\* acknowledgement, which is one more.
CountsItsOwn(w) == w.at = "count" => w.used + 1 <= acked[w.task.chat][w.day]
Earned == QuotaIsEarned /\ \A w \in sending : CountsItsOwn(w)

\* The cache is the recent past: its entries are signals decided on, and of those
\* all that are within the window, be they pushed or held back.
Decided(s) == verdict[s].kind # "none"
Entry(s)   == [at |-> verdict[s].at, confidence |-> Confidence[s]]
Past ==
  /\ \A s \in Signals : Decided(s) => verdict[s].at <= now
  /\ Window = 0 => \A s \in Signals : verdict[s].kind # "duplicate"
CacheIsPast ==
  \A k \in Keys : \A e \in cache[k] : \E s \in Signals :
    Decided(s) /\ KeyOf[s] = k /\ e = Entry(s)
PastIsCached ==
  \A s \in Signals : Decided(s) /\ now < verdict[s].at + Window => Entry(s) \in cache[KeyOf[s]]
Filtered == Past /\ CacheIsPast /\ PastIsCached /\ DedupHolds

-----------------------------------------------------------------------------
LEMMA Bounds ==
  /\ Window \in Nat /\ MaxQuota \in Nat /\ Horizon \in Nat /\ MaxEdits \in Nat
  /\ Workers \in Nat /\ Workers >= 1
  /\ Times \subseteq Nat /\ 0 \in Times
  /\ \A s \in Signals : Confidence[s] \in Nat /\ KeyOf[s] \in Keys
  BY DeliveryAssumption DEF Times, Keys

LEMMA TodayIsDay == now \in Times => Today \in Days
  BY DEF Today, Days

\* The first day, which a send that has not been answered is noted with.
LEMMA DayZero == 0 \in Days
<1>1. 0 \div DayLength = 0
  BY DeliveryAssumption
<1> QED
  BY <1>1, Bounds DEF Days

\* The library's sequence of a finite set is one of its members.
LEMMA SeqOfSet ==
  ASSUME NEW S, IsFiniteSet(S)
  PROVE  SetToSeq(S) \in Seq(S)
<1> DEFINE n == Cardinality(S)
<1>1. n \in Nat /\ ExistsBijection(1..n, S)
  BY FS_CardinalityType
<1>2. PICK f : f \in Bijection(1..n, S)
  BY <1>1 DEF ExistsBijection
<1>3. f \in [1..n -> S] /\ IsInjective(f)
  BY <1>2 DEF Bijection, Injection
<1>4. SetToSeq(S) \in [1..n -> S]
  BY <1>3 DEF SetToSeq
<1> QED
  BY <1>1, <1>4, SeqDef

\* The sends of a signal are tasks, one for each of finitely many chats.
LEMMA SendsAreTasks ==
  ASSUME NEW cs, cs \subseteq Chats, NEW s \in Signals
  PROVE  Sends(cs, s) \in Seq(Tasks)
<1> DEFINE task == [c \in cs |-> [chat |-> c, signal |-> s]]
           ts   == {[chat |-> c, signal |-> s] : c \in cs}
<1>1. IsFiniteSet(cs)
  BY DeliveryAssumption, FS_Subset
<1>2. task \in Surjection(cs, ts)
  BY DEF Surjection
<1>3. IsFiniteSet(ts)
  BY <1>1, <1>2, FS_Surjection
<1>4. Sends(cs, s) \in Seq(ts)
  BY <1>3, SeqOfSet DEF Sends
<1>5. ts \subseteq Tasks
  BY DEF Tasks
<1>6. Seq(ts) \subseteq Seq(Tasks)
  BY <1>5, SeqDef
<1> QED
  BY <1>4, <1>6

\* What happens in the pool: one send is replaced by its next state, or is over.
LEMMA PoolBound ==
  ASSUME NEW S, IsFiniteSet(S), NEW w \in S, NEW x, Cardinality(S) <= Workers
  PROVE  /\ IsFiniteSet(S \ {w}) /\ Cardinality(S \ {w}) <= Workers
         /\ IsFiniteSet((S \ {w}) \cup {x}) /\ Cardinality((S \ {w}) \cup {x}) <= Workers
<1>1. Cardinality(S) \in Nat
  BY FS_CardinalityType
<1>2. IsFiniteSet(S \ {w}) /\ Cardinality(S \ {w}) = Cardinality(S) - 1
  BY FS_RemoveElement
<1>3. /\ IsFiniteSet((S \ {w}) \cup {x})
      /\ \/ Cardinality((S \ {w}) \cup {x}) = Cardinality(S \ {w})
         \/ Cardinality((S \ {w}) \cup {x}) = Cardinality(S \ {w}) + 1
  BY <1>2, FS_AddElement
<1> QED
  BY <1>1, <1>2, <1>3, Bounds

-----------------------------------------------------------------------------
(* Type correctness, action by action                                      *)

Sendings == [task : Tasks, at : {"post", "answered", "count"}, day : Days, used : Nat]
Verdicts == [at : Times, kind : {"none", "pushed", "duplicate"}]
Entries  == [at : Times, confidence : Nat]

Subscriptions == [on : BOOLEAN, status : Statuses \cup {"absent"}, expires : Nat,
                  planned : BOOLEAN]
Plans == [exists : BOOLEAN, max : 0..MaxQuota, enabled : BOOLEAN]

LEMMA RowsAreSubscriptions == NoRow \in Subscriptions /\ Rows \subseteq Subscriptions
  BY DeliveryAssumption DEF NoRow, Subscriptions

LEMMA PlansThereMayBe ==
  /\ NoPlan \in Plans
  /\ \A m \in 0..MaxQuota, on \in BOOLEAN : [exists |-> TRUE, max |-> m, enabled |-> on] \in Plans
  /\ [exists |-> TRUE, max |-> MaxQuota, enabled |-> TRUE] \in Plans
<1>1. 0 \in 0..MaxQuota /\ MaxQuota \in 0..MaxQuota
  BY Bounds
<1> QED
  BY <1>1 DEF NoPlan, Plans

LEMMA TypesInit == Init => Inv
<1> SUFFICES ASSUME Init PROVE Inv
  OBVIOUS
<1>1. IsFiniteSet(sending) /\ Cardinality(sending) = 0
  BY FS_EmptySet DEF Init
<1>2. subs \in [Chats -> Subscriptions]
  BY RowsAreSubscriptions DEF Init
<1>3. plan \in Plans
  BY PlansThereMayBe DEF Init
<1>4. bot \in [enabled : BOOLEAN, executor : BOOLEAN, chats : SUBSET Chats]
  BY DeliveryAssumption DEF Init
<1>5. verdict \in [Signals -> Verdicts]
  BY Bounds DEF Init, Undecided, Verdicts
<1>6. queue \in Seq(Tasks)
  BY EmptySeq DEF Init
<1>7. /\ app \in [next : {"engine", "dispatchers", "up"}, holds : SUBSET Dispatchers]
      /\ checker \in [at : {"rest", "commit"}, found : SUBSET Ids]
  BY DEF Init, Resting
<1>8. ids \in [Chats -> Ids \cup {0}]
  <2> DEFINE present == {c \in Chats : subs[c] # NoRow}
  <2>1. IsFiniteSet(present) /\ Cardinality(present) <= Cardinality(Chats)
    BY FS_Subset, DeliveryAssumption
  <2>2. Cardinality(present) \in Nat /\ Cardinality(Chats) \in Nat
    BY <2>1, FS_CardinalityType, DeliveryAssumption
  <2>3. ids \in [Chats -> 0..Cardinality(present)]
    BY DEF Init
  <2> HIDE DEF present
  <2>4. 0..Cardinality(present) \subseteq Ids \cup {0}
    BY <2>1, <2>2, Bounds DEF Ids
  <2> QED
    BY <2>3, <2>4
<1> QED
  BY <1>1, <1>2, <1>3, <1>4, <1>5, <1>6, <1>7, <1>8, Bounds
     DEF Init, Inv, TypeOK, Verdicts, Subscriptions, Plans

LEMMA TypesInitSignalEngine == Inv /\ InitSignalEngine => Inv'
  BY DeliveryAssumption DEF InitSignalEngine, Inv, TypeOK, pool, admin, table, Numbered

LEMMA TypesInitDispatchers == Inv /\ InitDispatchers => Inv'
<1> SUFFICES ASSUME Inv, InitDispatchers PROVE Inv'
  OBVIOUS
<1>1. app' \in [next : {"engine", "dispatchers", "up"}, holds : SUBSET Dispatchers]
  BY DEF InitDispatchers, Inv, TypeOK
<1>2. UNCHANGED <<now, cache, hooked, bot, queue, sending, quota, acked, subs, ids, fresh,
                  plan, checker, edits, verdict>>
  BY DEF InitDispatchers, pool, admin, table
<1> QED
  BY <1>1, <1>2 DEF Inv, TypeOK, Numbered

LEMMA TypesRemember ==
  ASSUME Inv, NEW s \in Signals, Remember(s)
  PROVE  cache' \in [Keys -> SUBSET Entries]
<1>1. cache \in [Keys -> SUBSET Entries] /\ now \in Times
  BY DEF Inv, TypeOK, Entries
<1>2. KeyOf[s] \in Keys /\ [at |-> now, confidence |-> Confidence[s]] \in Entries
  BY <1>1, Bounds DEF Entries
<1>3. Remembered(s) \subseteq Entries
  BY <1>1, <1>2 DEF Remembered
<1> QED
  BY <1>1, <1>2, <1>3 DEF Remember

LEMMA TypesBotDispatch ==
  ASSUME Inv, NEW s \in Signals, BotDispatch(s)
  PROVE  queue' \in Seq(Tasks)
<1>1. queue \in Seq(Tasks) /\ bot.chats \subseteq Chats
  BY DEF Inv, TypeOK
<1>2. CASE UNCHANGED queue
  BY <1>1, <1>2
<1>3. CASE \E cs \in {Subscribers(s), bot.chats} : queue' = queue \o Sends(cs, s)
  <2>1. PICK cs \in {Subscribers(s), bot.chats} : queue' = queue \o Sends(cs, s)
    BY <1>3
  <2>2. cs \subseteq Chats
    BY <1>1, <2>1 DEF Subscribers
  <2>3. Sends(cs, s) \in Seq(Tasks)
    BY <2>2, SendsAreTasks
  <2> QED
    BY <1>1, <2>1, <2>3, ConcatProperties
<1> QED
  BY <1>2, <1>3 DEF BotDispatch

LEMMA TypesProcess ==
  ASSUME Inv, NEW s \in Signals, ProcessNewMessage(s)
  PROVE  Inv'
<1>1. Remember(s) /\ (Push(s) \/ Suppress(s))
      /\ UNCHANGED <<now, app, bot, sending, quota, acked, admin>>
  BY DEF ProcessNewMessage
<1>2. cache' \in [Keys -> SUBSET Entries]
  BY <1>1, TypesRemember
<1>3. queue' \in Seq(Tasks)
  BY <1>1, TypesBotDispatch DEF Push, Suppress, Inv, TypeOK
<1>4. hooked' \subseteq Signals
  BY <1>1 DEF Push, WebhookDispatch, Suppress, Inv, TypeOK
<1>5. verdict' \in [Signals -> Verdicts]
  <2>1. verdict \in [Signals -> Verdicts] /\ now \in Times
    BY DEF Inv, TypeOK, Verdicts
  <2>2. PICK kind \in {"pushed", "duplicate"} :
          verdict' = [verdict EXCEPT ![s] = [at |-> now, kind |-> kind]]
    BY <1>1 DEF Push, Suppress
  <2>3. [at |-> now, kind |-> kind] \in Verdicts
    BY <2>1 DEF Verdicts
  <2> QED
    BY <2>1, <2>2, <2>3
<1> QED
  BY <1>1, <1>2, <1>3, <1>4, <1>5 DEF Inv, TypeOK, Entries, Verdicts, admin, table, Numbered

LEMMA TypesBegin == Inv /\ Begin => Inv'
<1> SUFFICES ASSUME Inv, Begin PROVE Inv'
  OBVIOUS
<1> DEFINE w == [task |-> Head(queue), at |-> "post", day |-> 0, used |-> 0]
<1>1. queue \in Seq(Tasks) /\ queue # <<>>
  BY DEF Inv, TypeOK, Begin
<1>2. Head(queue) \in Tasks /\ Tail(queue) \in Seq(Tasks)
  BY <1>1, HeadTailProperties
<1>3. w \in Sendings
  BY <1>2, DayZero DEF Sendings
<1>4. sending' = sending \cup {w} /\ IsFiniteSet(sending) /\ Cardinality(sending) < Workers
  BY DEF Begin, Inv
<1> HIDE DEF w
<1>5. Cardinality(sending) \in Nat
  BY <1>4, FS_CardinalityType
<1>6. IsFiniteSet(sending') /\ Cardinality(sending') <= Workers
  BY <1>4, <1>5, FS_AddElement, Bounds
<1> QED
  BY <1>2, <1>3, <1>4, <1>6 DEF Begin, Inv, TypeOK, Sendings, admin, table, Numbered

LEMMA TypesAcknowledged ==
  ASSUME Inv, NEW w \in sending, Acknowledged(w)
  PROVE  Inv'
<1> DEFINE x == [w EXCEPT !.at = "answered"]
<1>1. x \in Sendings /\ sending \subseteq Sendings
  <2>1. w \in Sendings /\ sending \subseteq Sendings
    BY DEF Inv, TypeOK, Sendings
  <2> QED
    BY <2>1 DEF Sendings
<1>2. sending' = (sending \ {w}) \cup {x}
  BY DEF Acknowledged
<1> HIDE DEF x
<1>3. IsFiniteSet(sending') /\ Cardinality(sending') <= Workers
  BY <1>2, PoolBound DEF Inv, TypeOK
<1> QED
  BY <1>1, <1>2, <1>3 DEF Acknowledged, Inv, TypeOK, Sendings, admin, table, Numbered

LEMMA TypesRecord ==
  ASSUME Inv, NEW w \in sending, RecordQuotaUse(w)
  PROVE  Inv'
<1> DEFINE c == w.task.chat
           x == [w EXCEPT !.at = "count", !.day = Today, !.used = quota[c][Today]]
<1>1. /\ w \in Sendings /\ Today \in Days /\ quota \in [Chats -> [Days -> Nat]]
      /\ acked \in [Chats -> [Days -> Nat]] /\ sending \subseteq Sendings
  BY TodayIsDay DEF Inv, TypeOK, Sendings
<1>2. c \in Chats
  BY <1>1 DEF Sendings, Tasks
<1>3. x \in Sendings
  <2>1. quota[c][Today] \in Nat
    BY <1>1, <1>2
  <2> HIDE DEF c
  <2> QED
    BY <1>1, <2>1 DEF Sendings
<1>4. /\ sending' = (sending \ {w}) \cup {x}
      /\ acked' = [acked EXCEPT ![c][Today] = acked[c][Today] + 1]
  BY DEF RecordQuotaUse
<1> HIDE DEF x, c
<1>5. IsFiniteSet(sending') /\ Cardinality(sending') <= Workers
  BY <1>4, PoolBound DEF Inv, TypeOK
<1>6. acked' \in [Chats -> [Days -> Nat]]
  BY <1>1, <1>2, <1>4
<1> QED
  BY <1>1, <1>3, <1>4, <1>5, <1>6 DEF RecordQuotaUse, Inv, TypeOK, Sendings, admin, table, Numbered

LEMMA TypesCount ==
  ASSUME Inv, NEW w \in sending, Count(w)
  PROVE  Inv'
<1>1. /\ w \in Sendings /\ quota \in [Chats -> [Days -> Nat]] /\ w.task.chat \in Chats
      /\ w.day \in Days /\ w.used + 1 \in Nat
  BY DEF Inv, TypeOK, Sendings, Tasks
<1>2. quota' \in [Chats -> [Days -> Nat]]
  BY <1>1 DEF Count
<1>3. IsFiniteSet(sending') /\ Cardinality(sending') <= Workers
  BY PoolBound DEF Count, Inv, TypeOK
<1> QED
  BY <1>2, <1>3 DEF Count, Inv, TypeOK, admin, table, Numbered

LEMMA TypesSendFails ==
  ASSUME Inv, NEW w \in sending, SendFails(w)
  PROVE  Inv'
<1>1. IsFiniteSet(sending') /\ Cardinality(sending') <= Workers
  BY PoolBound DEF SendFails, Inv, TypeOK
<1> QED
  BY <1>1 DEF SendFails, Inv, TypeOK, admin, table, Numbered

LEMMA TypesSubscriptions ==
  ASSUME Inv, NEW c \in Chats, CreateSubscription(c) \/ DeleteSubscription(c)
  PROVE  Inv'
<1>1. edits' \in 0..MaxEdits
  BY Bounds DEF CreateSubscription, DeleteSubscription, Edit, Inv, TypeOK
<1>2. PICK r \in Rows \cup {NoRow}, n \in Ids \cup {0} :
        /\ subs' = [subs EXCEPT ![c] = r] /\ ids' = [ids EXCEPT ![c] = n]
        /\ n = 0 <=> r = NoRow
        /\ n # 0 => Follows(n)
  <2>1. CASE CreateSubscription(c)
    <3>1. PICK r \in Rows, n \in Ids :
            subs' = [subs EXCEPT ![c] = r] /\ ids' = [ids EXCEPT ![c] = n] /\ Follows(n)
      BY <2>1 DEF CreateSubscription
    <3>2. n # 0 /\ r # NoRow
      BY DeliveryAssumption DEF Ids, NoRow, Statuses
    <3> QED
      BY <3>1, <3>2
  <2>2. CASE DeleteSubscription(c)
    BY <2>2 DEF DeleteSubscription
  <2> QED
    BY <2>1, <2>2
<1>3. subs \in [Chats -> Subscriptions] /\ ids \in [Chats -> Ids \cup {0}] /\ Numbered
  BY DEF Inv, TypeOK, Subscriptions
<1>4. r \in Subscriptions
  BY RowsAreSubscriptions
<1>5. /\ subs' \in [Chats -> Subscriptions] /\ ids' \in [Chats -> Ids \cup {0}]
      /\ subs'[c] = r /\ ids'[c] = n
      /\ \A b \in Chats \ {c} : subs'[b] = subs[b] /\ ids'[b] = ids[b]
  BY <1>2, <1>3, <1>4
<1>6. Numbered'
  <2>1. \A b \in Chats : n # 0 => ids[b] # n
    BY <1>2, <1>3 DEF Follows, Ids
  <2> QED
    BY <1>2, <1>3, <1>5, <2>1 DEF Numbered
<1>7. fresh' \subseteq Chats /\ checker' = checker
  BY DEF CreateSubscription, DeleteSubscription, Inv, TypeOK
<1> QED
  BY <1>1, <1>5, <1>6, <1>7
     DEF CreateSubscription, DeleteSubscription, Inv, TypeOK, Subscriptions, pool

LEMMA TypesPlans == Inv /\ (CreatePlan \/ UpdatePlan \/ DeletePlan) => Inv'
<1> SUFFICES ASSUME Inv, CreatePlan \/ UpdatePlan \/ DeletePlan PROVE Inv'
  OBVIOUS
<1>1. edits' \in 0..MaxEdits
  BY Bounds DEF CreatePlan, UpdatePlan, DeletePlan, Edit, Inv, TypeOK
<1>2. plan' \in Plans
  <2>1. plan \in Plans
    BY DEF Inv, TypeOK, Plans
  <2>2. CASE CreatePlan
    BY <2>2, PlansThereMayBe DEF CreatePlan
  <2>3. CASE UpdatePlan
    BY <2>1, <2>3 DEF UpdatePlan, Plans
  <2>4. CASE DeletePlan
    BY <2>1, <2>4 DEF DeletePlan, Plans
  <2> QED
    BY <2>2, <2>3, <2>4
<1> QED
  BY <1>1, <1>2 DEF CreatePlan, UpdatePlan, DeletePlan, Inv, TypeOK, Plans, pool, table, Numbered

LEMMA TypesUpdateConfig == Inv /\ UpdateConfig => Inv'
<1> SUFFICES ASSUME Inv, UpdateConfig PROVE Inv'
  OBVIOUS
<1>1. edits' \in 0..MaxEdits
  BY Bounds DEF UpdateConfig, Edit, Inv, TypeOK
<1>2. bot' \in [enabled : BOOLEAN, executor : BOOLEAN, chats : SUBSET Chats]
  BY DeliveryAssumption DEF UpdateConfig, Inv, TypeOK
<1> QED
  BY <1>1, <1>2 DEF UpdateConfig, Inv, TypeOK, pool, table, Numbered

LEMMA TypesChecker == Inv /\ (Look \/ MarkExpired) => Inv'
<1> SUFFICES ASSUME Inv, Look \/ MarkExpired PROVE Inv'
  OBVIOUS
<1>1. subs \in [Chats -> Subscriptions] /\ ids \in [Chats -> Ids \cup {0}] /\ Numbered
  BY DEF Inv, TypeOK, Subscriptions
<1>2. checker' \in [at : {"rest", "commit"}, found : SUBSET Ids]
  <2>1. {ids[c] : c \in LapsedRows} \subseteq Ids
    BY <1>1 DEF LapsedRows, Numbered, NoRow
  <2>2. CASE Look
    BY <2>1, <2>2 DEF Look
  <2>3. CASE MarkExpired
    BY <2>3 DEF MarkExpired, Resting
  <2> QED
    BY <2>2, <2>3
<1>3. /\ subs' \in [Chats -> Subscriptions] /\ ids' = ids /\ fresh' \subseteq Chats
      /\ \A c \in Chats : subs'[c] = NoRow <=> subs[c] = NoRow
  <2>1. CASE UNCHANGED subs
    BY <1>1, <2>1 DEF Look, MarkExpired, table, Inv, TypeOK
  <2>2. CASE MarkExpired /\ Expire(Found)
    <3>1. \A c \in Chats : [subs[c] EXCEPT !.status = "expired"] \in Subscriptions
      BY <1>1 DEF Subscriptions, Statuses
    <3>2. subs' \in [Chats -> Subscriptions]
      BY <1>1, <2>2, <3>1 DEF Expire
    <3>3. \A c \in Found : subs[c] # NoRow /\ subs'[c].status = "expired"
      <4>1. \A c \in Found : subs'[c].status = "expired"
        BY <1>1, <2>2 DEF Expire, Found, Subscriptions
      <4>2. 0 \notin checker.found
        BY DEF Inv, TypeOK, Ids
      <4> QED
        BY <1>1, <4>1, <4>2 DEF Found, Numbered
    <3>4. \A c \in Chats \ Found : subs'[c] = subs[c]
      BY <2>2 DEF Expire
    <3>5. fresh' \subseteq Chats /\ ids' = ids
      BY <2>2 DEF MarkExpired
    <3>6. \A c \in Found : subs[c] # NoRow /\ subs'[c] # NoRow
      BY <3>3 DEF NoRow
    <3> QED
      BY <3>2, <3>4, <3>5, <3>6
  <2> QED
    BY <2>1, <2>2 DEF Look, MarkExpired, table
<1>4. Numbered'
  BY <1>1, <1>3 DEF Numbered
<1> QED
  BY <1>2, <1>3, <1>4 DEF Look, MarkExpired, Inv, TypeOK, Subscriptions, pool

LEMMA TypesTick == Inv /\ Tick => Inv'
<1> SUFFICES ASSUME Inv, Tick PROVE Inv'
  OBVIOUS
<1>1. now' \in Times
  BY Bounds DEF Tick, Times, Inv, TypeOK
<1> QED
  BY <1>1 DEF Tick, Inv, TypeOK, pool, admin, table, Numbered

LEMMA TypesInductive == Inv /\ [Next]_vars => Inv'
<1> SUFFICES ASSUME Inv, [Next]_vars PROVE Inv'
  OBVIOUS
<1>1. CASE UNCHANGED vars
  BY <1>1 DEF vars, Inv, TypeOK, Numbered
<1>2. CASE \E w \in sending : Acknowledged(w) \/ RecordQuotaUse(w) \/ Count(w) \/ SendFails(w)
  BY <1>2, TypesAcknowledged, TypesRecord, TypesCount, TypesSendFails
<1> QED
  BY <1>1, <1>2, TypesInitSignalEngine, TypesInitDispatchers, TypesProcess, TypesBegin,
     TypesSubscriptions, TypesPlans, TypesUpdateConfig, TypesChecker, TypesTick DEF Next

LEMMA Typed == Spec => []Inv
  BY TypesInit, TypesInductive, PTL DEF Spec

\* The values the variables take, the bound on the threads of the pool included.
THEOREM TypeCorrect == Spec => []TypeOK
<1>1. Inv => TypeOK
  BY DEF Inv
<1> QED
  BY <1>1, Typed, PTL

-----------------------------------------------------------------------------
(* Quotas. Only the pool touches the counters, and acknowledgements grow.  *)

LEMMA EarnedInit == Init => Earned
  BY DEF Init, Earned, QuotaIsEarned

LEMMA EarnedBegin == Earned /\ Begin => Earned'
<1> SUFFICES ASSUME Earned, Begin PROVE Earned'
  OBVIOUS
<1>1. UNCHANGED <<quota, acked>>
  BY DEF Begin
<1>2. sending' = sending \cup {[task |-> Head(queue), at |-> "post", day |-> 0, used |-> 0]}
  BY DEF Begin
<1>3. \A w \in sending' : CountsItsOwn(w)'
  BY <1>1, <1>2 DEF Earned, CountsItsOwn
<1> QED
  BY <1>1, <1>3 DEF Earned, QuotaIsEarned

LEMMA EarnedAcknowledged ==
  ASSUME Inv, Earned, NEW w \in sending, Acknowledged(w)
  PROVE  Earned'
<1> DEFINE x == [w EXCEPT !.at = "answered"]
<1>1. sending' = (sending \ {w}) \cup {x} /\ UNCHANGED <<quota, acked>>
  BY DEF Acknowledged
<1>2. x.at = "answered"
  BY DEF Inv, TypeOK
<1> HIDE DEF x
<1>3. \A y \in sending' : CountsItsOwn(y)'
  BY <1>1, <1>2 DEF Earned, CountsItsOwn
<1> QED
  BY <1>1, <1>3 DEF Earned, QuotaIsEarned

LEMMA EarnedRecord ==
  ASSUME Inv, Earned, NEW w \in sending, RecordQuotaUse(w)
  PROVE  Earned'
<1> DEFINE c == w.task.chat
           x == [w EXCEPT !.at = "count", !.day = Today, !.used = quota[c][Today]]
<1>1. /\ w \in Sendings /\ Today \in Days /\ quota \in [Chats -> [Days -> Nat]]
      /\ acked \in [Chats -> [Days -> Nat]] /\ sending \subseteq Sendings
  BY TodayIsDay DEF Inv, TypeOK, Sendings
<1>2. c \in Chats
  BY <1>1 DEF Sendings, Tasks
<1>3. /\ sending' = (sending \ {w}) \cup {x} /\ quota' = quota
      /\ acked' = [acked EXCEPT ![c][Today] = acked[c][Today] + 1]
  BY DEF RecordQuotaUse
<1>4. x.task = w.task /\ x.day = Today /\ x.used = quota[c][Today]
  BY <1>1 DEF Sendings
<1> HIDE DEF x
<1>5. \A b \in Chats, d \in Days : acked[b][d] <= acked'[b][d]
  BY <1>1, <1>2, <1>3
<1>6. acked'[c][Today] = acked[c][Today] + 1
  BY <1>1, <1>2, <1>3
<1>7. \A b \in Chats, d \in Days : quota[b][d] <= acked[b][d] /\ quota[b][d] \in Nat
                                   /\ acked[b][d] \in Nat /\ acked'[b][d] \in Nat
  BY <1>1, <1>2, <1>3 DEF Earned, QuotaIsEarned
<1>8. QuotaIsEarned'
  BY <1>3, <1>5, <1>7 DEF QuotaIsEarned
<1>9. x.used + 1 <= acked'[c][Today]
  BY <1>1, <1>2, <1>4, <1>6, <1>7
<1>10. \A y \in sending : y.at = "count" => y.used + 1 <= acked'[y.task.chat][y.day]
  <2> SUFFICES ASSUME NEW y \in sending, y.at = "count"
               PROVE  y.used + 1 <= acked'[y.task.chat][y.day]
    OBVIOUS
  <2>1. y.task.chat \in Chats /\ y.day \in Days /\ y.used \in Nat
    BY <1>1 DEF Sendings, Tasks
  <2>2. y.used + 1 <= acked[y.task.chat][y.day]
    BY DEF Earned, CountsItsOwn
  <2> QED
    BY <1>5, <1>7, <2>1, <2>2
<1>11. \A y \in sending' : CountsItsOwn(y)'
  BY <1>3, <1>4, <1>9, <1>10 DEF CountsItsOwn
<1> QED
  BY <1>8, <1>11 DEF Earned

LEMMA EarnedCount ==
  ASSUME Inv, Earned, NEW w \in sending, Count(w)
  PROVE  Earned'
<1>1. /\ w \in Sendings /\ quota \in [Chats -> [Days -> Nat]] /\ w.task.chat \in Chats
      /\ w.day \in Days
  BY DEF Inv, TypeOK, Sendings, Tasks
<1>2. w.used + 1 <= acked[w.task.chat][w.day]
  BY DEF Count, Earned, CountsItsOwn
<1>3. /\ quota' = [quota EXCEPT ![w.task.chat][w.day] = w.used + 1]
      /\ acked' = acked /\ sending' = sending \ {w}
  BY DEF Count
<1>4. QuotaIsEarned'
  BY <1>1, <1>2, <1>3 DEF Earned, QuotaIsEarned
<1>5. \A y \in sending' : CountsItsOwn(y)'
  BY <1>3 DEF Earned, CountsItsOwn
<1> QED
  BY <1>4, <1>5 DEF Earned

LEMMA EarnedElsewhere ==
  ASSUME Earned, UNCHANGED <<quota, acked>>, sending' \subseteq sending
  PROVE  Earned'
<1>1. \A w \in sending' : CountsItsOwn(w)'
  BY DEF Earned, CountsItsOwn
<1> QED
  BY <1>1 DEF Earned, QuotaIsEarned

LEMMA EarnedInductive == Inv /\ Earned /\ [Next]_vars => Earned'
<1> SUFFICES ASSUME Inv, Earned, [Next]_vars PROVE Earned'
  OBVIOUS
<1>1. CASE Begin
  BY <1>1, EarnedBegin
<1>2. CASE \E w \in sending : Acknowledged(w) \/ RecordQuotaUse(w) \/ Count(w) \/ SendFails(w)
  <2>1. PICK w \in sending : Acknowledged(w) \/ RecordQuotaUse(w) \/ Count(w) \/ SendFails(w)
    BY <1>2
  <2>2. CASE SendFails(w)
    <3>1. UNCHANGED <<quota, acked>> /\ sending' \subseteq sending
      BY <2>2 DEF SendFails
    <3> QED
      BY <3>1, EarnedElsewhere
  <2> QED
    BY <2>1, <2>2, EarnedAcknowledged, EarnedRecord, EarnedCount
<1>3. CASE \/ UNCHANGED vars \/ InitSignalEngine \/ InitDispatchers \/ Look \/ MarkExpired
           \/ Tick \/ CreatePlan \/ UpdatePlan \/ DeletePlan \/ UpdateConfig
           \/ \E s \in Signals : ProcessNewMessage(s)
           \/ \E c \in Chats : CreateSubscription(c) \/ DeleteSubscription(c)
  <2>1. UNCHANGED <<quota, acked, sending>>
    BY <1>3 DEF vars, InitSignalEngine, InitDispatchers, Look, MarkExpired, Tick, CreatePlan,
                UpdatePlan, DeletePlan, UpdateConfig, ProcessNewMessage, CreateSubscription,
                DeleteSubscription, pool
  <2> QED
    BY <2>1, EarnedElsewhere
<1> QED
  BY <1>1, <1>2, <1>3 DEF Next

\* Whatever fails, races or is changed, a chat's quota is used up by what it received,
\* on the day on which the counting began.
THEOREM QuotasAreEarned == Spec => []QuotaIsEarned
<1>1. Earned => QuotaIsEarned
  BY DEF Earned
<1> QED
  BY <1>1, Typed, EarnedInit, EarnedInductive, PTL DEF Spec

-----------------------------------------------------------------------------
(* The filter for duplicates                                               *)

LEMMA FilteredInit == Init => Filtered
<1> SUFFICES ASSUME Init PROVE Filtered
  OBVIOUS
<1>1. \A s \in Signals : verdict[s].kind = "none"
  BY DEF Init, Undecided
<1>2. \A k \in Keys : cache[k] = {}
  BY DEF Init
<1>3. Past /\ CacheIsPast /\ PastIsCached
  BY <1>1, <1>2 DEF Past, CacheIsPast, PastIsCached, Decided
<1>4. DedupHolds
  BY <1>1 DEF DedupHolds, PushesRise, DuplicatesWereTold, Pushed
<1> QED
  BY <1>3, <1>4 DEF Filtered

\* Nothing is decided or forgotten while time passes.
LEMMA FilteredElsewhere ==
  ASSUME Inv, Filtered, UNCHANGED <<cache, verdict>>, now' \in Nat, now <= now'
  PROVE  Filtered'
<1>0. now \in Nat /\ \A s \in Signals : verdict[s].at \in Nat
  BY Bounds DEF Inv, TypeOK
<1>1. Past'
  BY <1>0 DEF Filtered, Past, Decided
<1>2. CacheIsPast'
  BY DEF Filtered, CacheIsPast, Decided, Entry
<1>3. PastIsCached'
  <2> SUFFICES ASSUME NEW s \in Signals, Decided(s), now' < verdict[s].at + Window
               PROVE  Entry(s) \in cache[KeyOf[s]]
    BY DEF PastIsCached, Decided, Entry
  <2>1. now < verdict[s].at + Window
    BY <1>0, Bounds
  <2> QED
    BY <2>1 DEF Filtered, PastIsCached
<1>4. DedupHolds'
  BY DEF Filtered, DedupHolds, PushesRise, DuplicatesWereTold, SameStory, Pushed
<1> QED
  BY <1>1, <1>2, <1>3, <1>4 DEF Filtered

\* A signal is compared with every decision on its story within the window, and what
\* it is compared with is such a decision.
LEMMA RememberedIsRecent ==
  ASSUME Inv, Filtered, NEW s \in Signals
  PROVE  /\ \A t \in Signals : Decided(t) /\ KeyOf[t] = KeyOf[s] /\ now < verdict[t].at + Window
                               => Entry(t) \in Remembered(s)
         /\ \A e \in Remembered(s) : \E t \in Signals :
              Decided(t) /\ KeyOf[t] = KeyOf[s] /\ e = Entry(t)
<1>1. now \in Nat /\ Window \in Nat /\ KeyOf[s] \in Keys
      /\ \A t \in Signals : verdict[t].at \in Nat
  BY Bounds DEF Inv, TypeOK
<1>2. ASSUME NEW t \in Signals, Decided(t), KeyOf[t] = KeyOf[s], now < verdict[t].at + Window
      PROVE  Entry(t) \in Remembered(s)
  <2>1. Entry(t) \in cache[KeyOf[s]]
    BY <1>2 DEF Filtered, PastIsCached
  <2>2. Entry(t).at = verdict[t].at
    BY DEF Entry
  <2> QED
    BY <1>1, <1>2, <2>1, <2>2 DEF Remembered
<1>3. \A e \in Remembered(s) : \E t \in Signals :
        Decided(t) /\ KeyOf[t] = KeyOf[s] /\ e = Entry(t)
  BY <1>1 DEF Remembered, Filtered, CacheIsPast
<1> QED
  BY <1>2, <1>3

LEMMA FilteredProcess ==
  ASSUME Inv, Filtered, NEW s \in Signals, ProcessNewMessage(s)
  PROVE  Filtered'
<1>0. /\ now \in Nat /\ Window \in Nat /\ KeyOf[s] \in Keys /\ now' = now
      /\ \A t \in Signals : verdict[t].at \in Nat /\ Confidence[t] \in Nat
  BY Bounds DEF Inv, TypeOK, ProcessNewMessage
<1>1. PICK kind \in {"pushed", "duplicate"} :
        /\ verdict' = [verdict EXCEPT ![s] = [at |-> now, kind |-> kind]]
        /\ kind = "pushed" => Window = 0 \/ Novel(s)
        /\ kind = "duplicate" => Window > 0 /\ ~Novel(s)
  BY DEF ProcessNewMessage, Push, Suppress
<1>2. /\ verdict'[s].at = now /\ verdict'[s].kind = kind
      /\ \A t \in Signals : t # s => verdict'[t] = verdict[t]
  BY <1>1 DEF Inv, TypeOK
<1>3. ~Decided(s)
  BY DEF ProcessNewMessage, Decided
<1>4. \A t \in Signals : Decided(t) => t # s /\ Decided(t)' /\ Entry(t)' = Entry(t)
  BY <1>2, <1>3 DEF Decided, Entry
<1>5. Decided(s)' /\ Entry(s)' = [at |-> now, confidence |-> Confidence[s]]
  BY <1>2 DEF Decided, Entry
<1>6. \A t \in Signals : t # s /\ Decided(t)' => Decided(t)
  BY <1>2 DEF Decided
<1>7. Past'
  BY <1>0, <1>1, <1>2, <1>6 DEF Filtered, Past, Decided
<1>8. CASE Window = 0
  <2>1. CacheIsPast'
    BY <1>4, <1>8 DEF Filtered, CacheIsPast, ProcessNewMessage, Remember
  <2>2. PastIsCached'
    <3> SUFFICES ASSUME NEW t \in Signals, Decided(t)', now < verdict'[t].at + Window
                 PROVE  FALSE
      BY <1>0 DEF PastIsCached
    <3>1. verdict'[t].at \in Nat /\ verdict'[t].at <= now
      BY <1>0, <1>2, <1>7 DEF Past
    <3> QED
      BY <1>0, <1>8, <3>1
  <2>3. PushesRise'
    BY <1>0, <1>2, <1>8 DEF PushesRise
  <2>4. DuplicatesWereTold'
    BY <1>7, <1>8 DEF Past, DuplicatesWereTold
  <2> QED
    BY <1>7, <2>1, <2>2, <2>3, <2>4 DEF Filtered, DedupHolds
<1>9. CASE Window # 0
  <2> DEFINE e == [at |-> now, confidence |-> Confidence[s]]
  <2>1. /\ cache' = [cache EXCEPT ![KeyOf[s]] = Remembered(s) \cup {e}]
        /\ cache'[KeyOf[s]] = Remembered(s) \cup {e}
        /\ \A k \in Keys : k # KeyOf[s] => cache'[k] = cache[k]
    BY <1>0, <1>9 DEF ProcessNewMessage, Remember, Inv, TypeOK
  <2>2. CacheIsPast'
    <3> SUFFICES ASSUME NEW k \in Keys, NEW x \in cache'[k]
                 PROVE  \E t \in Signals : Decided(t)' /\ KeyOf[t] = k /\ x = Entry(t)'
      BY DEF CacheIsPast
    <3>1. CASE x \in cache[k]
      <4>1. PICK t \in Signals : Decided(t) /\ KeyOf[t] = k /\ x = Entry(t)
        BY <3>1 DEF Filtered, CacheIsPast
      <4> QED
        BY <4>1, <1>4
    <3>2. CASE x \notin cache[k]
      <4>1. k = KeyOf[s] /\ x = e
        BY <2>1, <3>2 DEF Remembered
      <4> QED
        BY <4>1, <1>5
    <3> QED
      BY <3>1, <3>2
  <2>3. PastIsCached'
    <3> SUFFICES ASSUME NEW t \in Signals, Decided(t)', now < verdict'[t].at + Window
                 PROVE  Entry(t)' \in cache'[KeyOf[t]]
      BY <1>0 DEF PastIsCached
    <3>1. CASE t = s
      BY <1>5, <2>1, <3>1
    <3>2. CASE t # s
      <4>1. Decided(t) /\ Entry(t)' = Entry(t) /\ now < verdict[t].at + Window
        BY <1>2, <1>4, <1>6, <3>2
      <4>2. CASE KeyOf[t] = KeyOf[s]
        BY <2>1, <4>1, <4>2, RememberedIsRecent
      <4>3. CASE KeyOf[t] # KeyOf[s]
        BY <2>1, <4>1, <4>3, Bounds DEF Filtered, PastIsCached
      <4> QED
        BY <4>2, <4>3
    <3> QED
      BY <3>1, <3>2
  \* A novel signal is more confident than all of its story within the window.
  <2>4. ASSUME kind = "pushed", NEW t \in Signals, Decided(t), KeyOf[t] = KeyOf[s],
               now < verdict[t].at + Window
        PROVE  Confidence[t] < Confidence[s]
    <3>1. Entry(t) \in Remembered(s) /\ Entry(t).confidence = Confidence[t]
      BY <2>4, RememberedIsRecent DEF Entry
    <3> QED
      BY <1>0, <1>1, <1>9, <2>4, <3>1 DEF Novel
  <2>5. PushesRise'
    <3> SUFFICES ASSUME NEW a \in Signals, NEW b \in Signals, SameStory(a, b),
                        verdict'[a].kind = "pushed", verdict'[b].kind = "pushed",
                        verdict'[a].at <= verdict'[b].at,
                        verdict'[b].at < verdict'[a].at + Window
                 PROVE  /\ Confidence[a] # Confidence[b]
                        /\ verdict'[a].at < verdict'[b].at => Confidence[a] < Confidence[b]
      BY DEF PushesRise, SameStory, Pushed
    <3>1. a # b /\ KeyOf[a] = KeyOf[b]
      BY DEF SameStory
    <3>2. CASE a # s /\ b # s
      BY <1>2, <3>1, <3>2 DEF Filtered, DedupHolds, PushesRise, SameStory, Pushed
    <3>3. CASE b = s
      <4>1. kind = "pushed" /\ verdict'[a] = verdict[a] /\ Decided(a)
            /\ now < verdict[a].at + Window
        BY <1>2, <3>1, <3>3 DEF Decided
      <4>2. Confidence[a] < Confidence[s]
        BY <2>4, <3>1, <3>3, <4>1
      <4> QED
        BY <1>0, <3>3, <4>2
    <3>4. CASE a = s
      <4>1. kind = "pushed" /\ verdict'[b] = verdict[b] /\ Decided(b)
        BY <1>2, <3>1, <3>4 DEF Decided
      <4>2. verdict[b].at = now
        BY <1>0, <1>2, <3>4, <4>1 DEF Filtered, Past
      <4>3. Confidence[b] < Confidence[s]
        BY <1>0, <1>9, <2>4, <3>1, <3>4, <4>1, <4>2
      <4> QED
        BY <1>0, <1>2, <3>4, <4>1, <4>2, <4>3
    <3> QED
      BY <3>2, <3>3, <3>4
  \* What holds a signal back was itself pushed, or held back by a push.
  <2>6. ASSUME kind = "duplicate"
        PROVE  \E p \in Signals : /\ p # s /\ KeyOf[p] = KeyOf[s] /\ Pushed(p)
                                  /\ verdict[p].at <= now /\ Confidence[p] >= Confidence[s]
    <3>1. PICK x \in Remembered(s) : ~(Confidence[s] > x.confidence)
      BY <1>1, <2>6 DEF Novel
    <3>2. PICK t \in Signals : Decided(t) /\ KeyOf[t] = KeyOf[s] /\ x = Entry(t)
      BY RememberedIsRecent
    <3>3. t # s /\ Confidence[t] >= Confidence[s] /\ verdict[t].at <= now
      BY <1>0, <1>3, <3>1, <3>2 DEF Entry, Filtered, Past
    <3>4. CASE Pushed(t)
      BY <3>2, <3>3, <3>4
    <3>5. CASE ~Pushed(t)
      <4>1. verdict[t].kind = "duplicate"
        BY <3>2, <3>5 DEF Decided, Pushed, Inv, TypeOK
      <4>2. PICK p \in Signals : /\ SameStory(p, t) /\ Pushed(p)
                                 /\ verdict[p].at <= verdict[t].at
                                 /\ Confidence[p] >= Confidence[t]
        BY <4>1 DEF Filtered, DedupHolds, DuplicatesWereTold
      <4>3. p # s
        BY <1>3, <4>2 DEF Pushed, Decided
      <4> QED
        BY <1>0, <3>2, <3>3, <4>2, <4>3 DEF SameStory
    <3> QED
      BY <3>4, <3>5
  <2>7. DuplicatesWereTold'
    <3> SUFFICES ASSUME NEW t \in Signals, verdict'[t].kind = "duplicate"
                 PROVE  \E p \in Signals :
                          /\ p # t /\ KeyOf[p] = KeyOf[t] /\ verdict'[p].kind = "pushed"
                          /\ verdict'[p].at <= verdict'[t].at /\ Confidence[p] >= Confidence[t]
      BY DEF DuplicatesWereTold, SameStory, Pushed
    <3>1. CASE t = s
      <4>1. kind = "duplicate"
        BY <1>2, <3>1
      <4> QED
        BY <1>2, <2>6, <3>1, <4>1 DEF Pushed
    <3>2. CASE t # s
      <4>1. PICK p \in Signals : /\ SameStory(p, t) /\ Pushed(p)
                                 /\ verdict[p].at <= verdict[t].at
                                 /\ Confidence[p] >= Confidence[t]
        BY <1>2, <3>2 DEF Filtered, DedupHolds, DuplicatesWereTold
      <4>2. p # s
        BY <1>3, <4>1 DEF Pushed, Decided
      <4> QED
        BY <1>2, <3>2, <4>1, <4>2 DEF SameStory, Pushed
    <3> QED
      BY <3>1, <3>2
  <2> QED
    BY <1>7, <2>2, <2>3, <2>5, <2>7 DEF Filtered, DedupHolds
<1> QED
  BY <1>8, <1>9

LEMMA FilteredInductive == Inv /\ Filtered /\ [Next]_vars => Filtered'
<1> SUFFICES ASSUME Inv, Filtered, [Next]_vars PROVE Filtered'
  OBVIOUS
<1>0. now \in Nat
  BY Bounds DEF Inv, TypeOK
<1>1. CASE \E s \in Signals : ProcessNewMessage(s)
  BY <1>1, FilteredProcess
<1>2. CASE Tick
  <2>1. UNCHANGED <<cache, verdict>> /\ now' \in Nat /\ now <= now'
    BY <1>0, <1>2 DEF Tick
  <2> QED
    BY <2>1, FilteredElsewhere
<1>3. CASE \/ UNCHANGED vars \/ InitSignalEngine \/ InitDispatchers \/ Look \/ MarkExpired
           \/ CreatePlan \/ UpdatePlan \/ DeletePlan \/ UpdateConfig \/ Begin
           \/ \E w \in sending : Acknowledged(w) \/ RecordQuotaUse(w) \/ Count(w) \/ SendFails(w)
           \/ \E c \in Chats : CreateSubscription(c) \/ DeleteSubscription(c)
  <2>1. UNCHANGED <<now, cache, verdict>>
    BY <1>3 DEF vars, InitSignalEngine, InitDispatchers, Look, MarkExpired, CreatePlan,
                UpdatePlan, DeletePlan, UpdateConfig, Begin, Acknowledged, RecordQuotaUse, Count,
                SendFails, CreateSubscription, DeleteSubscription
  <2>2. now' \in Nat /\ now <= now'
    BY <1>0, <2>1
  <2> QED
    BY <2>1, <2>2, FilteredElsewhere
<1> QED
  BY <1>1, <1>2, <1>3 DEF Next

\* The filter neither lets a story be told twice nor swallows one.
THEOREM StoriesAreToldOnce == Spec => []DedupHolds
<1>1. Filtered => DedupHolds
  BY DEF Filtered
<1> QED
  BY <1>1, Typed, FilteredInit, FilteredInductive, PTL DEF Spec

-----------------------------------------------------------------------------
(* The expiry thread, which marks by their ids the rows that it read in an *)
(* earlier transaction                                                     *)

\* What the thread has read still holds when it commits, of the rows that were there.
StillLapsed == checker.at = "commit" => Found \subseteq LapsedRows \cup fresh

\* A lapsed row stays so until it is marked or deleted.
LEMMA LapsedStays ==
  ASSUME Inv, now' \in Nat, now <= now', NEW c \in LapsedRows, subs'[c] = subs[c]
  PROVE  c \in LapsedRows'
<1>1. now \in Nat /\ subs[c].expires \in Nat
  BY Bounds DEF Inv, TypeOK, LapsedRows
<1> QED
  BY <1>1 DEF LapsedRows, Lapsed

LEMMA ExpiryElsewhere ==
  ASSUME Inv, StillLapsed, now' \in Nat, now <= now', UNCHANGED <<table, checker>>
  PROVE  StillLapsed' /\ OnlyLapsedExpire
<1>1. \A c \in LapsedRows : c \in LapsedRows'
  BY LapsedStays DEF table
<1> QED
  BY <1>1 DEF StillLapsed, OnlyLapsedExpire, Found, table

\* A row that is created or deleted: the others are what they were.
LEMMA ExpiryEdit ==
  ASSUME Inv, StillLapsed, NEW c \in Chats, CreateSubscription(c) \/ DeleteSubscription(c)
  PROVE  StillLapsed' /\ OnlyLapsedExpire
<1>1. /\ \A b \in Chats \ {c} : subs'[b] = subs[b] /\ ids'[b] = ids[b]
      /\ UNCHANGED <<now, checker>>
  <2>1. CASE CreateSubscription(c)
    BY <2>1 DEF CreateSubscription, Inv, TypeOK
  <2>2. CASE DeleteSubscription(c)
    BY <2>2 DEF DeleteSubscription, Inv, TypeOK
  <2> QED
    BY <2>1, <2>2
<1>2. CASE CreateSubscription(c)
  <2>1. subs[c] = NoRow /\ c \notin LapsedRows
    BY <1>2 DEF CreateSubscription, LapsedRows, NoRow
  <2>2. checker.at = "commit" => fresh' = fresh \cup {c}
    BY <1>2 DEF CreateSubscription
  <2> QED
    BY <1>1, <2>1, <2>2 DEF StillLapsed, OnlyLapsedExpire, LapsedRows, Lapsed, Found
<1>3. CASE DeleteSubscription(c)
  <2>1. fresh' = fresh /\ ids'[c] = 0 /\ subs'[c] = NoRow
    BY <1>3 DEF DeleteSubscription, Inv, TypeOK
  <2>2. c \notin Found'
    BY <1>1, <2>1 DEF Found, Inv, TypeOK, Ids
  <2> QED
    BY <1>1, <2>1, <2>2 DEF StillLapsed, OnlyLapsedExpire, LapsedRows, Lapsed, Found, NoRow
<1> QED
  BY <1>2, <1>3

LEMMA ExpiryChecker ==
  ASSUME Inv, StillLapsed, Look \/ MarkExpired
  PROVE  StillLapsed' /\ OnlyLapsedExpire
<1>1. CASE Look
  <2>1. checker'.found = {ids[c] : c \in LapsedRows} /\ UNCHANGED <<now, subs, ids, fresh>>
    BY <1>1 DEF Look, table
  \* No two rows have the same id.
  <2>2. Found' \subseteq LapsedRows
    <3>1. \A c \in LapsedRows : ids[c] # 0
      BY DEF LapsedRows, NoRow, Inv, TypeOK, Numbered
    <3> QED
      BY <2>1, <3>1 DEF Found, Inv, TypeOK, Numbered, LapsedRows
  <2> QED
    BY <2>1, <2>2 DEF StillLapsed, OnlyLapsedExpire, LapsedRows, Lapsed
<1>2. CASE MarkExpired
  <2>1. checker'.at = "rest" /\ Found \subseteq LapsedRows \cup fresh
    BY <1>2 DEF MarkExpired, Resting, StillLapsed
  <2>2. \A c \in Chats \ Found : subs'[c] = subs[c]
    BY <1>2 DEF MarkExpired, Expire
  <2> QED
    BY <2>1, <2>2 DEF StillLapsed, OnlyLapsedExpire
<1> QED
  BY <1>1, <1>2

LEMMA ExpiryStep ==
  ASSUME Inv, StillLapsed, [Next]_vars
  PROVE  StillLapsed' /\ [OnlyLapsedExpire]_vars
<1>0. now \in Nat /\ now <= now
  BY Bounds DEF Inv, TypeOK
<1>1. CASE \/ InitSignalEngine \/ InitDispatchers \/ Begin \/ Tick
           \/ CreatePlan \/ UpdatePlan \/ DeletePlan \/ UpdateConfig
           \/ \E s \in Signals : ProcessNewMessage(s)
           \/ \E w \in sending : Acknowledged(w) \/ RecordQuotaUse(w) \/ Count(w) \/ SendFails(w)
  <2>1. UNCHANGED <<table, checker>>
    BY <1>1 DEF InitSignalEngine, InitDispatchers, Begin, Tick, CreatePlan, UpdatePlan,
                DeletePlan, UpdateConfig, ProcessNewMessage, Acknowledged, RecordQuotaUse,
                Count, SendFails, admin
  <2>2. now' = now \/ now' = now + 1
    BY <1>1 DEF InitSignalEngine, InitDispatchers, Begin, Tick, CreatePlan, UpdatePlan,
                DeletePlan, UpdateConfig, ProcessNewMessage, Acknowledged, RecordQuotaUse,
                Count, SendFails
  <2>3. now' \in Nat /\ now <= now'
    BY <1>0, <2>2
  <2> QED
    BY <2>1, <2>3, ExpiryElsewhere
<1>2. CASE \E c \in Chats : CreateSubscription(c) \/ DeleteSubscription(c)
  BY <1>2, ExpiryEdit
<1>3. CASE Look \/ MarkExpired
  BY <1>3, ExpiryChecker
<1>4. CASE UNCHANGED vars
  <2>1. StillLapsed'
    BY <1>4 DEF vars, StillLapsed, LapsedRows, Lapsed, Found
  <2> QED
    BY <1>4, <2>1
<1> QED
  BY <1>1, <1>2, <1>3, <1>4 DEF Next

\* Nobody who was subscribed when the thread looked loses a subscription that has
\* not run out, although the thread decides in one transaction and marks in another,
\* by ids that may have come back in between.
THEOREM OldRowsAreSafe == Spec => OldRowsExpireLapsed
<1>1. Init => StillLapsed
  BY DEF Init, StillLapsed, Resting
<1> QED
  BY <1>1, Typed, ExpiryStep, PTL DEF Spec, OldRowsExpireLapsed
=============================================================================
