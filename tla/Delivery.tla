------------------------------ MODULE Delivery ------------------------------
(***************************************************************************)
(* How a new signal leaves the program, and to whom: the start-up order of *)
(* web/app_state.py, process_new_message of signal_engine.py, the filter   *)
(* of signal_dedup.py, the hand-over to webhook.py, the pusher of          *)
(* bot_push.py with its thread pool and daily quotas, the subscriptions    *)
(* and plans of routes_bot_subs.py and routes_bot_plans.py, and the expiry *)
(* thread of subscription_checker.py.                                      *)
(*                                                                         *)
(* process_new_message runs inside the listener's event loop and awaits    *)
(* nothing, so one signal is handled at a time and its handling is a step. *)
(* Texts, scores and event types are abstracted to what the filters say.   *)
(***************************************************************************)
EXTENDS Naturals, Sequences, FiniteSets, SequencesExt

CONSTANTS
  Signals,    \* messages that the LLM calls a signal
  KeyOf,      \* their (symbols, direction, event type)
  Confidence, \* their confidence
  Dated,      \* signals whose message carries its date: every live one does
  Injected,   \* dispatchers given to the engine besides those of app_state
  Window,     \* dedup.window_seconds
  Chats,      \* chats that may subscribe
  Wants,      \* the signals that a chat's min_score and event_types let pass
  Rows,       \* subscriptions an administrator creates
  MaxQuota,   \* bound on plan.max_signals_per_day
  Workers,    \* bot.max_workers
  DayLength,  \* length of a UTC day
  Horizon,    \* bound on time
  BotConfigs, \* signal.bot as it may be configured: [enabled, chats]
  MaxEdits    \* bound on the administrator's requests

Dispatchers == {"webhook", "bot"}
Times       == 0..Horizon
Days        == {t \div DayLength : t \in Times}
Statuses    == {"active", "expired", "cancelled"}  \* "trial" acts as cancelled

ASSUME DeliveryAssumption ==
  /\ Window \in Nat /\ MaxQuota \in Nat /\ Horizon \in Nat /\ MaxEdits \in Nat
  /\ Workers \in Nat \ {0} /\ DayLength \in Nat \ {0}
  /\ Confidence \in [Signals -> Nat]
  /\ Dated \subseteq Signals
  /\ IsFiniteSet(Chats)
  /\ Injected \subseteq Dispatchers
  /\ Wants \in [Chats -> SUBSET Signals]
  /\ BotConfigs \subseteq [enabled : BOOLEAN, chats : SUBSET Chats]
  \* an expiry beyond the horizon stands for none
  /\ Rows \subseteq [on : BOOLEAN, status : Statuses, expires : Nat, planned : BOOLEAN]

VARIABLES
  now,
  app,      \* start-up: the next step, and the dispatchers the engine holds
  cache,    \* SignalDeduper._cache, per key
  hooked,   \* signals whose body was submitted to the webhook pool
  bot,      \* BotPusher: enabled, its pool exists, the static chat_ids
  queue,    \* sends the pool has not begun
  sending,  \* sends the workers are at
  quota,    \* BotPusher._quota_counter, per chat and day
  subs,     \* bot_subscriptions, by chat_id
  ids,      \* the id of each row, 0 where there is none
  plan,     \* the row of subscription_plans, if any
  checker,  \* the expiry thread: the ids it has read
  edits

\* History: when each signal was decided on, the acknowledged sends per chat and
\* day of their counting, and the chats whose rows were created since the thread's
\* read, while it has not committed.
VARIABLES verdict, acked, fresh

pool    == <<queue, sending, quota, acked>>
table   == <<subs, ids, fresh>>
admin   == <<table, plan, checker, edits>>
vars    == <<now, app, cache, hooked, bot, queue, sending, quota, subs, ids, plan,
             checker, edits, verdict, acked, fresh>>

NoRow     == [on |-> FALSE, status |-> "absent", expires |-> 0, planned |-> FALSE]
NoPlan    == [exists |-> FALSE, max |-> 0, enabled |-> FALSE]
Resting   == [at |-> "rest", found |-> {}]
Undecided == [at |-> 0, kind |-> "none"]
Keys      == {KeyOf[s] : s \in Signals}
Today     == now \div DayLength
Ids       == 1..(Cardinality(Chats) + MaxEdits)

\* The primary key: every row has an id, and no two rows have the same.
Numbered ==
  /\ \A c \in Chats : ids[c] = 0 <=> subs[c] = NoRow
  /\ \A b, c \in Chats : b # c /\ ids[b] = ids[c] => ids[b] = 0

Init ==
  /\ now = 0
  /\ app = [next |-> "engine", holds |-> {}]
  /\ cache = [k \in Keys |-> {}]
  /\ hooked = {}
  /\ \E b \in BotConfigs :
       bot = [enabled |-> b.enabled, executor |-> b.enabled, chats |-> b.chats]
  /\ queue = <<>>
  /\ sending = {}
  /\ quota = [c \in Chats |-> [d \in Days |-> 0]]
  /\ subs \in [Chats -> Rows \cup {NoRow}]
  /\ ids \in [Chats -> 0..Cardinality({c \in Chats : subs[c] # NoRow})]
  /\ Numbered
  /\ plan \in {NoPlan, [exists |-> TRUE, max |-> MaxQuota, enabled |-> TRUE]}
  /\ checker = Resting
  /\ edits = 0
  /\ verdict = [s \in Signals |-> Undecided]
  /\ acked = [c \in Chats |-> [d \in Days |-> 0]]
  /\ fresh = {}

-----------------------------------------------------------------------------
(* init_services: the engine is built from what app_state holds by then,   *)
(* and app_state's two dispatchers are still None                          *)

InitSignalEngine ==
  /\ app.next = "engine"
  /\ app' = [next |-> "dispatchers", holds |-> Injected]
  /\ UNCHANGED <<now, cache, hooked, bot, pool, admin, verdict>>

InitDispatchers ==
  /\ app.next = "dispatchers"
  /\ app' = [app EXCEPT !.next = "up"]
  /\ UNCHANGED <<now, cache, hooked, bot, pool, admin, verdict>>

Up == app.next = "up"

-----------------------------------------------------------------------------
(* SignalDeduper.should_emit                                               *)

Remembered(s) == {e \in cache[KeyOf[s]] : e.at + Window > now}
\* Fault: an equally confident signal is let through.
NovelOrEqual(s) == \A e \in Remembered(s) : Confidence[s] >= e.confidence

Novel(s) == \A e \in Remembered(s) : Confidence[s] > e.confidence

\* Emitted or not, a signal is remembered from now on, with its own time.
Remember(s) ==
  cache' = IF Window = 0 THEN cache
           ELSE [cache EXCEPT ![KeyOf[s]] =
                   Remembered(s) \cup {[at |-> now, confidence |-> Confidence[s]]}]

-----------------------------------------------------------------------------
(* BotPusher._get_subscribers and _check_quota                             *)

Lapsed(c)   == subs[c].expires < now
Eligible(c, s) ==
  /\ subs[c].on /\ subs[c].status = "active"
  /\ ~Lapsed(c)
  /\ s \in Wants[c]

\* A missing plan and a quota of 0 are unlimited; plan.enabled is not looked at.
Limited(c)   == subs[c].planned /\ plan.exists /\ plan.max > 0
OverQuota(c) == Limited(c) /\ quota[c][Today] >= plan.max

Subscribers(s) == {c \in Chats : Eligible(c, s) /\ ~OverQuota(c)}

\* The sends of one signal, in the order of the rows.
Sends(cs, s) == SetToSeq({[chat |-> c, signal |-> s] : c \in cs})

-----------------------------------------------------------------------------
(* SignalEngine.process_new_message, for a message that is a signal        *)

\* WebhookDispatcher.dispatch: json.dumps refuses the datetime of a live
\* message's payload, before any endpoint is given the body.
WebhookDispatch(s) ==
  hooked' = IF "webhook" \in app.holds /\ s \notin Dated THEN hooked \cup {s} ELSE hooked

\* BotPusher.dispatch; when the query fails the static chats are used.
BotDispatch(s) ==
  IF ~("bot" \in app.holds /\ bot.enabled /\ bot.executor)
  THEN UNCHANGED queue
  ELSE \E cs \in {Subscribers(s), bot.chats} : queue' = queue \o Sends(cs, s)

Push(s) ==
  /\ Window = 0 \/ Novel(s)
  /\ verdict' = [verdict EXCEPT ![s] = [at |-> now, kind |-> "pushed"]]
  /\ WebhookDispatch(s)
  /\ BotDispatch(s)

Suppress(s) ==
  /\ Window > 0 /\ ~Novel(s)
  /\ verdict' = [verdict EXCEPT ![s] = [at |-> now, kind |-> "duplicate"]]
  /\ UNCHANGED <<hooked, queue>>

ProcessNewMessage(s) ==
  /\ Up /\ verdict[s].kind = "none"
  /\ Remember(s)
  /\ Push(s) \/ Suppress(s)
  /\ UNCHANGED <<now, app, bot, sending, quota, acked, admin>>

-----------------------------------------------------------------------------
(* BotPusher._send, on a thread of the pool                                *)

Begin ==
  /\ queue # <<>> /\ Cardinality(sending) < Workers
  /\ sending' = sending \cup {[task |-> Head(queue), at |-> "post", day |-> 0, used |-> 0]}
  /\ queue' = Tail(queue)
  /\ UNCHANGED <<now, app, cache, hooked, bot, quota, acked, admin, verdict>>

\* Answered 2xx; what the success lock guards is not modelled.
Acknowledged(w) ==
  /\ w \in sending /\ w.at = "post"
  /\ sending' = (sending \ {w}) \cup {[w EXCEPT !.at = "answered"]}
  /\ UNCHANGED <<now, app, cache, hooked, bot, queue, quota, acked, admin, verdict>>

\* _record_quota_use looks up the day and its counter, without the lock.
RecordQuotaUse(w) ==
  /\ w \in sending /\ w.at = "answered"
  /\ LET c == w.task.chat
     IN  /\ sending' = (sending \ {w}) \cup
                         {[w EXCEPT !.at = "count", !.day = Today, !.used = quota[c][Today]]}
         /\ acked' = [acked EXCEPT ![c][Today] = acked[c][Today] + 1]
  /\ UNCHANGED <<now, app, cache, hooked, bot, queue, quota, admin, verdict>>

Count(w) ==
  /\ w \in sending /\ w.at = "count"
  /\ sending' = sending \ {w}
  /\ quota' = [quota EXCEPT ![w.task.chat][w.day] = w.used + 1]
  /\ UNCHANGED <<now, app, cache, hooked, bot, queue, acked, admin, verdict>>

\* Fault: the quota is charged before the answer is looked at.
SendFailsCharged(w) ==
  /\ w \in sending /\ w.at = "post"
  /\ sending' = (sending \ {w}) \cup
       {[w EXCEPT !.at = "count", !.day = Today, !.used = quota[w.task.chat][Today]]}
  /\ UNCHANGED <<now, app, cache, hooked, bot, queue, quota, acked, admin, verdict>>

\* An error answer, or none within the timeout: counted as failed, not repeated.
SendFails(w) ==
  /\ w \in sending /\ w.at = "post"
  /\ sending' = sending \ {w}
  /\ UNCHANGED <<now, app, cache, hooked, bot, queue, quota, acked, admin, verdict>>

-----------------------------------------------------------------------------
(* The administrator. PATCH of a subscription is no action: it writes NULL *)
(* to updated_at, which the table refuses, and is rolled back.             *)

Edit == Up /\ edits < MaxEdits /\ edits' = edits + 1

\* Fault: a new row is numbered by how many there are.
FollowsCount(n) == n = Cardinality({c \in Chats : ids[c] # 0}) + 1

\* SQLite numbers a new row after the largest id there is: create_all has made
\* the table without AUTOINCREMENT, so the id of a deleted last row comes back.
Follows(n) == (\A c \in Chats : ids[c] < n) /\ \E c \in Chats : ids[c] = n - 1

CreateSubscription(c) ==
  /\ Edit
  /\ subs[c] = NoRow
  /\ subs' \in {[subs EXCEPT ![c] = r] : r \in Rows}
  /\ ids' \in {[ids EXCEPT ![c] = n] : n \in {i \in Ids : Follows(i)}}
  /\ fresh' = IF checker.at = "commit" THEN fresh \cup {c} ELSE {}
  /\ UNCHANGED <<now, app, cache, hooked, bot, pool, plan, checker, verdict>>

DeleteSubscription(c) ==
  /\ Edit
  /\ subs[c] # NoRow
  /\ subs' = [subs EXCEPT ![c] = NoRow]
  /\ ids' = [ids EXCEPT ![c] = 0]
  /\ UNCHANGED <<now, app, cache, hooked, bot, pool, plan, checker, verdict, fresh>>

CreatePlan ==
  /\ Edit
  /\ ~plan.exists
  /\ \E m \in 0..MaxQuota, on \in BOOLEAN :
       plan' = [exists |-> TRUE, max |-> m, enabled |-> on]
  /\ UNCHANGED <<now, app, cache, hooked, bot, pool, table, checker, verdict>>

UpdatePlan ==
  /\ Edit
  /\ plan.exists
  /\ \E m \in 0..MaxQuota : plan' = [plan EXCEPT !.max = m]
  /\ UNCHANGED <<now, app, cache, hooked, bot, pool, table, checker, verdict>>

DeletePlan ==
  /\ Edit
  /\ plan.exists
  /\ plan' = [plan EXCEPT !.enabled = FALSE]
  /\ UNCHANGED <<now, app, cache, hooked, bot, pool, table, checker, verdict>>

\* update_config: the pool is made only when there are static chats.
UpdateConfig ==
  /\ Edit
  /\ \E b \in BotConfigs :
       bot' = [enabled |-> b.enabled, chats |-> b.chats,
               executor |-> bot.executor \/ (b.enabled /\ b.chats # {})]
  /\ UNCHANGED <<now, app, cache, hooked, pool, table, plan, checker, verdict>>

-----------------------------------------------------------------------------
(* SubscriptionChecker.run_once: a read, then a commit that updates rows by *)
(* their ids and fails as a whole when it misses one                       *)

LapsedRows == {c \in Chats : subs[c].status = "active" /\ Lapsed(c)}

\* Fault: rows that run out within the hour are taken as well.
LookAhead ==
  /\ Up /\ checker.at = "rest"
  /\ LapsedRows # {}
  /\ checker' = [at |-> "commit",
                 found |-> {ids[c] : c \in {b \in Chats : subs[b].status = "active"}}]
  /\ UNCHANGED <<now, app, cache, hooked, bot, pool, table, plan, edits, verdict>>

Look ==
  /\ Up /\ checker.at = "rest"
  /\ LapsedRows # {}
  /\ checker' = [at |-> "commit", found |-> {ids[c] : c \in LapsedRows}]
  /\ UNCHANGED <<now, app, cache, hooked, bot, pool, table, plan, edits, verdict>>

\* The rows by their ids, whoever they belong to by now.
Found == {c \in Chats : ids[c] \in checker.found}
Gone  == \E i \in checker.found : \A c \in Chats : ids[c] # i

Expire(cs) ==
  subs' = [c \in Chats |-> IF c \in cs THEN [subs[c] EXCEPT !.status = "expired"] ELSE subs[c]]

\* Fault: the failed commit ends the thread.
MarkExpiredOrDie ==
  /\ checker.at = "commit" /\ ~Gone
  /\ checker' = Resting
  /\ Expire(Found)
  /\ fresh' = {}
  /\ UNCHANGED <<now, app, cache, hooked, bot, pool, ids, plan, edits, verdict>>

MarkExpired ==
  /\ checker.at = "commit"
  /\ checker' = Resting
  /\ IF Gone THEN UNCHANGED subs ELSE Expire(Found)
  /\ fresh' = {}
  /\ UNCHANGED <<now, app, cache, hooked, bot, pool, ids, plan, edits, verdict>>

Tick ==
  /\ Up /\ now < Horizon
  /\ now' = now + 1
  /\ UNCHANGED <<app, cache, hooked, bot, pool, admin, verdict>>

-----------------------------------------------------------------------------
Next ==
  \/ InitSignalEngine \/ InitDispatchers
  \/ \E s \in Signals : ProcessNewMessage(s)
  \/ Begin
  \/ \E w \in sending : Acknowledged(w) \/ RecordQuotaUse(w) \/ Count(w) \/ SendFails(w)
  \/ \E c \in Chats : CreateSubscription(c) \/ DeleteSubscription(c)
  \/ CreatePlan \/ UpdatePlan \/ DeletePlan \/ UpdateConfig
  \/ Look \/ MarkExpired
  \/ Tick

Spec == Init /\ [][Next]_vars

\* Start-up goes on until it has started the expiry thread, and run_loop looks
\* once an hour from then on for as long as the process lives.
Expiry == InitSignalEngine \/ InitDispatchers \/ Look \/ MarkExpired

FairSpec == Spec /\ WF_vars(Expiry)

-----------------------------------------------------------------------------
(* Properties                                                              *)

Tasks == [chat : Chats, signal : Signals]

\* The values the variables take; no more sends are under way than the pool has
\* workers, and each row has an id of its own although ids come back.
TypeOK ==
  /\ now \in Times
  /\ app \in [next : {"engine", "dispatchers", "up"}, holds : SUBSET Dispatchers]
  /\ cache \in [Keys -> SUBSET [at : Times, confidence : Nat]]
  /\ hooked \subseteq Signals
  /\ bot \in [enabled : BOOLEAN, executor : BOOLEAN, chats : SUBSET Chats]
  /\ queue \in Seq(Tasks)
  /\ sending \subseteq [task : Tasks, at : {"post", "answered", "count"}, day : Days, used : Nat]
  /\ Cardinality(sending) <= Workers
  /\ quota \in [Chats -> [Days -> Nat]]
  /\ subs \in [Chats -> [on : BOOLEAN, status : Statuses \cup {"absent"}, expires : Nat,
                         planned : BOOLEAN]]
  /\ plan \in [exists : BOOLEAN, max : 0..MaxQuota, enabled : BOOLEAN]
  /\ ids \in [Chats -> Ids \cup {0}] /\ Numbered
  /\ checker \in [at : {"rest", "commit"}, found : SUBSET Ids]
  /\ edits \in 0..MaxEdits
  /\ verdict \in [Signals -> [at : Times, kind : {"none", "pushed", "duplicate"}]]
  /\ acked \in [Chats -> [Days -> Nat]]
  /\ fresh \subseteq Chats

SameStory(s, t) == s # t /\ KeyOf[s] = KeyOf[t]
Pushed(s)       == verdict[s].kind = "pushed"

\* Of two pushes of one story within the window the later is the more confident,
\* so nobody is told twice (signal_dedup.py:44-81) ...
PushesRise ==
  \A s, t \in Signals :
    /\ SameStory(s, t) /\ Pushed(s) /\ Pushed(t)
    /\ verdict[s].at <= verdict[t].at /\ verdict[t].at < verdict[s].at + Window
    => /\ Confidence[s] # Confidence[t]
       /\ verdict[s].at < verdict[t].at => Confidence[s] < Confidence[t]

\* ... and what is held back has been told before, at least as confidently, even
\* though a duplicate may have been compared with duplicates only.
DuplicatesWereTold ==
  \A t \in Signals : verdict[t].kind = "duplicate" =>
    \E s \in Signals : /\ SameStory(s, t) /\ Pushed(s)
                       /\ verdict[s].at <= verdict[t].at
                       /\ Confidence[s] >= Confidence[t]

\* The filter neither repeats a story nor swallows one, whatever the order of
\* arrival, the expiry of entries and the confidences.
DedupHolds == PushesRise /\ DuplicatesWereTold

\* A chat is charged on a day for no more signals than there are sends that it
\* acknowledged and whose counting began that day: failed sends, concurrent
\* unlocked counting, midnight between dispatch, answer and count and changes of
\* plan never cost a subscriber a message (bot_push.py:145-168, 266-276).
QuotaIsEarned == \A c \in Chats, d \in Days : quota[c][d] <= acked[c][d]

\* Subscriptions that have lapsed are all marked expired or deleted in the end,
\* though a deletion during the check fails the commit for all of its rows
\* (subscription_checker.py:28-60).
LapsedIsMarked == LapsedRows # {} ~> LapsedRows = {}

\* A subscription that was there when the thread looked becomes expired only if it
\* has run out by then. One created since may have been given the id of a row that
\* the thread has read and an administrator deleted, and is then marked in its
\* place, live or not (subscription_checker.py:33-46).
OnlyLapsedExpire ==
  \A c \in Chats :
    subs[c] # NoRow /\ subs'[c].status = "expired"
      => subs[c].status = "expired" \/ c \in LapsedRows \cup fresh

OldRowsExpireLapsed == [][OnlyLapsedExpire]_vars

\* What is pushed as new_signal is handed to the webhook as well: "webhook
\* dispatch: same trigger condition as `new_signal` SSE" (signal_engine.py:397).
NewSignalReachesWebhook == \A s \in Signals : Pushed(s) => s \in hooked
=============================================================================
