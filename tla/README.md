# A TLA+ model of tgwatcher

tgwatcher watches Telegram groups. It crawls their history, listens to new
messages, filters the messages by keyword, asks an LLM whether a message is a
trading signal, stores the answer, and shows and pushes the result (web page,
webhook, Telegram bot, daily digest). Almost everything happens in one process:
a Flask application whose request threads share state with a handful of
background threads and with one asyncio event loop, and all of them share one
SQLite file. The parts that are hard to test are the places where these actors
meet, and those are what is modelled here.

Paths are relative to the repository root, which is `src/` in `PROJECT.json`.

## 1. Inventory

### Threads and shared state

| actor | where it is started | what it does |
|---|---|---|
| Flask request threads | web server | every route; SSE streams occupy one each |
| shared event loop | `web/async_loop.py` | the only place where Telethon runs: crawl, listener, API calls to Telegram |
| crawl thread | `CrawlService.start` | waits up to an hour for the crawl coroutine |
| auto-poll daemon | `web/auto_poll_daemon.py` | starts an incremental crawl when a group's tick is due |
| listener coroutine | `web/listener_daemon.py`, on the shared loop | handlers for new, edited and deleted messages of the live groups |
| signal service thread | `web/signal_service.py` | a batch asked for by a user |
| auto-LLM daemon | `web/auto_llm_daemon.py` | a batch whenever enough work is waiting |
| webhook workers, bot pusher | `webhook.py`, `bot_push.py` | delivery of signals |
| subscription checker | `subscription_checker.py` | marks lapsed subscriptions, once an hour |
| refusal proxy | `glm-proxy/proxy.mjs`, a Node process of its own | stands between the LLM client and its upstream |

They meet in `tg_lock` (a `threading.Lock` around the one Telegram client),
`_stop_event` and `_status` of the crawl service, the rows of the database, and
the SSE bus, to which each of them publishes; further in the pool and cool-downs
of the LLM client, the digest lock, the bot's counters and the listener's flag.

### Components

For each part: its state; its operations; how it meets the others; what makes it
correct. The name in italics is the module that models it.

**SSE event bus** (`web/sse_bus.py`, `web/api/routes_sse.py`,
`web/static/app/sse.js`) - *SSEBus*.
State: the event counter, the replay buffer, the listener list, one bounded
queue per connection; in the browser, the last id seen. Operations: `push`
(two-phase: id, buffer and snapshot of the listeners under the lock, the puts
after it), `register_listener` (replay and registration in one critical
section), `unregister_listener`, the generator, the client's reconnect. Hard: a
listener that registers in the middle of a push, overtaking of pushes, a full
queue, a server restart while the browser keeps its last id. Correct when an
event is neither delivered twice nor silently skipped.

**Crawl service, client lock, auto-poll daemon, crawl routes**
(`web/crawl_service.py`, `web/async_loop.py`, `web/api/_helpers.py`,
`web/auto_poll_daemon.py`, `web/api/routes_crawl.py`) - *CrawlControl*.
State: the running flag, one stop event, the fields that describe the request,
`tg_lock`, the ticks of the groups, the suspension. Operations: start, stop,
re-enable, the pass over the groups, the pause between passes, requests that
borrow the client. Hard: `start` tests and sets `running` in two critical
sections; the lock is acquired on the loop's own thread; a timeout abandons a
coroutine; stop and daemon read and write three variables in different orders.
Correct when one crawl runs, for the request it was started with, a stop ends
it, the lock always has the owner that uses the client, and the loop is never
blocked for good. The last does not hold (see Findings), and the first two only
where calls of `start` do not overlap.

**Signal engine, signal service, auto-LLM daemon, signal rows**
(`signal_engine.py`, `web/signal_service.py`, `web/auto_llm_daemon.py`,
`storage/repositories/signal_repo.py`, part of `web/api/routes_signals.py`) -
*SignalPipeline*.
State: the `signal_factors` row of each message, what each of four threads is
doing, the stop event. Operations: the single-message path, the batch in its two
phases, the save, the reset of stuck rows, the count of pending work. Hard:
saves are read-then-write with no version, four threads may work on one message,
a crash or a locked database between marking and saving. Correct when `is_signal`
agrees with the verdict wherever saves of the row did not overlap, a row in
`processing` is being worked on, and every message gets a row once enough of them
wait.

**Message store** (`storage/repositories/message_repo.py`, `chat_repo.py`,
`storage/facade.py`, `models.py`) - *Ingest*.
State: messages, chats, senders. Operations: save a batch with retries on a
locked database, edit, delete, the largest id known per chat. Hard: crawler and
listener write the same chat, the next crawl starts above the largest id, messages
that are never stored use up the limit of a crawl. Correct
when no message is lost between the two, and a deleted message or an old text
does not come back with a batch that was fetched earlier.

**Live listener and its daemon** (`listener.py`, `web/listener_daemon.py`,
`web/api/routes_listen.py`, the toggle in `web/api/routes_config.py`) -
*ListenerControl*; the three handlers are actions of *Ingest*, what the NewMessage
handler hands to the signal engine is one of *SignalPipeline* and of *Delivery*.
State: one flag, one `asyncio.Event` for the latest run, the daemon's lock.
Operations: start (which connects the shared client first), stop, the coroutine's
begin and end. Hard: the flag is set by a thread and cleared by the loop, a lock is
held while waiting for the loop that will want the same lock, the event belongs to
a run that may not have begun. Correct when a message is never handled by two sets
of handlers and the loop is not made to wait for itself.

**Retention** (`compliance.py`) - the deletion of messages is an action of
*Ingest*. Hard: factors and messages are deleted by different clocks.

**Signal delivery** (`signal_dedup.py`, `webhook.py`, `bot_push.py`,
`subscription_checker.py`, `web/app_state.py`, their routes) - *Delivery*.
State: the window of recent signals, the bot's counters per chat and day, its pool
of threads, configuration, subscriptions and plans. Operations: the dedup test, the
hand-over of a signal to SSE, webhook and bot, the send and its result, the routes
that edit configuration, subscriptions and plans, the expiry round. Hard: quota
tested at dispatch and counted after the send on another thread, a window that a
forwarded story keeps renewing, the engine built before its dispatchers, an expiry
thread that writes by ids which SQLite may have given to another row. Correct
when no story is told twice or swallowed, nobody is charged for nothing, and what
expires has lapsed.

**LLM client** (`signal_llm.py`) - *LLMClient*, which implements
*RefineContract*. State: the chain of providers, a cool-down per provider that all
threads share. Operations: construction, one call through the chain with its
retries, `refine` and `refine_batch` with their fallback to single calls. Hard:
any mixture of refusals, overloads, rate limits, truncations, transient and
permanent errors, while another thread cools down or revives the same provider.
Correct when the chain is gone through to its end and the answers are aligned
with the messages.

**Refusal proxy** (`glm-proxy/proxy.mjs`) - *RefusalProxy*. State: each request's
attempt and response, a header timer per attempt, a cool-down per model.
Hard: a timer of an earlier attempt against the next one, a client that leaves
while its request waits. Correct when a response is of one attempt and every
request ends.

**Digest** (`digest.py`, `routes_digest.py`, `scripts/daily_digest.py`, the
digest step of `web/auto_llm_daemon.py`) - *Digest*. State: the saved digests, the
lock that a user's request and the daemon share, the daemon's clock. Hard: windows
that start where the latest digest ends, dates compared as text, a generation that
fails. Correct when ends and creation agree in order and a due digest is made.

**Configuration** (`config_schema.py`, `routes_config.py`), **schema
migrations** (`migration.py`), **source quality and metrics**
(`source_quality.py`, `web/metrics.py`), **text processing**
(`signal_filter.py`, `codename_map.py`, `parsers.py`, `schemas.py`,
`tz_utils.py`), **checkpoints** (`batch_checkpoint.py`, which nothing in the
application uses), **command line** (`main.py`, one coroutine), **Telegram
session** (`client.py`, `tg_session.py`), **application shell** (`web/app.py`,
`web/api/__init__.py`, the page): sequential code, I/O or wiring. Each has a
note in `PROJECT.json` that says why it is left out, or which module takes it in.

## 2. The modules and the code

### SSEBus

| model | code |
|---|---|
| `eventId`, `events`, `listeners` | `_event_id`, `_events`, `_listeners` |
| `queue[k]` | the `queue.Queue` of connection `k` |
| `push[p]` | a publisher inside `push`: its id and the queues it has not served |
| `conn[c]`, `lastId[c]` | the browser's connection and `_lastSSEId` |
| `PushBegin`, `PushPut` | the critical section of `push`; one `put_nowait` of its loop |
| `Connect` | `connectSSE`, the route and `register_listener`, one critical section |
| `Receive`, `Disconnect`, `Unregister` | the generator and `pump`, a broken connection, the `finally` clause |
| `Restart` | the bus starts again from nothing, the browser does not |

An event is its id. `start`, `offered`, `received`, `excused` and `publisher` are
history: no action reads them. `excused` holds the ids a client has lost for a
reason the code accepts; `LossesAreAccounted` says there is no other loss.
The listener list is a set: a push may serve its snapshot in any order.

*FeedContract* is what a tab may rely on across its connections, under the mapping
`log <- publisher`, `handled <- received`: in one life of the server it handles an
event at most once, and the events of one service thread in the order in which the
thread published them. It may miss events, and those of different threads may
overtake each other.

### CrawlControl

A crawl is a coroutine (`coro[c]`) and the thread that waits for it (`run[c]`).
The coroutine moves only while `blocked = None`, that is while no coroutine sits
in `tg_lock.acquire()` on the loop's thread: that is the whole of asyncio that
matters here.

| model | code |
|---|---|
| `StartCheck`, `StartClear`, `StartSpawn`, `StartRejected` | the sections of `CrawlService.start` |
| `CrawlRefused`, `CrawlEnter`, `LockGranted`, `Connect`, `FetchEnds`, `PauseEnds` | `_crawl`, cut at its awaits; `Forget` and `Finish` are its ends |
| `RunEnds`, `RunCloses` | `_run_loop`: the result or the timeout, then the status |
| `PollUnsuspended`, `PollSkips`, the daemon's `StartCheck` | `AutoPollDaemon.run_loop`: the test of the suspension, a turn without a start, a turn with one |
| `StopCheck`, `StopSignal`, `StopSuspend`, `Reenable` | the stop and auto-poll routes |
| `GuardEnter`, `GuardReturns`, `CallFails`, `GuardFails` | `_tg_client_guard` and `run_coroutine` |

Nothing keeps two callers of `start` apart and nothing ends an incremental crawl
within the hour, so the model has both: `InStart(s)` may hold of several callers,
and `RunEnds` may come at any time, after which the coroutine lives on without its
thread. `overlap` is history: two callers have been between the check and the
setting of the flag at once since the service was last at rest. The properties
that overlapping starts break say so (`~overlap`), and no property supposes that a
crawl ends within its hour.

`took[c]` is whose request a coroutine has read. `_crawl` reads the attributes that
`start` left behind only for the dates and for the catch-up groups; in the modes
incremental and full it crawls every configured group, the daemon's crawl of a
"single" group included (see "Other disagreements met"). So `CrawlEnter` either
reads `request` or nothing, and only a `single` crawl (full, date_range or catchup:
one pass) has an `owner` to compare with.

*ClientContract* is what `tg_lock` is for: the Telegram client has one user or none,
and changes hands through none; here `users` are the crawls and requests that work
with the client, in *ListenerControl* the starts of the listener and the others.

### SignalPipeline

| model | code |
|---|---|
| `row[m]` | `llm_status`, `is_signal` and the verdict of the row of `m` |
| `job[w]` | the local state of a thread: what it has listed, marked, still has to save |
| `SaveReads`, `SaveWrites`, `SaveRaises` | `save_signal_factor`: the SELECT, the commit, a commit that raises (the row was inserted meanwhile, or the database is locked) |
| `Inserted`, `Updated` | column defaults; only the columns that differ from the row read are in the UPDATE |
| `FilterPasses`, `FilterRejects` | phase 1, with the stop check |
| `NextChunk`, `CallLLM`, `JobEnds` | phase 2, chunk by chunk |
| `BatchBegin`, `BatchFails` | `reset_stuck_processing` and `get_unprocessed_messages`; the former meets a locked database |
| `Awaiting`, `CountPending`, `DaemonPoll` | `count_pending` and `run_loop` of the daemon |
| `ListenerReceives`, `Reprocess`, `ServiceStart`, `ServiceStop` | where jobs come from |
| `Crash` | the process ends: threads lose their state, the tables stay |

`torn` and `orphaned` are history: the messages whose row changed between some
save's read and its write, and those a thread had marked when it died or gave up.
`faults` counts restarts and locked databases together.

### Ingest

One chat, from Telegram to its rows in `messages`. A message is its id, the
version of its text, and whether it is blank: service messages have neither text
nor media, are never stored, and count against the limit of a crawl.

| model | code |
|---|---|
| `posted`, `blank`, `version`, `removed` | the chat in Telegram |
| `updates`, `listening` | what Telethon has for the handlers; the handlers are registered |
| `table[m]` | the row of message `m`: its text, `is_deleted` |
| `crawl` | one group's turn in a pass of `_crawl`: `min_id`, the newest id fetched, the list of messages |
| `ids` | the name of the chat in the config, in `entity.id`, in `event.chat_id` |
| `CrawlBegins`, `OtherCrawlBegins` | the choice of `min_id`; modes full, date_range, catchup |
| `FetchNext` | one round of `_fetch_with_stop_check`: `Fetch`, which awaits at its end, or `Skip`, its `continue` |
| `SaveBatch`, `BatchLost` | `save_messages`; the `except` clause or three failed attempts |
| `Inserted`, `IsLastId` | `insert_messages` with its commit condition; `get_last_message_id` |
| `HandleNew`, `HandleEdit`, `HandleDelete` | the handlers of `start_listener` |
| `Wipe`, `Retain` | the delete and purge routes; `run_once` of the cleaner |

`ids` is there because the three names differ in Telethon: an entity has a bare
id, an event of a group or channel a marked one, and the config may hold either
or a username. The code compares them as they are. `passedOver` is history: the
messages that lie below a newer row for a reason the code gives.

*MirrorContract* is what a reader of the table may rely on, with the same four
variables for Telegram and the table and nothing of crawls and handlers: a change of
the table saves texts that the messages have or had, marks a deleted message, or
drops rows. The table may lag behind by any amount.

### ListenerControl

| model | code |
|---|---|
| `pc[c]` | how far a request thread, or start-up (`Boot`), is in a route, in `start_thread` or in `stop` |
| `lock`, `running`, `stopEvent` | `_lock`, `_running`, the run whose event `_stop_event` is |
| `run[r]`, `stops` | the coroutine of run `r`; the runs whose event is set |
| `tgLock`, `up` | `tg_lock`, the shared client exists and is connected |
| `PatchStatus`, `ToggleGroup`, `ToggleEffect` | the two PATCH routes, which read `_running` without the lock |
| `StartEnter`, `GuardEnter`, `GuardConnects`, `GuardFails`, `Submit`, `MarkRunning` | `start_thread` under `_lock`, with `_tg_client_guard` inside |
| `Stop` | `stop` |
| `RunnerBegins`, `HandlersRemoved`, `RunnerEnds` | `_runner` with `run_async` and `start_listener`, cut at its one await |
| `OtherTakes` ... `ConnectionLost` | crawls and requests that use, connect or discard the client |

While a run is `ending` it waits for `_lock` on the loop's thread, and no other
step of the loop is enabled (`LoopFree`). Slots of `Runs` are used again, so that
starts and stops are not bounded in number. What the handlers do is in *Ingest*.

### LLMClient and RefineContract

| model | code |
|---|---|
| `chain` | `fallback_order` without the providers that have no client |
| `cooled[p]` | `_provider_busy_until` of `p`, as the thread that set it |
| `round[t]` | one `_call_with_fallback`: provider, try, what it has called |
| `job[t]` | one `refine`, `refine_batch` or `_call_llm`: its answers, its attempts |
| `Accepted`, `FallbackOrder`, `Pool`, `Kept`, `Init` | `LLMConfig.from_dict`, `SignalLLMClient.__init__` |
| `StartCall`, `WaitIfBusy`, `Wake`, `Retry`, `NextProvider`, `GivesWay` | the loop over providers and tries |
| `Refusal`, `Overloaded`, `Permanent`, `Text`, ... | what an answer does to it |
| `Parsed`, `Assembled`, `AttemptFailed`, `Settle`, `Return` | `refine_batch`: alignment, retries, one call per message |

*RefineContract* is the abstract specification: a caller asks about `n` messages,
answers come in order, each about its own message or nothing, none is taken back,
and the call returns. `ImplementsContract` is the refinement, liveness included,
under the mapping `asked <- job[t].size`, `answers <- job[t].results`.

### RefusalProxy

| model | code |
|---|---|
| `req[r]` | where `handleRequest` is: kind, attempt, `streamHeadersSent` |
| `flow[r]`, `timers[r]` | the local variables of `forwardStreamAggressive`; the header timers that are armed, one per attempt |
| `res[r]` | the client's response: whose status line and whose data it holds |
| `busy`, `waits`, `gone` | `getModelState`, requests inside `waitIfBusy`, clients that closed |
| `Chunk`, `IdleChunk`, `StreamEnds`, `StreamBreaks`, `TimerFires` | the handlers of a stream |
| `PlainAnswer`, `PlainRefusal`, `PlainBreaks` | `forwardNonStream` and what is made of it |
| `RetryOrReply`, `Caught`, `Refused`, `Complete` | the retry loop and its `catch` |

A `writeHead` on a response whose headers are out throws. Where that happens in an
event handler the promise of the attempt is never settled, and the request is
`lost` until its client leaves. `broken` is history: requests one of whose answers
broke off in the middle.

### Delivery

| model | code |
|---|---|
| `app` | the order of `init_services`, and which dispatchers the engine was given |
| `cache`, `Novel`, `Remember` | `SignalDeduper` |
| `queue`, `sending`, `quota` | the bot's thread pool, its `_quota_counter` |
| `subs`, `ids` | the rows of `bot_subscriptions` by chat, and their primary keys |
| `plan`, `bot` | a plan, the bot's configuration |
| `ProcessNewMessage` | the end of `process_new_message`: dedup, webhook, bot, in one step of the loop |
| `Begin`, `Acknowledged`, `RecordQuotaUse`, `Count`, `SendFails` | one `_send` on a worker, cut at the answer, at the look at the day and its counter, and at the count |
| `CreateSubscription` ... `UpdateConfig` | the administrator's routes |
| `Look`, `MarkExpired` | `SubscriptionChecker.run_once`, which reads rows and later updates them by their ids |

A row's id is what SQLite gives it, one above the largest there is (`Follows`). The
ORM class says `autoincrement` (`models.py:176`), which makes no AUTOINCREMENT in
SQLite, and `create_all` (`facade.py:51`) runs before the migration that would have
made one (`migration.py:218`), so the id of a deleted last row comes back. A commit
that misses one of its ids fails as a whole (`Gone`); an id that came back is
another chat's row, or the same chat's new one (`Found`).

`verdict`, `acked` and `fresh` are history; `fresh` holds the chats whose rows were
created between the thread's read and its commit.

### Digest

| model | code |
|---|---|
| `digests`, `ready` | the rows of the digests table, the completed signals |
| `job[a]`, `lock` | a generation of the user's or the daemon's; `_digest_lock` |
| `daemon`, `last` | the loop of `AutoLlmDaemon`, `_last_digest_at` |
| `ComputeWindow`, `FetchSignals`, `LlmAnswers`, `Save`, `GenerationFails` | `generate_digest`, cut where another actor can act |
| `Between` | the comparison of dates as text |
| `Acquire`, `UserGenerates`, `DaemonGenerates`, `DaemonSkips` | who generates |
| `Wake`, `BatchEnds`, `BatchFails`, `Due` | the daemon's round |

*DigestContract* sees a clock, the ends of the digests and since when a generation
has been under way: one at a time, and the digest it leaves ends at a time at which
that generation was under way.

In each module a definition whose comment begins with "Fault" is a plausible
wrong version of the definition after it. No specification uses one; each is
the mutant that shows a property is able to fail.

## 3. The runs

| run | properties | what it shows |
|---|---|---|
| `sse_bus` | `TypeOK`, `RingIsRecentHistory`, `OncePerConnection`, `NothingMissedWhileRegistered`, `PublisherOrderKept`, `LossesAreAccounted` | replay and live delivery together neither repeat nor skip |
| `crawl_control` | `TypeOK`, `LockDiscipline`, `OneCrawlAtATime`, `CrawlServesItsRequest`, `StopEndsCrawl`, `RequestsReturn` | what the crawl service gives when starts overlap and crawls outlast their hour, and what it gives only where starts do not overlap |
| `crawl_loop` | `LoopUnblocks` | violated: see findings |
| `ingest_store` | `TypeOK`, `GapsAreAccounted`, `DeletedStaysDeleted`, `TextNeverGoesBack`, `IncrementalCatchesUp` | what crawl, listener, wipes and retention make of one chat |
| `listener_control` | `TypeOK`, `OneListener`, `LoopNeverWaitsForStart` | start and stop from several threads against the coroutine |
| `signal_rows` | `TypeOK`, `OnlyTornRowsMisflagged`, `ProcessingHasWorker`, `EveryMessageGetsARow` | four threads, restarts and a locked database on the rows of two messages |
| `llm_calls` | `TypeOK`, `GivesUpAfterAll`, `OwnCooldownHonoured`, `ImplementsContract` | two threads share the chain of providers; the refinement |
| `proxy_requests` | `ProxyTypeOK`, `OneSource`, `EveryRequestEnds`, `GoneClientIsReleased` | two requests, retries, timers, clients that leave |
| `delivery` | `TypeOK`, `DedupHolds`, `QuotaIsEarned`, `LapsedIsMarked`, `OldRowsExpireLapsed` | dedup, quotas and expiry while an administrator edits |
| `delivery_wiring` | `NewSignalReachesWebhook` | violated: see findings |
| `digest` | `TypeOK`, `LatestIsLatest`, `DueDigestIsMade` | user and daemon generate digests; failures and restarts |
| `digest_window` | `DigestHoldsItsWindow` | violated: see findings |

### Bounds, and why they are enough

- `sse_bus` (about 710 000 states): two publishers, so that pushes overtake each
  other; two connection handles, so that the client reconnects while the server
  still has its old queue; a buffer and a queue of two, so that both overflow
  with the four events there are; one restart. A third publisher brings only
  another order of the same two-step pushes. `MaxEvents <= QueueSize` is the
  code's own relation (200 and 1024): a replay always fits, and the branch of
  `register_listener` for a full queue cannot be reached.
- `crawl_control` (about 904 000 states): a user and the daemon, whose starts may
  overlap; two crawl slots, so that an abandoned crawl and its successor, or two
  crawls of overlapping starts, are alive at once (with both slots in use a further
  start waits in the model); one request, a contender for the lock of another kind;
  one group, after which a crawl ends or pauses. No bound on the number of starts,
  crawls or stops.
- `crawl_loop`: the same instance. The shortest counterexample has two overlapping
  starts; an instance with the daemon alone gives the one through the hour.
- `signal_rows` (about 512 000 states): all four threads, two messages, chunks
  of one (so that a batch of two has a second chunk and is interrupted between
  them), `MinSignals` of two, so that one waiting message is too few as one to four
  are with the code's default of five, one job of a user or listener besides the
  daemon's, two faults, so that a locked database follows a restart or another one.
  `CHECK_DEADLOCK FALSE`: a system with nothing to do stops.

- `ingest_store` (about 780 000 states): two messages with one edit each, either of
  which may be blank, and a crawl limit of one, so that a pass ends at its limit, a
  blank message uses it up, a batch is out of date when it is saved, and a gap can
  lie below a newer row; every way of naming the
  chat; two upsets, so that a failure may follow a wipe or a user's crawl. A gap
  needs two messages, an overwrite one message and one edit.

- `listener_control` (about 11 000 states, no bound on time or number): start-up,
  three request threads (one starts, one stops, one starts again), two groups so
  that a toggle may leave one, three slots for runs, which suffice (see the module).
- `llm_calls` (about 194 000 states): two threads on two providers, four
  configurations (one or two providers, legacy, in either order), three tries per
  provider (the code's number), two attempts of a batch of two: the fewest with a
  retry in the middle, a batch that is partly right, and a cool-down set by the
  other thread.
- `proxy_requests` (about 475 000 states): two requests of one model, so that each
  feels the other's 503; three attempts, so that one retry is not the last.
- `delivery` (about 651 000 states): three signals of one story with confidence
  1, 2, 1 (a rise and a fall), a window and a day of two units and a horizon of
  two, so that a duplicate outlives the push it repeats and a send crosses
  midnight; two chats, two workers, a quota of one, two edits of the administrator,
  so that a row is deleted and another created with its id during a check.
- `digest` (about 613 000 states): two signals on two days, windows of two units,
  two requests, one failure, one restart, a horizon of three units past the start,
  which holds two intervals of the daemon.

`MaxId`, `MaxVersion`, `MaxUpsets`, `MaxRestarts`, `MaxJobs`, `MaxFaults`,
`MaxEdits`, `MaxRequests`, `MaxFailures`, `Horizon` and `MaxEvents` are the
only bounds in guards (`MaxUpsets` counts failed fetches and saves, stops, users'
crawls, wipes and retention together, and so keeps them from happening for ever);
`Crawls` bounds crawls alive at once, and each member of `Requests` is used once.

### Fairness

`CrawlControl`: the loop serves its ready queue (weak fairness of each coroutine's
next step, which asks for a loop that is not blocked), and a request that has begun
goes on, since its calls have limits of 30 seconds. Nothing is assumed of users, of
the daemon, of a crawl's hour or of a request's first step; and a `Lock` promises no
turn to a waiter, so `LockGranted` has only what weak fairness of its coroutine
gives while the lock is free. `StopEndsCrawl` therefore leaves out the histories in
which the loop is stuck for good (`LoopIsStuck`), those of the finding below.
`SignalPipeline`: the daemon polls and finishes what it has begun. No other
thread has to move and no message has to arrive; so `EveryMessageGetsARow` is the
daemon's own doing.
`Ingest`: crawls begin, fetch and are saved (weak fairness of each), which is the
auto-poll daemon of a group that is not suspended and a loop that runs. Nothing
is assumed of Telegram's updates or of the listener.

`LLMClient`: threads run, sleeps and cool-downs end, calls return (they have a
timeout). Nothing is assumed of callers.
`RefusalProxy`: the loop goes on, clients send their bodies, and upstream does not
stay silent for ever: an answer, its end, or an error. No timer and no client has
to do anything.
`Delivery`: start-up comes to its end and the expiry thread, which it starts, runs
on (weak fairness of `Expiry`, one thread after the other); nothing is assumed of
time, of the pool or of signals. `Digest`: the daemon's waits end (they have a timeout), its
loop and a generation that has begun go on; time need not pass.
`SSEBus` and `ListenerControl` have no liveness property and no fairness.

## 4. Findings

1. **New signals reach neither webhook nor bot** (`delivery_wiring`).
   `init_services` builds the signal engine before the dispatchers and hands it
   `None` for both. The run `delivery` therefore supposes an engine that was given
   its dispatchers.
2. **A digest does not hold its window** (`digest_window`). Dates are stored with a
   blank and compared as text with bounds that have a `T`: a digest misses the rest
   of the day its window starts in and takes too much of the day it ends in.

3. **A crawl can block the shared loop for good** (`crawl_loop`). `async_loop.py:5`
   calls crawls "non-blocking"; their coroutine calls `threading.Lock.acquire()` on
   the loop's own thread. Two crawls of overlapping starts meet there, and so do an
   abandoned crawl and its successor: an incremental crawl ends only by a stop, so
   it outlasts the hour, and a `start` that comes before the coroutine has seen the
   stop event which `_run_loop` sets (it looks every five seconds, and between
   messages) clears that event. The second coroutine then waits for a lock whose
   holder needs the loop to go on. `RequestsReturn` shows that API requests answer
   even then, by their time limits.

### Other disagreements met

Met while modelling, without a run of their own; most are behaviours of the models,
the others lie in code that a model abstracts from:

- `sse_bus.py:44-45` promises recovery of dropped events by replay. After a drop
  later events still enter the queue and the browser's last id passes the dropped
  one (`excused` in SSEBus).
- `crawl_service.py:68-70` tests the running flag in a critical section of its own:
  two overlapping starts make two crawls that share a stop event and the attributes
  of the request (`overlap` in CrawlControl).
- `crawl_service.py:350-351` passes over messages with neither text nor media, which
  `iter_messages` counts against its limit (343-345): after `limit` of them in a row
  incremental crawls find no message to store and begin at the same place for ever
  (`BlankRun` in Ingest).
- `routes_crawl.py:94-97` says a stop keeps the daemon from starting another crawl;
  the daemon tests the suspension once at the top of its loop, and the route sets it
  last.
- `signal_engine.py:122-123` says when a factor is a signal; two saves of one row
  that overlap each write the columns that differ from what they had read, so a
  strong verdict may end as noise (`torn` in SignalPipeline).
- `signal_engine.py:392` and `auto_llm_daemon.py:252` call pending and failed rows
  retryable; the daemon counts them and lists only messages without a row.
- `routes_config.py:57-58` accepts a group by its username; its last id is then
  looked up for chat 0 and every pass fetches the same oldest messages. The same
  happens to a group whose configured id is not the one its entity has (`ids` in
  Ingest). Where events carry a marked id and the config a bare one, the listener
  ignores the group.
- `listener_daemon.py:130-131` creates the event first "so stop() can signal even
  during listener startup"; before the coroutine has begun, `stop` sets the event of
  the run before (or none), the route answers "stopping", and the listener runs on.
  When the client is gone by the time the coroutine begins, it returns and leaves
  `_running` set: the listener can neither be started nor seen to be dead. A client
  that is discarded under a running listener takes the handlers with it while the
  status stays "enabled". A group switched on while the listener runs is not heard
  before the next start. A start waits for `tg_lock` under `_lock`, and an
  incremental crawl keeps that lock until it is stopped, though `start_thread`'s
  docstring (104-106) speaks of sharing the client "without conflict".
- `proxy.mjs:401` delays the headers so that a refused stream can be tried again;
  the handler writes them (433) before it tests the text (438), so a refused stream
  is always cut off. After a stream that broke off in the middle,
  `streamHeadersSent` is still false: the next attempt's `writeHead` throws and the
  request hangs until its client leaves. The cool-down is looked at from the second
  attempt on, and one request's success lifts another's cool-down.
- `signal_llm.py`: all truncations end as "client pool is empty", which is retried,
  so the branch that skips retries for truncation is not reached; `_mark_ok` lifts
  another thread's cool-down; the comment at 433-434 says the active provider is
  always in the order, `from_dict` does not see to it; an item that raises
  `ValueError` fails the attempt of the whole batch.
- `auto_llm_daemon.py:245-247` explains why new messages must be counted lest they
  wait "forever"; up to four of them do (`auto_llm_min_signals` is 5 by default, line
  56), as `test_skip_when_pending_below_min_signals` wants it. A commit that meets a
  locked database ends a batch with its chunk in `processing` (`signal_repo.py:42`,
  `auto_llm_daemon.py:121`); rows there are taken up again only after the reset of a
  later batch.
- `subscription_checker.py:3-5` sets "status='expired' on BotSubscription rows where
  expires_at < now()": a row that was created between the thread's read and its
  commit, with the id of a row deleted meanwhile, is marked as well, live or not
  (`fresh` in Delivery).
- `routes_bot_subs.py`: a PATCH writes `None` to a column that may not be null and
  always fails. A bot enabled at run time without static chats gets no pool. The
  backlog of the pool may exceed a quota, since it is counted after the send. The
  webhook's pool of four may reorder what `webhook.py:38-40` wants in order, and
  `webhook.py:103` cannot encode the date of a live message.
- `digest.py`: the documents say windows of at most 36 hours, the code has 168; a
  signal whose verdict comes after its window's digest is in no digest; a failed
  digest is tried again every minute.
- `auto_poll_daemon.py:108-112` says the next crawl fires at once on re-enabling,
  `routes_crawl.py:172` moves the tick one interval ahead; the log at
  `auto_llm_daemon.py:113` speaks of 60 minutes and waits 60 seconds; a start for a
  single group is accepted and `_crawl` crawls all (`crawl_service.py:148-152`).

## 5. The proofs

TLAPS proves these for every value of the constants that satisfies the assumption
the module names (`SSEAssumption`, `IngestAssumption`, ...: sizes are numbers of at
least one where the code's are, names of different things differ, sets that the
code counts are finite). They cover every invariant and every action property that
the passing runs check, the safety half of the refinement that a run checks, and
five refinements of abstract specifications besides. None of these can be had from the
invariants alone: each needs every action mapped to a step of the contract or to
none.

**SSEBusProofs** - `TypeCorrect`, `RingIsWindow`, `NeverTwice`, `NothingMissed`,
`OwnOrderIsKept`, `NoSilentLoss`, `FeedIsInOrder`.
None of the safety properties is inductive. `OncePerConnection` alone does not
say that the id a push still carries is new to the queues it will fill. The
inductive invariant adds three facts: `PendingIds` (a push that has queues to
fill carries a published id, and two pushes never the same one), `OfferedIds`
(what a connection has been offered is published and includes all its queue
holds), and the window property itself, from which the lemma about `Replay`
gives that a replay is the exact interval above its floor. Then a connection
is offered either the replay of an id or the put of the push that was snapshotted
after it registered, never both and never neither, because both happen under the
bus's lock.

`PublisherOrderKept` speaks of the queues of listeners only, and a queue outlives
its registration; `OrderInv` speaks of every queue and adds `LatestPush`: the id
that a pushing thread carries is its latest, so what it puts comes after all it
has put. `LossesAreAccounted` is inductive with `LossInv`, which adds that the
connection a client reads from is registered and no other client reads from it:
then an id leaves a queue only towards its client, and leaves the way to it only
by an overflow, a break or a restart, and each of these is recorded where the
property looks for it. Ids above `eventId` are excused, since a restart begins to
count anew.

`FeedIsInOrder` is `Spec => Feed!Spec`. It goes across connections, of which the other
properties see one at a time. `FeedInv` says that a tab's Last-Event-ID is above
everything it has handled, so that the replay of its next connection starts after
it, and that what is still in its queue of one thread comes after what the tab has
had from that thread (`Ahead`). The latter rests on `OrderInv`, since a push that is
under way when the tab reconnects may be older than one it has already seen: of
another thread, but not of its own.

**CrawlControlProofs** - `TypeCorrect`, `LockDisciplineHolds`, `ClientExclusion`,
`SecondCrawlNeedsOverlap`, `RequestIsServed`, `ClientUsedInTurn`. None of them has a
hypothesis about the environment. `LockDiscipline` is inductive with the type
invariant: the client has one user even when starts overlap and crawls time out.
`ClientExclusion` is its consequence. `OneCrawlAtATime` and `CrawlServesItsRequest`
speak of the time since starts last overlapped; `StartInv` adds what holds then: a
caller in the middle of `start` is alone and finds no thread that waits for a crawl,
and the shared request fields are those of the `start` under way, or else of the
crawl that has not begun yet. `overlap` falls only when the service is at rest, and
the proof shows that this is enough for both to hold again, abandoned coroutines
notwithstanding.

`ClientUsedInTurn` is `Spec => Client!Spec`: the users are exactly the owner of
`tg_lock`, and no step of crawl, request, watchdog or route passes it from one to
another (`LockPassesThroughNone`).

**IngestProofs** - `TypeCorrect`, `NoUnexplainedGap`, `MarksAreFinal`,
`TextsOnlyGrow`, `TableMirrorsTelegram`, `NothingIsInvented`. A crawl keeps in `batch`
what `GapsAreAccounted` will need only when it is saved, so the invariant adds
`FetchIsContiguous`: what a crawl has passed since its start is in its batch, blank or
deleted, and what lies below the start of an incremental crawl is stored, deleted
or accounted for. `WithinPosted` says that rows and updates are about messages
that exist. The step that uses the commit
condition is `SaveBatch`: a batch that is not committed was stored already.

The two action properties rest on one lemma, `StepOfRow`: what a step may do to the
row of a message and leave it stored. Nothing in it takes a mark away, so
`DeletedStaysDeleted` needs types only. `TextNeverGoesBack` needs `NeverAhead`: a
stored text is no newer than the message, nor than what a crawl under way has
fetched of it, and a new message's update carries its first text. The first text
of a message that has a row changes nothing because its batch of one has no
message without a row (`InsertedRow`). `NeverAhead` holds as long as edit events do
not find their rows, which is the property's own hypothesis.

`TableMirrorsTelegram` is `Spec => Mirror!Spec`, for every way of naming the chat. Its
invariant is `Truthful`: what is on its way to the table, in a batch or an update, is
about a message that exists, with a text it has or had, and a deletion that is
announced has happened. `NothingIsInvented` then follows from the contract alone.

**ListenerControlProofs** - `TypeCorrect`, `OneListenerHolds`, `LoopNeverWaits`,
`ClientUsedInTurn`.
`OneListener` does not say that a start which was let through is alone. The
invariant adds `StartIsAlone` (while a start is under way the flag is not set, and
no coroutine is alive until it submits one), `AliveIsMarked` (a coroutine that is
alive has the flag set, but for the moment after its submission, when its event
cannot have been set yet) and `EndsWhenTold` (a coroutine ends because its event
was set). Then a start and an ending coroutine exclude each other: the flag is set
under the lock before a stop can get it.
`ClientUsedInTurn` says that the starts keep the contract of the client that crawls and
requests keep; it needs type correctness only, which names the holder of the lock.

**SignalPipelineProofs** - `TypeCorrect`, `FlagsAreRight`, `MarksAreKept`,
`FilterRespected`. Type correctness goes through `GoodJob`: a chunk is no larger than `llm_batch_size`, its
messages are stored, and a row that a thread has read is still there when it saves
over it. `ProcessingHasWorker` is not inductive: a thread that read "completed"
leaves the status out of its UPDATE, and so keeps a mark another thread has set.
`MarkHasWorker` therefore names a worker that *will unmark* the row (`WillUnmark`):
it is still marking its chunk, or has this message left to save, or has read a row
that was neither completed nor failed. A save that raises, for a duplicate row or a
locked database, is a step of the proof like any other: it orphans its chunk.

`FilterRespected` relates what a thread remembers of the keyword filter, by where it
has put a message, to rows that several threads write column by column. Only
messages that pass are marked, assessed or failed, and only others are skipped:
`JobsSorted` says that lists and chunks hold what passes and that a save of the
filter phase is of a message that does not, `ChunkShape` that a save of the later
phases is of the chunk, and `AllFit` that any mixture of the columns of such saves
fits. It supposes, as the model does, that texts and keywords stay what they are.

**LLMClientProofs** - `TypeCorrect`, `NobodyLeftOut`, `CooldownsHonoured`,
`RefinesContract`. `GivesUpAfterAll` needs `Tried`: the providers a run through the
chain has called are those of the places before its own, and that one too once it
has been called; with the chain's end every place is covered, however often a
provider is named. `OwnCooldownHonoured` needs `SleepsItOut`: a thread that is
asleep while its own cool-down is in force still waits, since what wakes it is the
end of that cool-down, or another thread's that took its place.
`RefinesContract` is `Spec => Contract!Safety`, the initial states and every step
of `ImplementsContract`. `JobInv` says what it rests on: answers settled so far are
those of the first messages, in order, each nothing or about its own message.

In the same module, which extends *RefusalProxy* as well, `ProxyTypeCorrect`,
`NeverMixed` and `AnswersAreFinal` are about the proxy between the client and its upstream; the two share
no state, and the proxy's specification has names of its own. `OneSource` is not inductive, since an attempt
writes where the headers are out already. `Sends` adds that the headers an attempt
believes it sent are its own, `Fresh` that before the first attempt there are
neither headers nor timers. A timer left over by a broken attempt then writes only
where nothing is written, and the attempt that comes later finds the headers taken.
`AnswersAreFinal` is an action property: a status line is written once, data is never
taken back, and a response that has ended is left alone. It needs `EndedIsDone`
(`handleRequest` has left whoever has its answer), and that every step is one of some
request (`Adds`), which only adds to that request's response.

**DigestProofs** - `TypeCorrect`, `InOrder`, `OneGenerationAtATime`. `LatestIsLatest` compares rows that
exist; `Timely` carries the order from the moment a window is fixed: no digest ends
in the future, and the window of a generation under way ends neither in the future
nor before any digest, because nobody else saves while it holds `_digest_lock`.
Type correctness itself needs the order: the start of the next window is the
greatest of the ends, which the proof finds at the end of the sequence.
`OneGenerationAtATime` is `Spec => Contract!Spec`. `AllDated` says that a generation
began in the past and that its window, once fixed, ends no earlier than that; a
window widened for want of signals keeps its end.

**DeliveryProofs** - `TypeCorrect`, `QuotasAreEarned`, `StoriesAreToldOnce`,
`OldRowsAreSafe`.
`QuotaIsEarned` needs `Earned`: a send that is about to count has looked its counter
up and its own acknowledgement is in `acked` already, so the count it will write, which may overwrite
another's, is no larger than what was acknowledged. `DedupHolds` needs `Filtered`:
what the cache holds are past decisions, on signals pushed and on signals held back
alike (a duplicate is remembered too), and every decision within the window is in
it. So a signal is compared with all it must be compared with, and the entry that
holds it back is a push, or a duplicate that a push stands behind.
`OldRowsAreSafe` is the action property `OldRowsExpireLapsed`. The thread reads and
commits apart, so it needs `StillLapsed`: at the commit the rows with the ids it has
read are lapsed, or were created since the read. A lapsed row stays lapsed because
time does not go back and no route changes its date, and keeps its id until it is
deleted; no two rows have the same id (`Numbered`), so what a fresh row gets is at
worst the id of one that is gone.

Left to TLC are the liveness properties (fairness and ENABLED are beyond this
prover): `StopEndsCrawl`, `RequestsReturn`, `IncrementalCatchesUp`,
`EveryMessageGetsARow`, `EveryRequestEnds`, `GoneClientIsReleased`, `LapsedIsMarked`,
`DueDigestIsMade`, and the liveness half of `ImplementsContract`. The three violated
properties have counterexamples, not proofs.

## 6. What is not modelled

- In the modelled parts: a crawl with its own client or its own loop
  (`crawl_service.py:131-136, 195-199`, used only without the shared ones), messages
  too short to be processed, whether a signal's message is deleted, the order of a
  batch, the daemons' shutdown, the ticks of individual groups (in each turn of the
  poll some group is due, or none is).
- In Ingest: senders and chat titles, how dates
  choose the first message of a catch-up (any start is possible), a wipe that falls
  between the SELECT and the commit of one save. How Telethon names chats is
  external, as is which updates it delivers.
- Wording, logging, metrics, formatting of status texts, HTML and styling.
- Telegram, the LLM provider, SQLite and Flask are the environment: a call
  succeeds, fails or takes long. A transaction is atomic, a `threading.Lock` is
  not fair.
- In ListenerControl: the branch for a missing event loop (start-up always makes
  one), the handler of a crash in `_runner` (nothing it guards raises: the client
  was tested in the same step of the loop), the events sent to the page.
- In LLMClient and RefusalProxy: lengths of delays and cool-downs, prompts, the
  parsing of JSON out of prose, HTTP. An answer is known by which messages it is
  about and whether it validates.
- In Delivery: the webhook's own pool and signatures, `send_test`, the PATCH of a
  subscription (it always fails), message texts, several plans. What passes a
  chat's filters is fixed (`Wants`).
- In Digest: weights, prompt and prose, the read-only routes, the script that only
  reads.
- Schema migrations (a sequence of idempotent statements before any thread
  starts), configuration checking, source quality and metrics, checkpoints that no
  code calls, text processing, the command-line crawler and the page: sequential
  code or wiring, each with its note in `PROJECT.json`.

## 7. Plan

Modelled so far: every component in which more than one actor acts. Proved: every
safety property of the passing runs, and refinements of five contracts. Next:

1. A composed module of Ingest and SignalPipeline for the deletion of factors and
   messages by different clocks, and for ids that are unique only per chat.
2. Abstract specifications for the two parts that have invariants only: the delivery
   of a signal (decided once, pushed or held back, acknowledged at most once per
   chat) and the life of a signal row, where `torn` marks what a contract would have
   to leave open.
3. The contracts composed: a crawl service and a listener that share one client
   through ClientContract, in place of the part that each module keeps of the other.
