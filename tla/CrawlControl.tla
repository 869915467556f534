---------------------------- MODULE CrawlControl ----------------------------
(***************************************************************************)
(* Who crawls, and who holds the Telegram client: CrawlService of          *)
(* web/crawl_service.py (start, stop, _run_loop, _crawl), the auto-poll    *)
(* daemon of web/auto_poll_daemon.py that starts crawls, the stop and      *)
(* re-enable routes of web/api/routes_crawl.py, and the API requests that  *)
(* take the same client through _tg_client_guard (web/api/_helpers.py).    *)
(*                                                                         *)
(* A crawl is two things: a coroutine on the one shared event loop, which  *)
(* does the work, and a thread that waits for it with a one-hour limit.    *)
(* tg_lock is a threading.Lock that the coroutine acquires on the loop's   *)
(* own thread, so waiting for it stops every coroutine. Messages, counters *)
(* and the texts of the status are abstracted away.                        *)
(***************************************************************************)
EXTENDS Naturals, FiniteSets

CONSTANTS
  Users,        \* API and catch-up threads that call CrawlService.start
  Daemon,       \* the auto-poll thread, which calls it too
  Crawls,       \* slots for crawls: bounds how many are alive at once
  Requests,     \* API requests under _tg_client_guard, one use each
  NumGroups,    \* configured groups, crawled one after the other
  None

Starters == Users \cup {Daemon}
Holders  == Crawls \cup Requests

ASSUME CrawlAssumption ==
  /\ Daemon \notin Users
  /\ Crawls \cap Requests = {}
  /\ None \notin Holders \cup Starters
  /\ NumGroups \in Nat \ {0}

VARIABLES
  running,     \* _status["running"]
  stopEvent,   \* _stop_event, one for all crawls
  request,     \* who last wrote _crawl_offset_date, _catchup_groups, ...
  tgLock,      \* holder of tg_lock
  blocked,     \* the coroutine whose tg_lock.acquire() blocks the loop thread
  run,         \* the _run_loop thread of each crawl
  coro,        \* the _crawl coroutine of each crawl
  mode,        \* its mode: incremental crawls repeat, the others make one pass
  group,       \* the group it is fetching
  owner,       \* the caller of start() that a single crawl belongs to
  took,        \* whose request fields it read when it began, if it reads them
  caller,      \* how far each caller of start() is
  overlap,     \* history: starts have overlapped since the service was idle
  suspended,   \* _auto_poll_stop_requested
  stopper,     \* how far a POST /crawl/stop is
  req          \* how far each request under _tg_client_guard is

flags  == <<running, stopEvent, request>>
lock   == <<tgLock, blocked>>
crawls == <<run, coro, mode, group, owner, took>>
starts == <<caller, overlap>>
routes == <<suspended, stopper>>
vars   == <<running, stopEvent, request, tgLock, blocked, run, coro, mode, group,
            owner, took, caller, overlap, suspended, stopper, req>>

Modes == {"incremental", "single"}   \* single: full, date_range or catchup

Init ==
  /\ running = FALSE
  /\ stopEvent = FALSE
  /\ request = None
  /\ tgLock = None
  /\ blocked = None
  /\ run = [c \in Crawls |-> "none"]
  /\ coro = [c \in Crawls |-> "none"]
  /\ mode = [c \in Crawls |-> "incremental"]
  /\ group = [c \in Crawls |-> 0]
  /\ owner = [c \in Crawls |-> None]
  /\ took = [c \in Crawls |-> None]
  /\ caller = [s \in Starters |-> "idle"]
  /\ overlap = FALSE
  /\ suspended = FALSE
  /\ stopper = "idle"
  /\ req = [r \in Requests |-> "idle"]

-----------------------------------------------------------------------------
(* The auto-poll daemon: AutoPollDaemon.run_loop before it calls start()   *)

\* "if self._stop_requested.is_set(): continue"
PollUnsuspended ==
  /\ caller[Daemon] = "idle"
  /\ ~suspended
  /\ caller' = [caller EXCEPT ![Daemon] = "polling"]
  /\ UNCHANGED <<flags, lock, crawls, overlap, routes, req>>

\* A crawl is seen running, or no enabled group's tick is due. Otherwise every
\* due group is rescheduled and start() is called, which looks at the flag again.
PollSkips ==
  /\ caller[Daemon] = "polling"
  /\ caller' = [caller EXCEPT ![Daemon] = "idle"]
  /\ UNCHANGED <<flags, lock, crawls, overlap, routes, req>>

-----------------------------------------------------------------------------
(* CrawlService.start, by any of its callers                               *)

\* s is between start()'s check of the running flag and its setting it.
InStart(s) == caller[s] \in {"checked", "cleared"}

\* No start() is under way but s's, no thread waits for a crawl but c's.
QuietBut(s, c) ==
  /\ \A t \in Starters \ {s} : ~InStart(t)
  /\ \A d \in Crawls \ {c} : run[d] = "none"

\* Fault: the request fields are written although a crawl is running.
StartCheckLate(s) ==
  /\ caller[s] = IF s = Daemon THEN "polling" ELSE "idle"
  /\ caller' = [caller EXCEPT ![s] = IF running THEN "idle" ELSE "checked"]
  /\ overlap' = (overlap \/ (~running /\ \E t \in Starters : InStart(t)))
  /\ request' = s
  /\ UNCHANGED <<running, stopEvent, lock, crawls, routes, req>>

\* Fault: the running flag is not looked at.
StartUnchecked(s) ==
  /\ caller[s] = IF s = Daemon THEN "polling" ELSE "idle"
  /\ caller' = [caller EXCEPT ![s] = "checked"]
  /\ overlap' = (overlap \/ \E t \in Starters : InStart(t))
  /\ UNCHANGED <<flags, lock, crawls, routes, req>>

\* The running flag is read under _lock, which is then released: nothing keeps
\* the next caller from passing too.
StartCheck(s) ==
  /\ caller[s] = IF s = Daemon THEN "polling" ELSE "idle"
  /\ IF running
     THEN /\ caller' = [caller EXCEPT ![s] = "idle"]
          /\ UNCHANGED overlap
     ELSE /\ caller' = [caller EXCEPT ![s] = "checked"]
          /\ overlap' = (overlap \/ \E t \in Starters : InStart(t))
  /\ UNCHANGED <<flags, lock, crawls, routes, req>>

StartClear(s) ==
  /\ caller[s] = "checked"
  /\ stopEvent' = FALSE
  /\ request' = s
  /\ caller' = [caller EXCEPT ![s] = "cleared"]
  /\ UNCHANGED <<running, lock, crawls, overlap, routes, req>>

\* catchup without a catch-up group, or a group_id the config no longer has.
StartRejected(s) ==
  /\ caller[s] = "cleared"
  /\ caller' = [caller EXCEPT ![s] = "idle"]
  /\ overlap' = (overlap /\ ~QuietBut(s, None))
  /\ UNCHANGED <<flags, lock, crawls, routes, req>>

\* running=True, and the thread submits _crawl to the loop.
StartSpawn(s, c, m) ==
  /\ caller[s] = "cleared"
  /\ s = Daemon => m = "incremental"
  /\ run[c] = "none" /\ coro[c] = "none"
  /\ running' = TRUE
  /\ run' = [run EXCEPT ![c] = "waiting"]
  /\ coro' = [coro EXCEPT ![c] = "submitted"]
  /\ mode' = [mode EXCEPT ![c] = m]
  /\ owner' = [owner EXCEPT ![c] = IF m = "single" THEN s ELSE None]
  /\ caller' = [caller EXCEPT ![s] = "idle"]
  /\ UNCHANGED <<stopEvent, request, lock, group, took, overlap, routes, req>>

-----------------------------------------------------------------------------
(* CrawlService._crawl, a coroutine: it moves only while the loop is free  *)

\* The coroutine is over.
Forget(c) ==
  /\ coro' = [coro EXCEPT ![c] = "none"]
  /\ mode' = [mode EXCEPT ![c] = "incremental"]
  /\ group' = [group EXCEPT ![c] = 0]
  /\ owner' = [owner EXCEPT ![c] = None]
  /\ took' = [took EXCEPT ![c] = None]

\* Fault: the stop event is cleared by the coroutine instead of by start().
CrawlEnterClears(c) ==
  /\ coro[c] = "submitted"
  /\ blocked = None
  /\ tgLock = None
  /\ stopEvent' = FALSE
  /\ UNCHANGED took
  /\ tgLock' = c
  /\ coro' = [coro EXCEPT ![c] = "connecting"]
  /\ UNCHANGED <<running, request, blocked, run, mode, group, owner, starts,
                 routes, req>>

\* No group is configured, or fromisoformat rejects a date: over before the lock.
CrawlRefused(c) ==
  /\ coro[c] = "submitted"
  /\ blocked = None
  /\ Forget(c)
  /\ UNCHANGED <<flags, lock, run, starts, routes, req>>

\* date_range reads the dates and catchup the groups that start() left in the
\* service; the others, the daemon's single-group crawl among them, read nothing
\* of it. Then the coroutine calls tg_lock.acquire() on the loop.
CrawlEnter(c) ==
  /\ coro[c] = "submitted"
  /\ blocked = None
  /\ \/ mode[c] = "single" /\ took' = [took EXCEPT ![c] = request]
     \/ UNCHANGED took
  /\ IF tgLock = None
     THEN /\ tgLock' = c
          /\ coro' = [coro EXCEPT ![c] = "connecting"]
          /\ UNCHANGED blocked
     ELSE /\ blocked' = c
          /\ coro' = [coro EXCEPT ![c] = "acquiring"]
          /\ UNCHANGED tgLock
  /\ UNCHANGED <<flags, run, mode, group, owner, starts, routes, req>>

LockGranted(c) ==
  /\ coro[c] = "acquiring"
  /\ tgLock = None
  /\ tgLock' = c
  /\ blocked' = None
  /\ coro' = [coro EXCEPT ![c] = "connecting"]
  /\ UNCHANGED <<flags, run, mode, group, owner, took, starts, routes, req>>

\* The finally clause: every way out of the pass loop releases the lock.
Finish(c) == tgLock' = None /\ Forget(c)

FetchGroup(c, g) ==
  /\ coro' = [coro EXCEPT ![c] = "fetching"]
  /\ group' = [group EXCEPT ![c] = g]
  /\ UNCHANGED <<tgLock, mode, owner, took>>

\* Fault: a failed connect leaves the lock behind.
ConnectKeepsLock(c) ==
  /\ coro[c] = "connecting"
  /\ blocked = None
  /\ \/ IF stopEvent THEN Finish(c) ELSE FetchGroup(c, 1)
     \/ Forget(c) /\ UNCHANGED tgLock
  /\ UNCHANGED <<flags, blocked, run, starts, routes, req>>

\* await tg.connect(): on failure the lock is released and the error raised.
Connect(c) ==
  /\ coro[c] = "connecting"
  /\ blocked = None
  /\ \/ IF stopEvent THEN Finish(c) ELSE FetchGroup(c, 1)
     \/ Finish(c)
  /\ UNCHANGED <<flags, blocked, run, starts, routes, req>>

\* Fault: one group too many.
FetchEndsPastLast(c) ==
  /\ coro[c] = "fetching"
  /\ blocked = None
  /\ IF group[c] <= NumGroups THEN FetchGroup(c, group[c] + 1) ELSE Finish(c)
  /\ UNCHANGED <<flags, blocked, run, starts, routes, req>>

\* A group is fetched and saved, fails, or is cut short by the stop event. A
\* catch-up may have fewer groups than are configured.
FetchEnds(c) ==
  /\ coro[c] = "fetching"
  /\ blocked = None
  /\ \/ ~stopEvent /\ group[c] < NumGroups /\ FetchGroup(c, group[c] + 1)
     \/ stopEvent /\ Finish(c)
     \/ mode[c] = "single" /\ Finish(c)
     \/ /\ ~stopEvent /\ mode[c] = "incremental" /\ group[c] = NumGroups
        /\ coro' = [coro EXCEPT ![c] = "pausing"]
        /\ UNCHANGED <<tgLock, mode, group, owner, took>>
  /\ UNCHANGED <<flags, blocked, run, starts, routes, req>>

\* The pause of an incremental crawl looks at the stop event every 5 seconds.
PauseEnds(c) ==
  /\ coro[c] = "pausing"
  /\ blocked = None
  /\ IF stopEvent THEN Finish(c) ELSE FetchGroup(c, 1)
  /\ UNCHANGED <<flags, blocked, run, starts, routes, req>>

-----------------------------------------------------------------------------
(* CrawlService._run_loop, the thread that waits for the coroutine         *)

\* future.result returns, or gives up after an hour: an incremental crawl never
\* ends by itself, so it always does unless somebody stops it. The coroutine is
\* not cancelled and lives on, abandoned.
RunEnds(c) ==
  /\ run[c] = "waiting"
  /\ run' = [run EXCEPT ![c] = "closing"]
  /\ stopEvent' = TRUE
  /\ UNCHANGED <<running, request, lock, coro, mode, group, owner, took, starts,
                 routes, req>>

RunCloses(c) ==
  /\ run[c] = "closing"
  /\ run' = [run EXCEPT ![c] = "none"]
  /\ running' = FALSE
  /\ overlap' = (overlap /\ ~QuietBut(None, c))
  /\ UNCHANGED <<stopEvent, request, lock, coro, mode, group, owner, took, caller,
                 routes, req>>

-----------------------------------------------------------------------------
(* POST /crawl/stop and PATCH /crawl/auto-poll/<id> {enabled: true}        *)

StopCheck ==
  /\ stopper = "idle"
  /\ running
  /\ stopper' = "checked"
  /\ UNCHANGED <<flags, lock, crawls, starts, suspended, req>>

StopSignal ==
  /\ stopper = "checked"
  /\ stopEvent' = TRUE
  /\ stopper' = "signalled"
  /\ UNCHANGED <<running, request, lock, crawls, starts, suspended, req>>

StopSuspend ==
  /\ stopper = "signalled"
  /\ suspended' = TRUE
  /\ stopper' = "idle"
  /\ UNCHANGED <<flags, lock, crawls, starts, req>>

\* The daemon may poll again.
Reenable ==
  /\ suspended' = FALSE
  /\ UNCHANGED <<flags, lock, crawls, starts, stopper, req>>

-----------------------------------------------------------------------------
(* _tg_client_guard around run_coroutine calls of 30 seconds at most       *)

GuardEnter(r) ==
  /\ req[r] = "idle"
  /\ tgLock = None
  /\ tgLock' = r
  /\ req' = [req EXCEPT ![r] = "calling"]
  /\ UNCHANGED <<flags, blocked, crawls, starts, routes>>

\* The loop runs the calls, and the guard is left.
GuardReturns(r) ==
  /\ req[r] = "calling"
  /\ blocked = None
  /\ tgLock' = None
  /\ req' = [req EXCEPT ![r] = "done"]
  /\ UNCHANGED <<flags, blocked, crawls, starts, routes>>

\* Fault: run_coroutine waits for the loop without a limit.
CallFailsOnLoop(r) ==
  /\ req[r] = "calling"
  /\ blocked = None
  /\ req' = [req EXCEPT ![r] = "disconnecting"]
  /\ UNCHANGED <<flags, lock, crawls, starts, routes>>

\* A call raises or times out: the shared client is disconnected first.
CallFails(r) ==
  /\ req[r] = "calling"
  /\ req' = [req EXCEPT ![r] = "disconnecting"]
  /\ UNCHANGED <<flags, lock, crawls, starts, routes>>

\* disconnect() itself has the 30 second limit, and its failure is swallowed.
GuardFails(r) ==
  /\ req[r] = "disconnecting"
  /\ tgLock' = None
  /\ req' = [req EXCEPT ![r] = "done"]
  /\ UNCHANGED <<flags, blocked, crawls, starts, routes>>

-----------------------------------------------------------------------------
StartStep(s) ==
  \/ StartCheck(s) \/ StartClear(s) \/ StartRejected(s)
  \/ \E c \in Crawls, m \in Modes : StartSpawn(s, c, m)

CrawlStep(c) ==
  \/ CrawlRefused(c) \/ CrawlEnter(c) \/ LockGranted(c) \/ Connect(c)
  \/ FetchEnds(c) \/ PauseEnds(c)

RunStep(c) == RunEnds(c) \/ RunCloses(c)

PollStep == PollUnsuspended \/ PollSkips

RouteStep == StopCheck \/ StopSignal \/ StopSuspend \/ Reenable

GuardStep(r) == GuardEnter(r) \/ GuardReturns(r) \/ CallFails(r) \/ GuardFails(r)

Next ==
  \/ PollStep
  \/ \E s \in Starters : StartStep(s)
  \/ \E c \in Crawls : CrawlStep(c) \/ RunStep(c)
  \/ RouteStep
  \/ \E r \in Requests : GuardStep(r)

Spec == Init /\ [][Next]_vars

\* The loop serves its ready queue and the time limits of requests elapse. No
\* more is supposed: users press nothing by themselves, a crawl's hour need not
\* elapse, and a Lock promises no turn to any waiter.
Fairness ==
  /\ \A c \in Crawls : WF_vars(CrawlStep(c))
  /\ \A r \in Requests : WF_vars(req[r] # "idle" /\ GuardStep(r))

FairSpec == Spec /\ Fairness

-----------------------------------------------------------------------------
Working(c) == coro[c] \in {"connecting", "fetching", "pausing"}

TypeOK ==
  /\ running \in BOOLEAN /\ stopEvent \in BOOLEAN
  /\ request \in Starters \cup {None}
  /\ tgLock \in Holders \cup {None}
  /\ blocked \in Crawls \cup {None}
  /\ run \in [Crawls -> {"none", "waiting", "closing"}]
  /\ coro \in [Crawls -> {"none", "submitted", "acquiring", "connecting",
                          "fetching", "pausing"}]
  /\ mode \in [Crawls -> Modes]
  /\ group \in [Crawls -> 0..NumGroups]
  /\ \A c \in Crawls : group[c] = 0 <=> coro[c] \notin {"fetching", "pausing"}
  /\ owner \in [Crawls -> Starters \cup {None}]
  /\ took \in [Crawls -> Starters \cup {None}]
  /\ caller \in [Starters -> {"idle", "polling", "checked", "cleared"}]
  /\ overlap \in BOOLEAN /\ suspended \in BOOLEAN
  /\ stopper \in {"idle", "checked", "signalled"}
  /\ req \in [Requests -> {"idle", "calling", "disconnecting", "done"}]

\* "the lock must serialize all access" (crawl_service.py:176-181): whoever
\* works with the Telegram client holds tg_lock, whoever has stopped working has
\* given it back, and the loop is blocked only by a coroutine that waits for it.
LockDiscipline ==
  /\ \A c \in Crawls : Working(c) <=> tgLock = c
  /\ \A r \in Requests : req[r] \in {"calling", "disconnecting"} <=> tgLock = r
  /\ \A c \in Crawls : coro[c] = "acquiring" <=> blocked = c

\* A second crawl has one cause only, two start() calls between their check and
\* their setting of the flag: but for that, one thread at most waits for a crawl,
\* abandoned crawls or not, and the running flag is the truth about it.
OneCrawlAtATime ==
  ~overlap => /\ running <=> \E c \in Crawls : run[c] # "none"
              /\ \A c, d \in Crawls : run[c] # "none" /\ run[d] # "none" => c = d

\* The dates and catch-up groups travel through attributes that all start()
\* calls share, and the coroutine reads them later: it reads its own, unless
\* starts overlapped or its hour was over before it began.
CrawlServesItsRequest ==
  \A c \in Crawls :
    run[c] = "waiting" /\ ~overlap => took[c] \in {None, owner[c]}

\* A coroutine waits for tg_lock on the loop's thread while another holds it: the
\* loop never runs again, and the holder cannot release it.
LoopIsStuck == blocked # None /\ tgLock \in Crawls

Attended(c) == run[c] = "waiting" /\ coro[c] # "none"

\* "controllable via start/stop/status" (crawl_service.py:1): a crawl that is
\* told to stop ends, unless its hour ends first, the loop is stuck, or one of
\* several overlapping starts takes the stop back.
StopEndsCrawl ==
  stopEvent /\ ~overlap /\ (\E c \in Crawls : Attended(c))
    ~> (\A c \in Crawls : ~Attended(c)) \/ LoopIsStuck

\* "Long operations (crawl) use get_loop().create_task() (non-blocking)"
\* (async_loop.py:5): a crawl never keeps the loop from its other coroutines for
\* good. It does: a coroutine may wait for tg_lock while another crawl holds it.
LoopUnblocks == blocked # None ~> blocked = None

\* Every request that has the client returns it and answers, even if the loop
\* never moves again.
RequestsReturn ==
  \A r \in Requests : req[r] \in {"calling", "disconnecting"} ~> req[r] = "done"
=============================================================================
