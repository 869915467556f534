---------------------------- MODULE ListenerControl ----------------------------
(***************************************************************************)
(* Starting and stopping the live listener: ListenerDaemon of              *)
(* web/listener_daemon.py (init_from_config, start_thread, _runner,        *)
(* run_async, stop) and its callers, the PATCH routes of                   *)
(* web/api/routes_listen.py and web/api/routes_config.py.                  *)
(*                                                                         *)
(* The daemon owns no thread: its coroutine runs on the one event loop     *)
(* that crawls and requests share. start_thread holds _lock while it       *)
(* connects through that loop, and the coroutine takes _lock on the loop's *)
(* own thread when it ends. What the handlers do is in module Ingest, who  *)
(* else holds tg_lock in module CrawlControl.                              *)
(***************************************************************************)
EXTENDS Naturals, FiniteSets

CONSTANTS
  Groups,   \* the configured groups
  Boot,     \* the thread that runs init_services before requests are served
  Threads,  \* request threads
  Runs,     \* slots for one run of the coroutine and its asyncio.Event
  Other,    \* whoever else holds tg_lock: a crawl or a request
  None

Callers == Threads \cup {Boot}

\* A slot is free again when its run is over and nothing refers to its event:
\* three are enough for the run, the event of the run before and a new run.
ASSUME ListenerAssumption ==
  /\ Boot \notin Threads
  /\ Other \notin Callers
  /\ None \notin Callers \cup Runs \cup {Other}

VARIABLES
  wanted,     \* the groups with auto_listen=true
  pc,         \* how far each caller of start_thread or stop is
  lock,       \* the caller that holds _lock
  running,    \* _running
  stopEvent,  \* the run whose event _stop_event is
  stops,      \* the runs whose event is set
  run,        \* the _runner coroutine of each run
  tgLock,     \* the holder of app_state.tg_lock
  up          \* the shared client exists and is connected

daemon == <<lock, running, stopEvent, stops, run>>
client == <<tgLock, up>>
vars   == <<wanted, pc, lock, running, stopEvent, stops, run, tgLock, up>>

\* Between the test of _running and the release of _lock.
InStart == {"guard", "connecting", "submitting", "submitted"}

\* A coroutine of the daemon that is scheduled or has registered its handlers.
Active == {r \in Runs : run[r] # "none"}

\* A run that wants _lock blocks the loop's thread until it gets it.
LoopFree == \A r \in Runs : run[r] # "ending"

\* init_from_config starts the listener if a group wants it.
Init ==
  /\ wanted \in SUBSET Groups
  /\ pc = [c \in Callers |-> IF c = Boot /\ wanted # {} THEN "starting" ELSE "idle"]
  /\ lock = None
  /\ running = FALSE
  /\ stopEvent = None
  /\ stops = {}
  /\ run = [r \in Runs |-> "none"]
  /\ tgLock = None
  /\ up = FALSE

To(c, place) == pc' = [pc EXCEPT ![c] = place]

-----------------------------------------------------------------------------
(* The routes, which read _running without the lock                        *)

Serving(c) == c \in Threads /\ pc[c] = "idle" /\ pc[Boot] = "idle"

\* PATCH /listen/status
PatchStatus(c) ==
  /\ Serving(c)
  /\ \/ ~running /\ wanted # {} /\ To(c, "starting")
     \/ running /\ To(c, "stopping")
  /\ UNCHANGED <<wanted, daemon, client>>

\* PATCH /config/groups/<chat_id>/auto_listen: the flag, saved ...
ToggleGroup(c) ==
  /\ Serving(c)
  /\ \E g \in Groups :
       \/ wanted' = wanted \cup {g} /\ To(c, "turnedOn")
       \/ wanted' = wanted \ {g} /\ To(c, "turnedOff")
  /\ UNCHANGED <<daemon, client>>

\* ... and then its effect on the listener, by what the config has become.
ToggleEffect(c) ==
  /\ pc[c] \in {"turnedOn", "turnedOff"}
  /\ To(c, IF pc[c] = "turnedOn" /\ ~running /\ wanted # {} THEN "starting"
           ELSE IF pc[c] = "turnedOff" /\ running /\ wanted = {} THEN "stopping"
           ELSE "idle")
  /\ UNCHANGED <<wanted, daemon, client>>

-----------------------------------------------------------------------------
(* ListenerDaemon.start_thread                                             *)

\* Fault: _running is not looked at.
StartUnchecked(c) ==
  /\ pc[c] = "starting"
  /\ lock = None
  /\ lock' = c
  /\ To(c, "guard")
  /\ UNCHANGED <<wanted, running, stopEvent, stops, run, client>>

\* _lock is taken, and kept unless the listener is running.
StartEnter(c) ==
  /\ pc[c] = "starting"
  /\ lock = None
  /\ IF running
     THEN To(c, "idle") /\ UNCHANGED lock
     ELSE To(c, "guard") /\ lock' = c
  /\ UNCHANGED <<wanted, running, stopEvent, stops, run, client>>

\* _tg_client_guard, on top of _lock
GuardEnter(c) ==
  /\ pc[c] = "guard"
  /\ tgLock = None
  /\ tgLock' = c
  /\ To(c, "connecting")
  /\ UNCHANGED <<wanted, daemon, up>>

\* The client is connected, or connect() runs on the loop and succeeds.
GuardConnects(c) ==
  /\ pc[c] = "connecting"
  /\ up \/ LoopFree
  /\ up' = TRUE
  /\ tgLock' = None
  /\ To(c, "submitting")
  /\ UNCHANGED <<wanted, daemon>>

\* Fault: the early return keeps _lock.
GuardFailsLocked(c) ==
  /\ pc[c] = "connecting"
  /\ ~up
  /\ tgLock' = None
  /\ To(c, "idle")
  /\ UNCHANGED <<wanted, daemon, up>>

\* connect() raises or exceeds run_coroutine's 30 s: the guard discards the
\* client and start_thread returns False.
GuardFails(c) ==
  /\ pc[c] = "connecting"
  /\ ~up
  /\ tgLock' = None
  /\ lock' = None
  /\ To(c, "idle")
  /\ UNCHANGED <<wanted, running, stopEvent, stops, run, up>>

\* run_coroutine_threadsafe(_runner(), loop)
Submit(c) ==
  /\ pc[c] = "submitting"
  /\ \E r \in Runs \ (Active \cup {stopEvent}) :
       /\ run' = [run EXCEPT ![r] = "scheduled"]
       /\ stops' = stops \ {r}
  /\ To(c, "submitted")
  /\ UNCHANGED <<wanted, lock, running, stopEvent, client>>

\* _running = True, and the lock is released.
MarkRunning(c) ==
  /\ pc[c] = "submitted"
  /\ running' = TRUE
  /\ lock' = None
  /\ To(c, "idle")
  /\ UNCHANGED <<wanted, stopEvent, stops, run, client>>

-----------------------------------------------------------------------------
(* ListenerDaemon.stop                                                     *)

\* Fault: the flag is cleared when the stop is asked for.
StopClears(c) ==
  /\ pc[c] = "stopping"
  /\ lock = None
  /\ IF running /\ stopEvent # None
     THEN stops' = stops \cup {stopEvent} /\ running' = FALSE
     ELSE UNCHANGED <<stops, running>>
  /\ To(c, "idle")
  /\ UNCHANGED <<wanted, lock, stopEvent, run, client>>

\* The event set is the one _stop_event is now: that of the run before, while
\* the new coroutine has not begun.
Stop(c) ==
  /\ pc[c] = "stopping"
  /\ lock = None
  /\ stops' = IF running /\ stopEvent # None THEN stops \cup {stopEvent} ELSE stops
  /\ To(c, "idle")
  /\ UNCHANGED <<wanted, lock, running, stopEvent, run, client>>

-----------------------------------------------------------------------------
(* _runner and run_async, on the loop                                      *)

\* The event is created first; without a connected client the coroutine returns
\* at once and leaves _running as it is, else it registers its handlers.
RunnerBegins(r) ==
  /\ run[r] = "scheduled"
  /\ LoopFree
  /\ stopEvent' = r
  /\ run' = [run EXCEPT ![r] = IF up THEN "listening" ELSE "none"]
  /\ UNCHANGED <<wanted, pc, lock, running, stops, client>>

\* stop_event.wait() returns: start_listener removes the handlers.
HandlersRemoved(r) ==
  /\ run[r] = "listening"
  /\ r \in stops
  /\ LoopFree
  /\ run' = [run EXCEPT ![r] = "ending"]
  /\ UNCHANGED <<wanted, pc, lock, running, stopEvent, stops, client>>

\* The finally clause of run_async.
RunnerEnds(r) ==
  /\ run[r] = "ending"
  /\ lock = None
  /\ running' = FALSE
  /\ run' = [run EXCEPT ![r] = "none"]
  /\ UNCHANGED <<wanted, pc, lock, stopEvent, stops, client>>

-----------------------------------------------------------------------------
(* Crawls and other requests                                               *)

OtherTakes ==
  /\ tgLock = None
  /\ tgLock' = Other
  /\ UNCHANGED <<wanted, pc, daemon, up>>

OtherConnects ==
  /\ tgLock = Other
  /\ ~up
  /\ LoopFree
  /\ up' = TRUE
  /\ UNCHANGED <<wanted, pc, daemon, tgLock>>

\* A request that failed discards the client.
OtherLeaves ==
  /\ tgLock = Other
  /\ tgLock' = None
  /\ up' \in {up, FALSE}
  /\ UNCHANGED <<wanted, pc, daemon>>

\* Telethon gives up on a lost connection.
ConnectionLost ==
  /\ up
  /\ LoopFree
  /\ up' = FALSE
  /\ UNCHANGED <<wanted, pc, daemon, tgLock>>

-----------------------------------------------------------------------------
Caller(c) == \/ PatchStatus(c) \/ ToggleGroup(c) \/ ToggleEffect(c)
             \/ StartEnter(c) \/ GuardEnter(c) \/ GuardConnects(c) \/ GuardFails(c)
             \/ Submit(c) \/ MarkRunning(c) \/ Stop(c)

Runner(r) == RunnerBegins(r) \/ HandlersRemoved(r) \/ RunnerEnds(r)

Next ==
  \/ \E c \in Callers : Caller(c)
  \/ \E r \in Runs : Runner(r)
  \/ OtherTakes \/ OtherConnects \/ OtherLeaves \/ ConnectionLost

Spec == Init /\ [][Next]_vars

-----------------------------------------------------------------------------
(* Properties                                                              *)

\* Type correctness; the two locks are held by those who are between taking and
\* releasing them (the with statements of start_thread and _tg_client_guard).
TypeOK ==
  /\ wanted \subseteq Groups
  /\ pc \in [Callers -> InStart \cup {"idle", "turnedOn", "turnedOff", "starting", "stopping"}]
  /\ running \in BOOLEAN /\ up \in BOOLEAN
  /\ stopEvent \in Runs \cup {None}
  /\ stops \subseteq Runs
  /\ run \in [Runs -> {"none", "scheduled", "listening", "ending"}]
  /\ lock \in Callers \cup {None} /\ tgLock \in Callers \cup {Other, None}
  /\ \A c \in Callers : /\ lock = c <=> pc[c] \in InStart
                        /\ tgLock = c <=> pc[c] = "connecting"

\* A message is stored and assessed by one set of handlers: whatever the routes
\* ask for and in whatever order, at most one coroutine of the daemon is alive
\* (start_thread tests _running, run_async clears it after the handlers are gone).
OneListener == \A r, s \in Active : r = s

\* The loop never waits for a start_thread that holds _lock until the loop has
\* connected the client: a coroutine that ends finds no start under way
\* (the finally clause of run_async, on the loop's own thread).
LoopNeverWaitsForStart ==
  \A r \in Runs : run[r] = "ending" => \A c \in Callers : pc[c] \notin InStart
=============================================================================
