------------------------------- MODULE Digest -------------------------------
(***************************************************************************)
(* The market digests: the window, the query and the generation of         *)
(* digest.py, the request of web/api/routes_digest.py, and the loop of     *)
(* web/auto_llm_daemon.py that also generates them, under one lock.        *)
(*                                                                         *)
(* A signal is known by the date of its message; what the digest says of   *)
(* it (weights, prompt, prose) is abstracted away. Dates are stored with a *)
(* blank between day and time and compared, as text, with a bound that has *)
(* a T there: within one day every stored date comes before every bound.   *)
(***************************************************************************)
EXTENDS Naturals, Sequences, FiniteSets, FiniteSetsExt

CONSTANTS
  Dates,       \* the dates of the messages that are signals
  Start,       \* the time of the first start
  Horizon,     \* bound on time
  DayLength,   \* a day
  ColdStart,   \* COLD_START_HOURS
  MaxWindow,   \* MAX_WINDOW_HOURS, and AUTO_LOOKBACK_HOURS, which equals it
  Lookbacks,   \* the lookback_hours a user asks for
  MinSignals,  \* MIN_SIGNALS_FOR_SUMMARY
  Interval,    \* signal.auto_digest_interval_minutes
  MaxRequests, \* bound on users' requests
  MaxFailures, \* bound on failures of the LLM and of batches
  MaxRestarts  \* bound on restarts of the process

Times  == 0..Horizon
Actors == {"user", "daemon"}
None   == Horizon + 1  \* no time: no explicit lookback, no digest yet

ASSUME DigestAssumption ==
  /\ {Start, Horizon, DayLength, ColdStart, MaxWindow, MinSignals, Interval,
      MaxRequests, MaxFailures, MaxRestarts} \subseteq Nat
  /\ DayLength > 0
  /\ Dates \subseteq Times /\ IsFiniteSet(Dates)
  /\ Lookbacks \subseteq 1..Start /\ ColdStart <= Start /\ MaxWindow <= Start
  /\ Start <= Horizon

VARIABLES
  now,
  ready,    \* dates of the completed signals in signal_factors
  digests,  \* the ends of the digests table's rows, in the order of creation
  job,      \* the generation each actor is at
  lock,     \* who holds _digest_lock
  daemon,   \* the loop: waiting, in its batch, or at its digest
  last,     \* _last_digest_at, kept in memory
  counts    \* the requests, failures and restarts so far

vars == <<now, ready, digests, job, lock, daemon, last, counts>>

\* exact is history: the query found just the completed signals of its window.
NoJob == [at |-> "none", asked |-> None, began |-> None, from |-> None, to |-> None,
          exact |-> TRUE]

Init ==
  /\ now = Start
  /\ ready = {}
  /\ digests = <<>>
  /\ job = [a \in Actors |-> NoJob]
  /\ lock = "free"
  /\ daemon = "wait"
  /\ last = None
  /\ counts = [requests |-> 0, failures |-> 0, restarts |-> 0]

-----------------------------------------------------------------------------
(* digest.py                                                               *)

Day(t) == t \div DayLength

\* The comparison m.date > from AND m.date <= to, on text.
Between(t, from, to) == Day(t) > Day(from) /\ Day(t) <= Day(to)
Fetched(from, to)    == {t \in ready : Between(t, from, to)}

\* Of every digest the end; the latest is the one that ends last.
Ends      == {digests[i].to : i \in DOMAIN digests}
LatestEnd == Max(Ends)

WindowStart(asked) ==
  IF asked # None THEN now - asked
  ELSE IF digests = <<>> THEN now - ColdStart
  ELSE IF now - LatestEnd > MaxWindow THEN now - MaxWindow
  ELSE LatestEnd

\* generate_digest: _compute_window ...
ComputeWindow(a) ==
  /\ job[a].at = "window"
  /\ job' = [job EXCEPT ![a] = [job[a] EXCEPT !.at = "fetch", !.to = now,
                                              !.from = WindowStart(job[a].asked)]]
  /\ UNCHANGED <<now, ready, digests, lock, daemon, last, counts>>

\* ... then _fetch_signals; with too few and no window asked for, the last seven
\* days; with too few even so, a digest that says so, and no call of the LLM.
Enough(from, to) == Cardinality(Fetched(from, to)) >= MinSignals
FallsBack(a) ==
  /\ ~Enough(job[a].from, job[a].to)
  /\ job[a].asked = None
  /\ Enough(now - MaxWindow, now)

FetchSignals(a) ==
  /\ job[a].at = "fetch"
  /\ LET from == IF FallsBack(a) THEN now - MaxWindow ELSE job[a].from
         to   == IF FallsBack(a) THEN now ELSE job[a].to
     IN  job' = [job EXCEPT ![a] = [job[a] EXCEPT
                   !.from = None, !.to = to,
                   !.exact = Fetched(from, to) = {t \in ready : from < t /\ t <= to},
                   !.at = IF Enough(from, to) THEN "llm" ELSE "save"]]
  /\ UNCHANGED <<now, ready, digests, lock, daemon, last, counts>>

LlmAnswers(a) ==
  /\ job[a].at = "llm"
  /\ job' = [job EXCEPT ![a] = [job[a] EXCEPT !.at = "save"]]
  /\ UNCHANGED <<now, ready, digests, lock, daemon, last, counts>>

\* The daemon's loop goes back to its wait after a generation, whatever became of it.
Finished(a) ==
  /\ job' = [job EXCEPT ![a] = NoJob]
  /\ lock' = "free"
  /\ daemon' = IF a = "daemon" THEN "wait" ELSE daemon

\* The row is committed and the lock released; a daemon remembers when it began.
Save(a) ==
  /\ job[a].at = "save"
  /\ digests' = Append(digests, [to |-> job[a].to, exact |-> job[a].exact])
  /\ last' = IF a = "daemon" THEN job[a].began ELSE last
  /\ Finished(a)
  /\ UNCHANGED <<now, ready, counts>>

\* Fault: the lock is released on success only.
GenerationFailsLocked(a) ==
  /\ job[a].at = "llm"
  /\ counts.failures < MaxFailures
  /\ counts' = [counts EXCEPT !.failures = @ + 1]
  /\ job' = [job EXCEPT ![a] = NoJob]
  /\ daemon' = IF a = "daemon" THEN "wait" ELSE daemon
  /\ UNCHANGED <<now, ready, digests, lock, last>>

\* The call of the LLM raises: an error answer or event, and the lock released.
GenerationFails(a) ==
  /\ job[a].at = "llm"
  /\ counts.failures < MaxFailures
  /\ counts' = [counts EXCEPT !.failures = @ + 1]
  /\ Finished(a)
  /\ UNCHANGED <<now, ready, digests, last>>

-----------------------------------------------------------------------------
(* POST /digest/generate; with the lock taken it answers 409               *)

\* Fault: nobody looks at the lock.
AcquireAnyway(a, asked) ==
  /\ job[a] = NoJob
  /\ lock' = a
  /\ job' = [job EXCEPT ![a] = [NoJob EXCEPT !.at = "window", !.asked = asked, !.began = now]]

Acquire(a, asked) ==
  /\ lock = "free"
  /\ lock' = a
  /\ job' = [job EXCEPT ![a] = [NoJob EXCEPT !.at = "window", !.asked = asked, !.began = now]]

UserGenerates ==
  /\ counts.requests < MaxRequests
  /\ \E asked \in Lookbacks \cup {None} : Acquire("user", asked)
  /\ counts' = [counts EXCEPT !.requests = @ + 1]
  /\ UNCHANGED <<now, ready, digests, daemon, last>>

-----------------------------------------------------------------------------
(* AutoLlmDaemon.run_loop                                                  *)

\* A trigger, or the minute's timeout: the loop wakes in any case.
Wake ==
  /\ daemon = "wait"
  /\ daemon' = "batch"
  /\ UNCHANGED <<now, ready, digests, job, lock, last, counts>>

\* The batch is skipped or ends, and rows of messages read so far are completed.
BatchEnds ==
  /\ daemon = "batch"
  /\ daemon' = "digest"
  /\ UNCHANGED <<now, ready, digests, job, lock, last, counts>>

\* It raises: the loop reports it and waits again, without a digest.
BatchFails ==
  /\ daemon = "batch"
  /\ counts.failures < MaxFailures
  /\ counts' = [counts EXCEPT !.failures = @ + 1]
  /\ daemon' = "wait"
  /\ UNCHANGED <<now, ready, digests, job, lock, last>>

\* _maybe_generate_digest: not disabled, and the interval has passed.
Due == Interval > 0 /\ (last = None \/ now - last >= Interval)

\* Fault: the daemon proceeds without the lock when it is taken.
DaemonGeneratesUnlocked ==
  /\ daemon = "digest" /\ Due
  /\ job' = [job EXCEPT !["daemon"] = [NoJob EXCEPT !.at = "window", !.began = now]]
  /\ daemon' = "generating"
  /\ UNCHANGED <<now, ready, digests, lock, last, counts>>

DaemonGenerates ==
  /\ daemon = "digest" /\ Due
  /\ Acquire("daemon", None)
  /\ daemon' = "generating"
  /\ UNCHANGED <<now, ready, digests, last, counts>>

\* Not due, or the lock is taken: the next round tries again.
DaemonSkips ==
  /\ daemon = "digest"
  /\ ~Due \/ lock # "free"
  /\ daemon' = "wait"
  /\ UNCHANGED <<now, ready, digests, job, lock, last, counts>>

-----------------------------------------------------------------------------
(* Rows are completed by any of the paths of the signal engine, at any time *)
(* after their message; the process is restarted, and forgets all but rows  *)

Complete(t) ==
  /\ t \in Dates \ ready /\ t <= now
  /\ ready' = ready \cup {t}
  /\ UNCHANGED <<now, digests, job, lock, daemon, last, counts>>

Restart ==
  /\ counts.restarts < MaxRestarts
  /\ counts' = [counts EXCEPT !.restarts = @ + 1]
  /\ job' = [a \in Actors |-> NoJob]
  /\ lock' = "free" /\ daemon' = "wait" /\ last' = None
  /\ UNCHANGED <<now, ready, digests>>

Tick ==
  /\ now < Horizon
  /\ now' = now + 1
  /\ UNCHANGED <<ready, digests, job, lock, daemon, last, counts>>

-----------------------------------------------------------------------------
Next ==
  \/ \E a \in Actors : \/ ComputeWindow(a) \/ FetchSignals(a) \/ LlmAnswers(a)
                       \/ Save(a) \/ GenerationFails(a)
  \/ UserGenerates
  \/ Wake \/ BatchEnds \/ BatchFails \/ DaemonGenerates \/ DaemonSkips
  \/ \E t \in Dates : Complete(t)
  \/ Restart
  \/ Tick

Spec == Init /\ [][Next]_vars

\* The threads that generate run on, and calls of the LLM time out.
Generates(a) == ComputeWindow(a) \/ FetchSignals(a) \/ LlmAnswers(a) \/ Save(a)
FairSpec ==
  /\ Spec
  /\ \A a \in Actors : WF_vars(Generates(a))
  /\ WF_vars(Wake) /\ WF_vars(BatchEnds) /\ WF_vars(DaemonGenerates \/ DaemonSkips)

-----------------------------------------------------------------------------
(* Properties                                                              *)

Jobs == [at : {"none", "window", "fetch", "llm", "save"}, asked : Nat, began : Nat,
         from : Nat, to : Nat, exact : BOOLEAN]

\* The values the variables take; only the holder of the lock generates.
TypeOK ==
  /\ now \in Times
  /\ ready \subseteq Dates
  /\ digests \in Seq([to : Times, exact : BOOLEAN])
  /\ job \in [Actors -> Jobs]
  /\ lock \in Actors \cup {"free"}
  /\ \A a \in Actors : job[a].at # "none" => lock = a
  /\ daemon \in {"wait", "batch", "digest", "generating"}
  /\ daemon = "generating" <=> job["daemon"].at # "none"
  /\ last \in Times \cup {None}
  /\ counts \in [requests : 0..MaxRequests, failures : 0..MaxFailures,
                 restarts : 0..MaxRestarts]

\* Digests are created in the order in which they end: the latest by created_at,
\* which the pages show, is the latest by to_at, from which the next window starts,
\* although users and the daemon generate them and the call of the LLM may take any
\* time (digest.py:96-120, 347-356; the lock of routes_digest.py:22-64).
LatestIsLatest ==
  \A i, j \in DOMAIN digests : i < j => digests[i].to <= digests[j].to

\* When the interval has passed the daemon generates a digest, however often the
\* lock is taken, a batch or the LLM fails and the process restarts
\* (auto_llm_daemon.py:95-127, 171-232).
DueDigestIsMade == Due ~> ~Due

\* A digest holds the completed signals of its window: "Fetch is_signal=1 rows in
\* [from_at, to_at]" (digest.py:124).
DigestHoldsItsWindow == \A i \in DOMAIN digests : digests[i].exact
=============================================================================
