--------------------------- MODULE SignalPipeline ---------------------------
(***************************************************************************)
(* How a message gets its row of signal_factors: SignalEngine of           *)
(* signal_engine.py (process_message, process_new_message, process_batch,  *)
(* _process_batch_llm) on top of save_signal_factor,                       *)
(* get_unprocessed_messages and reset_stuck_processing of                  *)
(* storage/repositories/signal_repo.py.                                    *)
(*                                                                         *)
(* Four threads run it and nothing keeps them apart: the listener's event  *)
(* loop, the batch of SignalService, the batch of AutoLlmDaemon and the    *)
(* reprocess route. A save is a SELECT, then one transaction that inserts, *)
(* or updates the columns that differ from what the SELECT returned. Of a  *)
(* row the model keeps llm_status, is_signal and the verdict: whether      *)
(* direction and confidence make a signal. Texts too short to be           *)
(* processed, deleted messages and the order of a batch (by date) are      *)
(* abstracted away, and so is the clock: a batch may find any row old.     *)
(***************************************************************************)
EXTENDS Naturals, FiniteSets

CONSTANTS
  Messages,    \* messages with a text long enough to be processed
  Filters,     \* the sets of messages that the keyword filter may let through
  Workers,     \* which of the four threads there are
  ChunkSize,   \* llm_batch_size
  MinSignals,  \* auto_llm_min_signals
  MaxJobs,     \* bound on the jobs of the listener, the service and the route
  MaxFaults,   \* bound on restarts and on commits that meet a locked database
  None

ASSUME SignalAssumption ==
  /\ Filters \subseteq SUBSET Messages
  /\ Workers \subseteq {"listener", "api", "daemon", "service"}
  /\ ChunkSize \in Nat \ {0}
  /\ MinSignals \in Nat
  /\ MaxJobs \in Nat
  /\ MaxFaults \in Nat
  /\ None \notin Messages

VARIABLES
  passing,  \* messages whose text the keyword filter lets through
  stored,   \* the messages table
  row,      \* the signal_factors table
  heard,    \* messages whose NewMessage event the listener was given
  job,      \* what each thread is doing
  stop,     \* SignalService._stop_event
  jobs,     \* how many jobs were started, the daemon's not counted
  faults    \* how many restarts and locked databases there were

\* History: no action reads it, the properties do.
VARIABLES
  torn,     \* messages whose row changed between some save's read and write
  orphaned  \* messages a thread had marked when it died or gave up

tables  == <<passing, stored, row, heard>>
history == <<torn, orphaned>>
vars    == <<passing, stored, row, heard, job, stop, jobs, faults, torn, orphaned>>

Batches == {"daemon", "service"}

\* A row, or the columns a save writes; Keep is a column it does not write.
NoRow  == [status |-> "none", flag |-> "none", verdict |-> "none"]
Keep   == "keep"
Status == {"pending", "processing", "completed", "failed", "skipped"}
Rows   == [status : Status, flag : {"signal", "noise"},
           verdict : {"none", "weak", "strong"}]

\* A thread's phase and, of the messages it has listed: those to filter, those
\* that passed, the chunk sent to the LLM, what is left of it to save, and the
\* message whose save is under way with the row that the save has read.
Idle == [phase |-> "idle", todo |-> {}, passed |-> {}, chunk |-> {}, left |-> {},
         at |-> None, seen |-> NoRow]

Init ==
  /\ passing \in Filters
  /\ stored = {}
  /\ row = [m \in Messages |-> NoRow]
  /\ heard = {}
  /\ job = [w \in Workers |-> Idle]
  /\ stop = FALSE
  /\ jobs = 0
  /\ faults = 0
  /\ torn = {}
  /\ orphaned = {}

-----------------------------------------------------------------------------
CrawlSaves(m) ==
  /\ m \notin stored
  /\ stored' = stored \cup {m}
  /\ UNCHANGED <<passing, row, heard, job, stop, jobs, faults, history>>

-----------------------------------------------------------------------------
(* How each thread comes by its messages                                   *)

JobCounted == jobs < MaxJobs /\ jobs' = jobs + 1

\* The NewMessage handler saves the message, then calls process_new_message.
ListenerReceives(m) ==
  /\ "listener" \in Workers
  /\ job["listener"].phase = "idle"
  /\ m \notin heard
  /\ heard' = heard \cup {m}
  /\ stored' = stored \cup {m}
  /\ JobCounted
  /\ job' = [job EXCEPT !["listener"] = [Idle EXCEPT !.phase = "filter", !.todo = {m}]]
  /\ UNCHANGED <<passing, row, stop, faults, history>>

\* POST /signal/reprocess/<id>, of any message in the table
Reprocess(m) ==
  /\ "api" \in Workers
  /\ job["api"].phase = "idle"
  /\ m \in stored
  /\ JobCounted
  /\ job' = [job EXCEPT !["api"] = [Idle EXCEPT !.phase = "filter", !.todo = {m}]]
  /\ UNCHANGED <<tables, stop, faults, history>>

\* POST /signal/process, refused while the daemon is in a batch
ServiceStart ==
  /\ "service" \in Workers
  /\ job["service"].phase = "idle"
  /\ "daemon" \in Workers => job["daemon"].phase = "idle"
  /\ JobCounted
  /\ stop' = FALSE
  /\ job' = [job EXCEPT !["service"].phase = "starting"]
  /\ UNCHANGED <<tables, faults, history>>

ServiceStop ==
  /\ "service" \in Workers
  /\ job["service"].phase # "idle"
  /\ stop' = TRUE
  /\ UNCHANGED <<tables, job, jobs, faults, history>>

\* get_unprocessed_messages
Unprocessed(overwrite) ==
  {m \in stored : \/ row[m] = NoRow
                  \/ overwrite /\ row[m].status \in {"pending", "failed", "processing"}}

\* Rows to be taken up again, and messages without a row.
Awaiting == {m \in Messages : row[m].status \in {"pending", "failed"}} \cup Unprocessed(FALSE)

\* Fault: messages without a row do not count.
CountPendingRowsOnly == Cardinality(Awaiting \ Unprocessed(FALSE))

\* AutoLlmDaemon.count_pending
CountPending == Cardinality(Awaiting)

\* run_loop wakes after a crawl, and every minute in any case.
DaemonPoll ==
  /\ "daemon" \in Workers
  /\ job["daemon"].phase = "idle"
  /\ CountPending >= MinSignals
  /\ job' = [job EXCEPT !["daemon"].phase = "starting"]
  /\ UNCHANGED <<tables, stop, jobs, faults, history>>

Processing == {m \in Messages : row[m].status = "processing"}

\* The thread of the service and the daemon's loop survive what a batch raises;
\* SignalService._run_loop leaves the stop event set.
ServiceOver(w) == stop' = (stop \/ w = "service")

FaultCounted == faults < MaxFaults /\ faults' = faults + 1

\* reset_stuck_processing meets a locked database, which ends the batch.
BatchFails(w) ==
  /\ job[w].phase = "starting"
  /\ FaultCounted
  /\ job' = [job EXCEPT ![w] = Idle]
  /\ ServiceOver(w)
  /\ UNCHANGED <<tables, jobs, history>>

\* process_batch: reset_stuck_processing of the rows inserted more than ten
\* minutes ago (a save leaves updated_at alone), then the list of messages.
BatchBegin(w, overwrite, old) ==
  /\ job[w].phase = "starting"
  /\ w = "daemon" => ~overwrite
  /\ row' = [m \in Messages |->
               IF m \in old THEN [row[m] EXCEPT !.status = "pending"] ELSE row[m]]
  /\ job' = [job EXCEPT ![w] =
               [job[w] EXCEPT !.phase = "filter", !.todo = Unprocessed(overwrite)]]
  /\ UNCHANGED <<passing, stored, heard, stop, jobs, faults, history>>

-----------------------------------------------------------------------------
(* Phase 1, the keyword filter                                             *)

\* stop_check is asked after each message of the filter phase.
StopSeen(w) == w = "service" /\ stop

FilterPasses(w, m) ==
  /\ job[w].phase = "filter" /\ job[w].at = None
  /\ m \in job[w].todo /\ m \in passing
  /\ job' = [job EXCEPT ![w] =
       IF StopSeen(w) THEN Idle
       ELSE [job[w] EXCEPT !.todo = @ \ {m}, !.passed = @ \cup {m}]]
  /\ UNCHANGED <<tables, stop, jobs, faults, history>>

\* A rejected message: its save begins with the SELECT.
FilterRejects(w, m) ==
  /\ job[w].phase = "filter" /\ job[w].at = None
  /\ m \in job[w].todo /\ m \notin passing
  /\ job' = [job EXCEPT ![w] = [job[w] EXCEPT !.todo = @ \ {m}, !.at = m, !.seen = row[m]]]
  /\ UNCHANGED <<tables, stop, jobs, faults, history>>

-----------------------------------------------------------------------------
(* Phase 2, the chunks: mark them as processing, ask the LLM, save         *)

Smaller(a, b) == IF a <= b THEN a ELSE b

\* Fault: all that passed is sent at once.
NextChunkOfAll(w) ==
  /\ job[w].todo = {} /\ job[w].left = {} /\ job[w].at = None
  /\ \/ job[w].phase = "filter"
     \/ job[w].phase = "finish"
  /\ job[w].passed # {}
  /\ job' = [job EXCEPT ![w] = [job[w] EXCEPT !.phase = "mark", !.chunk = job[w].passed,
                                       !.left = job[w].passed, !.passed = {}]]
  /\ UNCHANGED <<tables, stop, jobs, faults, history>>

NextChunk(w) ==
  /\ job[w].todo = {} /\ job[w].left = {} /\ job[w].at = None
  /\ \/ job[w].phase = "filter"
     \/ job[w].phase = "finish"
  /\ \E c \in SUBSET job[w].passed :
       /\ c # {} /\ Cardinality(c) = Smaller(ChunkSize, Cardinality(job[w].passed))
       /\ job' = [job EXCEPT ![w] =
                   [job[w] EXCEPT !.phase = "mark", !.chunk = c, !.left = c, !.passed = @ \ c]]
  /\ UNCHANGED <<tables, stop, jobs, faults, history>>

\* Fault: the stop is also looked at before the LLM is called.
CallLLMOrStop(w) ==
  /\ job[w].phase = "mark" /\ job[w].left = {} /\ job[w].at = None
  /\ job' = [job EXCEPT ![w] =
       IF StopSeen(w) THEN Idle
       ELSE [job[w] EXCEPT !.phase = "finish", !.left = job[w].chunk]]
  /\ UNCHANGED <<tables, stop, jobs, faults, history>>

\* refine or refine_batch has returned; the stop is not looked at any more.
CallLLM(w) ==
  /\ job[w].phase = "mark" /\ job[w].left = {} /\ job[w].at = None
  /\ job' = [job EXCEPT ![w] = [job[w] EXCEPT !.phase = "finish", !.left = job[w].chunk]]
  /\ UNCHANGED <<tables, stop, jobs, faults, history>>

\* All chunks are saved, or a requeued message is: the thread is free again.
JobEnds(w) ==
  /\ job[w].phase \in {"filter", "finish", "requeue"}
  /\ job[w].todo = {} /\ job[w].passed = {} /\ job[w].left = {} /\ job[w].at = None
  /\ job' = [job EXCEPT ![w] = Idle]
  /\ ServiceOver(w)
  /\ UNCHANGED <<tables, jobs, faults, history>>

-----------------------------------------------------------------------------
(* save_signal_factor                                                      *)

\* The columns each save writes. The single-message path leaves is_signal to
\* the column's default until the LLM has answered, the batch path does not.
Rejected  == [status |-> "skipped", flag |-> "noise", verdict |-> Keep]
Marked(w) == [status |-> "processing", verdict |-> Keep,
              flag |-> IF w \in Batches THEN "noise" ELSE Keep]
Failed    == [status |-> "failed", flag |-> "noise", verdict |-> Keep]
Requeued  == [status |-> "pending", flag |-> Keep, verdict |-> Keep]

\* Fault: is_signal is not computed for the saved result.
CompletedUnflagged(v) == [status |-> "completed", verdict |-> v, flag |-> Keep]

\* _compute_is_signal: a direction, and confidence enough.
Completed(v) == [status |-> "completed", verdict |-> v,
                 flag |-> IF v = "strong" THEN "signal" ELSE "noise"]

Saves(w) ==
  CASE job[w].phase = "filter"  -> {Rejected}
    [] job[w].phase = "mark"    -> {Marked(w)}
    [] job[w].phase = "finish"  -> {Failed, Completed("weak"), Completed("strong")}
    [] job[w].phase = "requeue" -> {Requeued}
    [] OTHER -> {}

SaveReads(w, m) ==
  /\ job[w].phase \in {"mark", "finish", "requeue"} /\ job[w].at = None
  /\ m \in job[w].left
  /\ job' = [job EXCEPT ![w] = [job[w] EXCEPT !.left = @ \ {m}, !.at = m, !.seen = row[m]]]
  /\ UNCHANGED <<tables, stop, jobs, faults, history>>

\* The columns that a new row has when the save does not write them.
Default == [status |-> "pending", flag |-> "signal", verdict |-> "none"]

Inserted(new) ==
  [col \in DOMAIN Default |-> IF new[col] = Keep THEN Default[col] ELSE new[col]]

\* Only columns whose value differs from the one read are in the UPDATE.
Updated(now, seen, new) ==
  [col \in DOMAIN Default |-> IF new[col] \in {Keep, seen[col]} THEN now[col] ELSE new[col]]

SaveWrites(w) ==
  LET m == job[w].at IN
  /\ m # None
  /\ job[w].seen # NoRow \/ row[m] = NoRow
  /\ \E new \in Saves(w) :
       row' = [row EXCEPT ![m] = IF job[w].seen = NoRow THEN Inserted(new)
                                 ELSE Updated(row[m], job[w].seen, new)]
  /\ job' = [job EXCEPT ![w] =
       IF job[w].phase = "filter" /\ StopSeen(w) THEN Idle
       ELSE [job[w] EXCEPT !.at = None, !.seen = NoRow]]
  /\ torn' = IF row[m] = job[w].seen THEN torn ELSE torn \cup {m}
  /\ UNCHANGED <<passing, stored, heard, stop, jobs, faults, orphaned>>

\* The commit raises: another thread has inserted the row since (IntegrityError)
\* or the database is locked (OperationalError, which is not retried). A batch or
\* a request ends where it is; process_new_message sets the message to pending,
\* by a save that ends the handler when it raises too.
SaveRaises(w) ==
  LET m == job[w].at IN
  /\ m # None
  /\ \/ job[w].seen = NoRow /\ row[m] # NoRow /\ UNCHANGED faults
     \/ FaultCounted
  /\ job' = [job EXCEPT ![w] =
       IF w = "listener" /\ job[w].phase # "requeue"
       THEN [Idle EXCEPT !.phase = "requeue", !.left = {m}] ELSE Idle]
  /\ ServiceOver(w)
  /\ orphaned' = orphaned \cup job[w].chunk
  /\ UNCHANGED <<tables, jobs, torn>>

-----------------------------------------------------------------------------
\* The process ends and starts again.
Crash ==
  /\ FaultCounted
  /\ job' = [w \in Workers |-> Idle]
  /\ stop' = FALSE
  /\ orphaned' = orphaned \cup UNION {job[w].chunk : w \in Workers}
  /\ UNCHANGED <<tables, jobs, torn>>

Save(w) == SaveWrites(w) \/ SaveRaises(w) \/ \E m \in Messages : SaveReads(w, m)

Work(w) ==
  \/ \E overwrite \in BOOLEAN, old \in SUBSET Processing : BatchBegin(w, overwrite, old)
  \/ BatchFails(w)
  \/ \E m \in Messages : FilterPasses(w, m) \/ FilterRejects(w, m)
  \/ NextChunk(w) \/ CallLLM(w) \/ JobEnds(w)
  \/ Save(w)

Next ==
  \/ \E m \in Messages : CrawlSaves(m) \/ ListenerReceives(m) \/ Reprocess(m)
  \/ ServiceStart \/ ServiceStop
  \/ DaemonPoll
  \/ \E w \in Workers : Work(w)
  \/ Crash

Spec == Init /\ [][Next]_vars

\* The daemon thread polls and finishes what it has begun; nobody has to press
\* a button, no message has to arrive and no other thread has to go on.
DaemonWorks == "daemon" \in Workers /\ Work("daemon")

FairSpec == Spec /\ WF_vars(DaemonPoll) /\ WF_vars(DaemonWorks)

-----------------------------------------------------------------------------
TypeOK ==
  /\ passing \subseteq Messages /\ stored \subseteq Messages /\ heard \subseteq stored
  /\ row \in [Messages -> Rows \cup {NoRow}]
  /\ job \in [Workers -> [phase : {"idle", "starting", "filter", "mark", "finish", "requeue"},
                          todo : SUBSET Messages, passed : SUBSET Messages,
                          chunk : SUBSET Messages, left : SUBSET Messages,
                          at : Messages \cup {None}, seen : Rows \cup {NoRow}]]
  /\ \A w \in Workers : Cardinality(job[w].chunk) <= ChunkSize
  /\ stop \in BOOLEAN
  /\ jobs \in 0..MaxJobs
  /\ faults \in 0..MaxFaults
  /\ torn \subseteq Messages /\ orphaned \subseteq Messages

Flagged(m) ==
  row[m].status \in {"completed", "failed", "skipped"} =>
    (row[m].flag = "signal" <=> row[m].status = "completed" /\ row[m].verdict = "strong")

\* is_signal disagrees with the verdict in the row only where two saves of the
\* same row overlapped; every path that saves one result after the other, in
\* whatever order, leaves the flag right.
OnlyTornRowsMisflagged == \A m \in Messages \ torn : Flagged(m)

\* A row is left in 'processing' by nothing but a crash or a save that raised, as
\* an IntegrityError or a locked database make it: otherwise some thread still
\* has the row's result to save.
ProcessingHasWorker ==
  \A m \in Messages \ orphaned : row[m].status = "processing" =>
    \E w \in Workers : /\ m \in job[w].chunk
                       /\ \/ job[w].phase = "mark"
                          \/ m \in job[w].left \cup {job[w].at}

\* "Without source #2 ... the new messages sit in the messages table unprocessed
\* forever" (auto_llm_daemon.py:245-247): whatever ends the batches, a message is
\* left without a row only where the daemon skips, because fewer messages than
\* auto_llm_min_signals await it from some time on.
EveryMessageGetsARow ==
  \A m \in Messages :
    <>[](m \in stored /\ row[m] = NoRow) => <>[](Cardinality(Awaiting) < MinSignals)
=============================================================================
