------------------------ MODULE SignalPipelineProofs ------------------------
(***************************************************************************)
(* Theorems about SignalPipeline for any messages, filters, threads and    *)
(* chunk size, and any number of jobs and faults: type correctness, the   *)
(* flag of a row that no two saves tore, who still has to save a row that  *)
(* is marked as processing, and what the keyword filter keeps from rows.   *)
(***************************************************************************)
EXTENDS SignalPipeline, FiniteSetTheorems, TLAPS

\* The ways a step can be taken, one disjunct for each action.
LEMMA NextCases ==
  ASSUME Next
  PROVE  \/ \E m \in Messages : CrawlSaves(m) \/ ListenerReceives(m) \/ Reprocess(m)
         \/ ServiceStart \/ ServiceStop \/ DaemonPoll \/ Crash
         \/ \E w \in Workers :
              \/ BatchFails(w)
              \/ \E overwrite \in BOOLEAN, old \in SUBSET Processing :
                   BatchBegin(w, overwrite, old)
              \/ \E m \in Messages :
                   FilterPasses(w, m) \/ FilterRejects(w, m) \/ SaveReads(w, m)
              \/ NextChunk(w) \/ CallLLM(w) \/ JobEnds(w) \/ SaveWrites(w) \/ SaveRaises(w)
  BY DEF Next, Work, Save

-----------------------------------------------------------------------------
(* What a save leaves in the row                                           *)

Phases == {"idle", "starting", "filter", "mark", "finish", "requeue"}

Jobs == [phase : Phases, todo : SUBSET Messages, passed : SUBSET Messages,
         chunk : SUBSET Messages, left : SUBSET Messages,
         at : Messages \cup {None}, seen : Rows \cup {NoRow}]

\* The columns of any save: each has a value for the row or is left alone.
Columns == [status : Status, flag : {"signal", "noise", Keep},
            verdict : {"none", "weak", "strong", Keep}]

LEMMA SavesByPhase ==
  ASSUME NEW w \in Workers, NEW new \in Saves(w)
  PROVE  \/ job[w].phase = "filter" /\ new = Rejected
         \/ job[w].phase = "mark" /\ new = Marked(w)
         \/ job[w].phase = "finish" /\ new \in {Failed, Completed("weak"), Completed("strong")}
         \/ job[w].phase = "requeue" /\ new = Requeued
  BY DEF Saves

LEMMA SavesAreColumns ==
  ASSUME NEW w \in Workers, NEW new \in Saves(w)
  PROVE  new \in Columns
  BY SavesByPhase
  DEF Columns, Rejected, Marked, Failed, Requeued, Completed, Keep, Status

LEMMA InsertedIsRow ==
  ASSUME NEW new \in Columns
  PROVE  Inserted(new) \in Rows
  BY DEF Columns, Inserted, Default, Rows, Keep, Status

LEMMA UpdatedIsRow ==
  ASSUME NEW now \in Rows, NEW seen, NEW new \in Columns
  PROVE  Updated(now, seen, new) \in Rows
  BY DEF Columns, Updated, Default, Rows, Keep, Status

LEMMA NoRowIsNoRow == NoRow \notin Rows
  BY DEF NoRow, Rows, Status

LEMMA IdleIsJob == Idle \in Jobs
  BY DEF Idle, Jobs, Phases

-----------------------------------------------------------------------------
(* Type correctness. That a chunk is never larger than llm_batch_size, and *)
(* that a row which an UPDATE writes is there, need two facts more: a      *)
(* thread lists messages of the table, which are finitely many, and rows   *)
(* are never deleted, so that the row a save has read is still there.      *)

\* What holds of the job j of a thread and of the tables.
GoodJob(j, store, rows) ==
  /\ Cardinality(j.chunk) <= ChunkSize
  /\ j.todo \subseteq store /\ j.passed \subseteq store
  /\ j.at # None /\ j.seen # NoRow => rows[j.at] # NoRow

JobsOK == job \in [Workers -> Jobs] /\ \A w \in Workers : GoodJob(job[w], stored, row)

RestOK ==
  /\ passing \subseteq Messages /\ stored \subseteq Messages /\ heard \subseteq stored
  /\ IsFiniteSet(stored)
  /\ row \in [Messages -> Rows \cup {NoRow}]
  /\ stop \in BOOLEAN
  /\ jobs \in 0..MaxJobs
  /\ faults \in 0..MaxFaults
  /\ torn \subseteq Messages /\ orphaned \subseteq Messages

TypeInv == RestOK /\ JobsOK

LEMMA InvIsTyped == TypeInv => TypeOK
  BY DEF TypeInv, RestOK, JobsOK, GoodJob, TypeOK, Jobs, Phases

LEMMA IdleIsGood ==
  ASSUME NEW store, NEW rows PROVE GoodJob(Idle, store, rows)
<1>1. Cardinality({}) <= ChunkSize
  BY FS_EmptySet, SignalAssumption
<1> QED
  BY <1>1 DEF GoodJob, Idle

\* No row is deleted.
RowsStay == stored \subseteq stored' /\ \A m \in Messages : row[m] # NoRow => row'[m] # NoRow

\* A step that gives one thread a good job keeps all of them good.
LEMMA JobMoves ==
  ASSUME JobsOK, RowsStay, NEW w \in Workers, NEW j \in Jobs,
         job' = [job EXCEPT ![w] = j], GoodJob(j, stored', row')
  PROVE  JobsOK'
<1>1. \A v \in Workers : GoodJob(job[v], stored', row')
  BY DEF JobsOK, GoodJob, RowsStay, Jobs
<1>2. job' \in [Workers -> Jobs] /\ job'[w] = j /\ \A v \in Workers \ {w} : job'[v] = job[v]
  BY DEF JobsOK
<1> QED
  BY <1>1, <1>2 DEF JobsOK

LEMMA Bounds == MaxJobs \in Nat /\ MaxFaults \in Nat /\ None \notin Messages
  BY SignalAssumption

LEMMA TypeInit == Init => TypeInv
<1> SUFFICES ASSUME Init PROVE TypeInv
  OBVIOUS
<1>1. IsFiniteSet({})
  BY FS_EmptySet
<1>2. row \in [Messages -> Rows \cup {NoRow}]
  BY DEF Init
<1>3. /\ passing \subseteq Messages /\ stored = {} /\ heard = {} /\ torn = {} /\ orphaned = {}
      /\ stop \in BOOLEAN /\ jobs \in 0..MaxJobs /\ faults \in 0..MaxFaults
  <2>1. 0 \in 0..MaxJobs /\ 0 \in 0..MaxFaults
    BY Bounds
  <2>2. passing \subseteq Messages
    BY SignalAssumption DEF Init
  <2> QED
    BY <2>1, <2>2 DEF Init
<1>4. RestOK
  BY <1>1, <1>2, <1>3 DEF RestOK
<1>5. JobsOK
  BY IdleIsGood, IdleIsJob DEF Init, JobsOK
<1> QED
  BY <1>4, <1>5 DEF TypeInv

\* A chunk is as large as ChunkSize allows.
LEMMA ChunkIsSmall ==
  ASSUME TypeInv, NEW w \in Workers, NEW c \in SUBSET job[w].passed,
         Cardinality(c) = Smaller(ChunkSize, Cardinality(job[w].passed))
  PROVE  Cardinality(c) <= ChunkSize
<1>1. IsFiniteSet(job[w].passed)
  BY FS_Subset DEF TypeInv, RestOK, JobsOK, GoodJob
<1>2. Cardinality(job[w].passed) \in Nat
  BY <1>1, FS_CardinalityType
<1> QED
  BY <1>2, SignalAssumption DEF Smaller

-----------------------------------------------------------------------------
\* The row that a save writes, and the rows it leaves alone.
LEMMA RowWritten ==
  ASSUME TypeInv, NEW w \in Workers, SaveWrites(w)
  PROVE  /\ job[w].at \in Messages
         /\ row' \in [Messages -> Rows \cup {NoRow}]
         /\ row'[job[w].at] \in Rows
         /\ \A n \in Messages \ {job[w].at} : row'[n] = row[n]
<1> DEFINE m == job[w].at
<1>1. m \in Messages /\ job[w].seen \in Rows \cup {NoRow} /\ (job[w].seen # NoRow => row[m] # NoRow)
  BY DEF SaveWrites, TypeInv, JobsOK, GoodJob, Jobs
<1>2. row[m] \in Rows \cup {NoRow} /\ row \in [Messages -> Rows \cup {NoRow}]
  BY <1>1 DEF TypeInv, RestOK
<1> DEFINE Written(new) == IF job[w].seen = NoRow THEN Inserted(new)
                           ELSE Updated(row[m], job[w].seen, new)
<1>3. PICK new \in Saves(w) : row' = [row EXCEPT ![m] = Written(new)]
  BY DEF SaveWrites
<1>4. new \in Columns
  BY SavesAreColumns
<1>5. Written(new) \in Rows
  BY <1>1, <1>2, <1>4, InsertedIsRow, UpdatedIsRow
<1> HIDE DEF Written, m
<1>6. row'[m] = Written(new) /\ \A n \in Messages \ {m} : row'[n] = row[n]
  BY <1>1, <1>2, <1>3
<1>7. row' \in [Messages -> Rows \cup {NoRow}]
  BY <1>1, <1>2, <1>3, <1>5
<1> QED
  BY <1>1, <1>5, <1>6, <1>7 DEF m

LEMMA BatchRows ==
  ASSUME TypeInv, NEW w \in Workers, NEW overwrite \in BOOLEAN, NEW old \in SUBSET Processing,
         BatchBegin(w, overwrite, old)
  PROVE  /\ row' \in [Messages -> Rows \cup {NoRow}]
         /\ \A m \in Messages : row'[m] # row[m] => row'[m].status = "pending" /\ row[m] # NoRow
                                                   /\ row'[m] # NoRow
<1>1. \A m \in old : row[m] \in Rows
  BY DEF Processing, TypeInv, RestOK, NoRow
<1>2. \A m \in old : [row[m] EXCEPT !.status = "pending"] \in Rows
  BY <1>1 DEF Rows, Status
<1>3. \A m \in Messages : row[m] \in Rows \cup {NoRow}
  BY DEF TypeInv, RestOK
<1>4. row' \in [Messages -> Rows \cup {NoRow}]
  BY <1>2, <1>3 DEF BatchBegin
<1>5. \A m \in old : row'[m].status = "pending"
  BY <1>1 DEF BatchBegin, Rows, Processing
<1>6. \A m \in Messages \ old : row'[m] = row[m]
  BY DEF BatchBegin
<1> QED
  BY <1>1, <1>4, <1>5, <1>6, NoRowIsNoRow DEF NoRow

LEMMA RestStep == TypeInv /\ [Next]_vars => RestOK'
<1> SUFFICES ASSUME TypeInv, [Next]_vars PROVE RestOK'
  OBVIOUS
<1> USE Bounds DEF TypeInv, RestOK, tables, history
<1>1. ASSUME NEW m \in Messages, CrawlSaves(m) \/ ListenerReceives(m)
      PROVE  RestOK'
  <2>1. IsFiniteSet(stored')
    BY <1>1, FS_AddElement DEF CrawlSaves, ListenerReceives
  <2> QED
    BY <1>1, <2>1 DEF CrawlSaves, ListenerReceives, JobCounted
<1>2. ASSUME NEW m \in Messages, Reprocess(m)
      PROVE  RestOK'
  BY <1>2 DEF Reprocess, JobCounted
<1>3. CASE ServiceStart \/ ServiceStop \/ DaemonPoll
  <2>1. UNCHANGED <<tables, faults, history>>
    BY <1>3 DEF ServiceStart, ServiceStop, DaemonPoll
  <2>2. stop' \in {TRUE, FALSE, stop}
    BY <1>3, Zenon DEF ServiceStart, ServiceStop, DaemonPoll
  <2>3. jobs' = jobs \/ JobCounted
    BY <1>3, Zenon DEF ServiceStart, ServiceStop, DaemonPoll
  <2>4. jobs' \in 0..MaxJobs
    BY <2>3 DEF JobCounted
  <2> QED
    BY <2>1, <2>2, <2>4
<1>4. \A w \in Workers : job[w].chunk \subseteq Messages /\ job[w].at \in Messages \cup {None}
  BY DEF JobsOK, Jobs
<1>5. CASE Crash
  <2>1. UNION {job[w].chunk : w \in Workers} \subseteq Messages
    BY <1>4
  <2>2. UNCHANGED <<tables, jobs, torn>>
    BY <1>5 DEF Crash
  <2>4. FaultCounted /\ stop' = FALSE
    BY <1>5 DEF Crash
  <2>5. faults' \in 0..MaxFaults
    BY <2>4 DEF FaultCounted
  <2>3. orphaned' \subseteq Messages
    BY <1>5, <2>1 DEF Crash
  <2> QED
    BY <2>2, <2>3, <2>4, <2>5
<1>6. ASSUME NEW w \in Workers, NEW overwrite \in BOOLEAN, NEW old \in SUBSET Processing,
             BatchBegin(w, overwrite, old)
      PROVE  RestOK'
  BY <1>6, BatchRows DEF BatchBegin
<1>7. ASSUME NEW w \in Workers, NEW m \in Messages,
             FilterPasses(w, m) \/ FilterRejects(w, m) \/ SaveReads(w, m)
      PROVE  RestOK'
  BY <1>7 DEF FilterPasses, FilterRejects, SaveReads
<1>8. ASSUME NEW w \in Workers, NextChunk(w) \/ CallLLM(w) \/ JobEnds(w)
      PROVE  RestOK'
  BY <1>8 DEF NextChunk, CallLLM, JobEnds, ServiceOver
<1>9. ASSUME NEW w \in Workers, SaveWrites(w)
      PROVE  RestOK'
  <2>1. row' \in [Messages -> Rows \cup {NoRow}] /\ job[w].at \in Messages
    BY <1>9, RowWritten
  <2> QED
    BY <1>9, <2>1 DEF SaveWrites
<1>10. ASSUME NEW w \in Workers, SaveRaises(w)
       PROVE  RestOK'
  <2>1. faults' \in 0..MaxFaults
    BY <1>10 DEF SaveRaises, FaultCounted
  <2> QED
    BY <1>4, <1>10, <2>1 DEF SaveRaises, ServiceOver
<1>11. ASSUME NEW w \in Workers, BatchFails(w)
       PROVE  RestOK'
  BY <1>11 DEF BatchFails, ServiceOver, FaultCounted
<1>12. CASE UNCHANGED vars
  BY <1>12 DEF vars
<1> QED
  BY <1>1, <1>2, <1>3, <1>5, <1>6, <1>7, <1>8, <1>9, <1>10, <1>11, <1>12, NextCases

LEMMA JobsStep == TypeInv /\ [Next]_vars => JobsOK'
<1> SUFFICES ASSUME TypeInv, [Next]_vars PROVE JobsOK'
  OBVIOUS
<1> USE DEF tables, history
<1>1. /\ JobsOK /\ job \in [Workers -> Jobs]
      /\ row \in [Messages -> Rows \cup {NoRow}] /\ stored \subseteq Messages
  BY DEF TypeInv, RestOK, JobsOK
<1>2. \A w \in Workers : job[w] \in Jobs /\ GoodJob(job[w], stored, row)
  BY <1>1 DEF JobsOK
<1>3. \A m \in Messages : row[m] \in Rows \cup {NoRow}
  BY <1>1
<1>4. ASSUME NEW m \in Messages, CrawlSaves(m)
      PROVE  JobsOK'
  <2>1. \A w \in Workers : GoodJob(job[w], stored', row')
    BY <1>2, <1>4 DEF CrawlSaves, GoodJob
  <2> QED
    BY <1>1, <1>4, <2>1 DEF CrawlSaves, JobsOK
<1>5. ASSUME NEW m \in Messages, ListenerReceives(m) \/ Reprocess(m)
      PROVE  JobsOK'
  <2> DEFINE j == [Idle EXCEPT !.phase = "filter", !.todo = {m}]
  <2>1. PICK w \in Workers : job' = [job EXCEPT ![w] = j]
    BY <1>5 DEF ListenerReceives, Reprocess
  <2>2. j \in Jobs
    BY DEF Idle, Jobs, Phases
  <2>3. GoodJob(j, stored', row') /\ RowsStay
    BY <1>5, IdleIsGood DEF ListenerReceives, Reprocess, RowsStay, GoodJob, Idle
  <2> HIDE DEF j
  <2> QED
    BY <1>1, <2>1, <2>2, <2>3, JobMoves
<1>6. ASSUME NEW w \in Workers, NEW j \in Jobs, UNCHANGED <<stored, row>>,
             job' = [job EXCEPT ![w] = j], GoodJob(j, stored, row)
       PROVE  JobsOK'
  BY <1>1, <1>6, JobMoves DEF RowsStay
<1>7. CASE ServiceStart \/ DaemonPoll
  <2>1. PICK w \in Workers : job' = [job EXCEPT ![w].phase = "starting"]
    BY <1>7 DEF ServiceStart, DaemonPoll
  <2> DEFINE j == [job[w] EXCEPT !.phase = "starting"]
  <2>2. j \in Jobs
    BY <1>2 DEF Jobs, Phases
  <2>3. GoodJob(j, stored, row)
    BY <1>2 DEF GoodJob, Jobs
  <2>4. job' = [job EXCEPT ![w] = j]
    BY <2>1
  <2>5. UNCHANGED <<stored, row>>
    BY <1>7 DEF ServiceStart, DaemonPoll
  <2> HIDE DEF j
  <2> QED
    BY <1>6, <2>2, <2>3, <2>4, <2>5
<1>8. CASE ServiceStop
  BY <1>1, <1>8 DEF ServiceStop, JobsOK
<1>9. CASE Crash
  BY <1>9, IdleIsGood, IdleIsJob DEF Crash, JobsOK
<1>10. ASSUME NEW w \in Workers, NEW overwrite \in BOOLEAN, NEW old \in SUBSET Processing,
              BatchBegin(w, overwrite, old)
       PROVE  JobsOK'
  <2> DEFINE j == [job[w] EXCEPT !.phase = "filter", !.todo = Unprocessed(overwrite)]
  <2>1. RowsStay
    BY <1>10, BatchRows DEF BatchBegin, RowsStay
  <2>2. Unprocessed(overwrite) \subseteq stored /\ stored' = stored
    BY <1>10 DEF Unprocessed, BatchBegin
  <2>3. j \in Jobs
    BY <1>1, <1>2, <2>2 DEF Jobs, Phases
  <2>4. job[w].at \in Messages \cup {None}
    BY <1>2 DEF Jobs
  <2>5. GoodJob(j, stored', row')
    BY <1>2, <2>1, <2>2, <2>4 DEF GoodJob, Jobs, RowsStay
  <2>6. job' = [job EXCEPT ![w] = j]
    BY <1>10 DEF BatchBegin
  <2> HIDE DEF j
  <2> QED
    BY <1>1, <2>1, <2>3, <2>5, <2>6, JobMoves
<1>11. ASSUME NEW w \in Workers, NEW m \in Messages, FilterPasses(w, m)
       PROVE  JobsOK'
  <2> DEFINE j == [job[w] EXCEPT !.todo = @ \ {m}, !.passed = @ \cup {m}]
  <2>1. j \in Jobs
    BY <1>2 DEF Jobs
  <2>2. GoodJob(j, stored, row)
    BY <1>2, <1>11 DEF GoodJob, Jobs, FilterPasses
  <2>3. UNCHANGED <<stored, row>>
    BY <1>11 DEF FilterPasses
  <2>4. job' = [job EXCEPT ![w] = IF StopSeen(w) THEN Idle ELSE j]
    BY <1>11 DEF FilterPasses
  <2> HIDE DEF j
  <2> QED
    BY <1>6, <2>1, <2>2, <2>3, <2>4, IdleIsGood, IdleIsJob
<1>12. ASSUME NEW w \in Workers, NEW m \in Messages, FilterRejects(w, m)
       PROVE  JobsOK'
  <2> DEFINE j == [job[w] EXCEPT !.todo = @ \ {m}, !.at = m, !.seen = row[m]]
  <2>1. j \in Jobs
    BY <1>2, <1>3 DEF Jobs
  <2>2. GoodJob(j, stored, row)
    BY <1>2 DEF GoodJob, Jobs
  <2>3. UNCHANGED <<stored, row>> /\ job' = [job EXCEPT ![w] = j]
    BY <1>12 DEF FilterRejects
  <2> HIDE DEF j
  <2> QED
    BY <1>6, <2>1, <2>2, <2>3
<1>13. ASSUME NEW w \in Workers, NEW m \in Messages, SaveReads(w, m)
       PROVE  JobsOK'
  <2> DEFINE j == [job[w] EXCEPT !.left = @ \ {m}, !.at = m, !.seen = row[m]]
  <2>1. j \in Jobs
    BY <1>2, <1>3 DEF Jobs
  <2>2. GoodJob(j, stored, row)
    BY <1>2 DEF GoodJob, Jobs
  <2>3. UNCHANGED <<stored, row>> /\ job' = [job EXCEPT ![w] = j]
    BY <1>13 DEF SaveReads
  <2> HIDE DEF j
  <2> QED
    BY <1>6, <2>1, <2>2, <2>3
<1>14. ASSUME NEW w \in Workers, NextChunk(w)
       PROVE  JobsOK'
  <2>1. PICK c \in SUBSET job[w].passed :
           /\ Cardinality(c) = Smaller(ChunkSize, Cardinality(job[w].passed))
           /\ job' = [job EXCEPT ![w] =
                        [job[w] EXCEPT !.phase = "mark", !.chunk = c, !.left = c, !.passed = @ \ c]]
    BY <1>14 DEF NextChunk
  <2> DEFINE j == [job[w] EXCEPT !.phase = "mark", !.chunk = c, !.left = c, !.passed = @ \ c]
  <2>2. Cardinality(c) <= ChunkSize
    BY <2>1, ChunkIsSmall
  <2>3. j \in Jobs
    BY <1>2 DEF Jobs, Phases
  <2>4. GoodJob(j, stored, row)
    BY <1>2, <2>2 DEF GoodJob, Jobs
  <2>5. UNCHANGED <<stored, row>> /\ job' = [job EXCEPT ![w] = j]
    BY <1>14, <2>1 DEF NextChunk
  <2> HIDE DEF j
  <2> QED
    BY <1>6, <2>3, <2>4, <2>5
<1>15. ASSUME NEW w \in Workers, CallLLM(w)
       PROVE  JobsOK'
  <2> DEFINE j == [job[w] EXCEPT !.phase = "finish", !.left = job[w].chunk]
  <2>1. j \in Jobs
    BY <1>2 DEF Jobs, Phases
  <2>2. GoodJob(j, stored, row)
    BY <1>2 DEF GoodJob, Jobs
  <2>3. UNCHANGED <<stored, row>> /\ job' = [job EXCEPT ![w] = j]
    BY <1>15 DEF CallLLM
  <2> HIDE DEF j
  <2> QED
    BY <1>6, <2>1, <2>2, <2>3
<1>16. ASSUME NEW w \in Workers, JobEnds(w)
       PROVE  JobsOK'
  BY <1>6, <1>16, IdleIsGood, IdleIsJob DEF JobEnds
<1>17. ASSUME NEW w \in Workers, SaveWrites(w)
       PROVE  JobsOK'
  <2> DEFINE j == [job[w] EXCEPT !.at = None, !.seen = NoRow]
  <2>1. j \in Jobs
    BY <1>2 DEF Jobs
  <2>2. stored' = stored
    BY <1>17 DEF SaveWrites
  <2>3. RowsStay
    BY <1>17, <2>2, RowWritten, NoRowIsNoRow DEF RowsStay
  <2>4. GoodJob(j, stored', row')
    BY <1>2, <2>2 DEF GoodJob, Jobs
  <2>5. job' = [job EXCEPT ![w] = IF job[w].phase = "filter" /\ StopSeen(w) THEN Idle ELSE j]
    BY <1>17 DEF SaveWrites
  <2> HIDE DEF j
  <2> QED
    BY <1>1, <2>1, <2>3, <2>4, <2>5, IdleIsGood, IdleIsJob, JobMoves
<1>18. ASSUME NEW w \in Workers, SaveRaises(w)
       PROVE  JobsOK'
  <2> DEFINE j == [Idle EXCEPT !.phase = "requeue", !.left = {job[w].at}]
  <2>1. job[w].at \in Messages
    BY <1>2, <1>18 DEF SaveRaises, Jobs
  <2>2. j \in Jobs
    BY <2>1 DEF Idle, Jobs, Phases
  <2>3. GoodJob(j, stored, row)
    BY IdleIsGood DEF GoodJob, Idle
  <2>4. UNCHANGED <<stored, row>>
    BY <1>18 DEF SaveRaises
  <2>5. job' = [job EXCEPT ![w] = j] \/ job' = [job EXCEPT ![w] = Idle]
    BY <1>18 DEF SaveRaises
  <2> HIDE DEF j
  <2> QED
    BY <1>6, <2>2, <2>3, <2>4, <2>5, IdleIsGood, IdleIsJob
<1>19. ASSUME NEW w \in Workers, BatchFails(w)
       PROVE  JobsOK'
  BY <1>6, <1>19, IdleIsGood, IdleIsJob DEF BatchFails
<1>20. CASE UNCHANGED vars
  BY <1>1, <1>20 DEF vars, JobsOK
<1> QED
  BY <1>4, <1>5, <1>7, <1>8, <1>9, <1>10, <1>11, <1>12, <1>13, <1>14, <1>15, <1>16, <1>17,
     <1>18, <1>19, <1>20, NextCases

LEMMA TypeAlways == Spec => []TypeInv
<1>1. TypeInv /\ [Next]_vars => TypeInv'
  BY RestStep, JobsStep DEF TypeInv
<1> QED
  BY <1>1, TypeInit, PTL DEF Spec

\* Every variable keeps its type: what a save writes over a row that another
\* thread has changed is a row still, and no chunk sent to the LLM is larger
\* than llm_batch_size.
THEOREM TypeCorrect == Spec => []TypeOK
  BY InvIsTyped, TypeAlways, PTL

-----------------------------------------------------------------------------
(* The flag. A save that finds the row as it was when it read it leaves    *)
(* the row as if it had written every column, and a final status never     *)
(* comes without a flag of its own.                                        *)

FlaggedRow(r) ==
  r.status \in {"completed", "failed", "skipped"} =>
    (r.flag = "signal" <=> r.status = "completed" /\ r.verdict = "strong")

LEMMA SavedRowIsFlagged ==
  ASSUME NEW w \in Workers, NEW new \in Saves(w)
  PROVE  FlaggedRow(Inserted(new)) /\ \A now \in Rows : FlaggedRow(Updated(now, now, new))
<1>1. new \in Columns
  BY SavesAreColumns
<1>2. /\ new.status \in {"completed", "failed", "skipped"} => new.flag # Keep
      /\ new.status = "completed" => new.verdict \in {"weak", "strong"}
      /\ new.status \in {"completed", "failed", "skipped"} =>
           (new.flag = "signal" <=> new.status = "completed" /\ new.verdict = "strong")
  BY SavesByPhase DEF Rejected, Marked, Failed, Requeued, Completed, Keep
<1>3. FlaggedRow(Inserted(new))
  BY <1>1, <1>2 DEF FlaggedRow, Inserted, Default, Columns, Status, Keep
<1>4. ASSUME NEW now \in Rows
      PROVE  FlaggedRow(Updated(now, now, new))
  BY <1>1, <1>2 DEF FlaggedRow, Updated, Default, Columns, Rows, Status, Keep
<1> QED
  BY <1>3, <1>4

LEMMA FlagStep == TypeInv /\ OnlyTornRowsMisflagged /\ [Next]_vars => OnlyTornRowsMisflagged'
<1> SUFFICES ASSUME TypeInv, OnlyTornRowsMisflagged, [Next]_vars
             PROVE  OnlyTornRowsMisflagged'
  OBVIOUS
<1> USE DEF tables, history
<1>1. ASSUME UNCHANGED <<row, torn>>
      PROVE  OnlyTornRowsMisflagged'
  BY <1>1 DEF OnlyTornRowsMisflagged, Flagged
<1>2. ASSUME NEW m \in Messages, CrawlSaves(m) \/ ListenerReceives(m) \/ Reprocess(m)
      PROVE  OnlyTornRowsMisflagged'
  BY <1>1, <1>2 DEF CrawlSaves, ListenerReceives, Reprocess
<1>3. CASE ServiceStart \/ ServiceStop \/ DaemonPoll
  <2>1. UNCHANGED <<tables, history>>
    BY <1>3, Zenon DEF ServiceStart, ServiceStop, DaemonPoll
  <2> QED
    BY <1>1, <2>1
<1>4. CASE Crash
  BY <1>1, <1>4 DEF Crash
<1>5. ASSUME NEW w \in Workers, NEW overwrite \in BOOLEAN, NEW old \in SUBSET Processing,
             BatchBegin(w, overwrite, old)
      PROVE  OnlyTornRowsMisflagged'
  <2>1. torn' = torn
    BY <1>5 DEF BatchBegin
  <2> QED
    BY <1>5, <2>1, BatchRows DEF OnlyTornRowsMisflagged, Flagged
<1>6. ASSUME NEW w \in Workers, NEW m \in Messages,
             FilterPasses(w, m) \/ FilterRejects(w, m) \/ SaveReads(w, m)
      PROVE  OnlyTornRowsMisflagged'
  BY <1>1, <1>6 DEF FilterPasses, FilterRejects, SaveReads
<1>7. ASSUME NEW w \in Workers, NextChunk(w) \/ CallLLM(w) \/ JobEnds(w)
      PROVE  OnlyTornRowsMisflagged'
  BY <1>1, <1>7 DEF NextChunk, CallLLM, JobEnds
<1>8. ASSUME NEW w \in Workers, SaveWrites(w)
      PROVE  OnlyTornRowsMisflagged'
  <2> DEFINE m == job[w].at
  <2>1. m \in Messages /\ \A n \in Messages \ {m} : row'[n] = row[n]
    BY <1>8, RowWritten
  <2>2. torn \subseteq torn' /\ (m \notin torn' => row[m] = job[w].seen)
    BY <1>8 DEF SaveWrites
  <2>3. ASSUME m \notin torn'
        PROVE  FlaggedRow(row'[m])
    <3>1. PICK new \in Saves(w) :
             row' = [row EXCEPT ![m] = IF job[w].seen = NoRow THEN Inserted(new)
                                       ELSE Updated(row[m], job[w].seen, new)]
      BY <1>8 DEF SaveWrites
    <3>2. row[m] \in Rows \cup {NoRow} /\ row \in [Messages -> Rows \cup {NoRow}]
      BY <2>1 DEF TypeInv, RestOK
    <3>3. CASE job[w].seen = NoRow
      BY <2>1, <3>1, <3>2, <3>3, SavedRowIsFlagged
    <3>4. CASE job[w].seen # NoRow
      <4>1. row'[m] = Updated(row[m], row[m], new)
        BY <2>1, <2>2, <2>3, <3>1, <3>2, <3>4
      <4>2. row[m] \in Rows
        BY <2>2, <2>3, <3>2, <3>4
      <4> QED
        BY <4>1, <4>2, SavedRowIsFlagged
    <3> QED
      BY <3>3, <3>4
  <2> HIDE DEF m
  <2> QED
    BY <2>1, <2>2, <2>3 DEF OnlyTornRowsMisflagged, Flagged, FlaggedRow
<1>9. ASSUME NEW w \in Workers, SaveRaises(w)
      PROVE  OnlyTornRowsMisflagged'
  BY <1>1, <1>9 DEF SaveRaises
<1>10. ASSUME NEW w \in Workers, BatchFails(w)
       PROVE  OnlyTornRowsMisflagged'
  BY <1>1, <1>10 DEF BatchFails
<1>11. CASE UNCHANGED vars
  BY <1>1, <1>11 DEF vars
<1> QED
  BY <1>2, <1>3, <1>4, <1>5, <1>6, <1>7, <1>8, <1>9, <1>10, <1>11, NextCases

\* Where no two saves of a row overlapped, its flag is what its status and
\* verdict say, in whatever order the four threads saved their results.
THEOREM FlagsAreRight == Spec => []OnlyTornRowsMisflagged
<1>1. Init => OnlyTornRowsMisflagged
  BY DEF Init, OnlyTornRowsMisflagged, Flagged, NoRow
<1> QED
  BY <1>1, FlagStep, TypeAlways, PTL DEF Spec

-----------------------------------------------------------------------------
(* Who still has to save a row that is marked. ProcessingHasWorker is not  *)
(* inductive: a thread about to save the result of a row that it has read  *)
(* as completed leaves the status out of its UPDATE, and with it the mark  *)
(* that another thread has set since. The invariant asks for a thread      *)
(* whose save will take the mark away.                                     *)

WillUnmark(j, m) ==
  /\ m \in j.chunk
  /\ \/ j.phase = "mark"
     \/ m \in j.left
     \/ j.at = m /\ j.seen.status \notin {"completed", "failed"}

MarkHasWorker ==
  \A m \in Messages \ orphaned :
    row[m].status = "processing" => \E w \in Workers : WillUnmark(job[w], m)

\* A thread has a chunk only while it marks and saves it.
Shaped(j) ==
  /\ j.phase \notin {"mark", "finish"} => j.chunk = {}
  /\ j.phase \in {"mark", "finish"} => j.left \subseteq j.chunk /\ j.at \in j.chunk \cup {None}

ChunkShape == \A w \in Workers : Shaped(job[w])

LEMMA IdleIsShaped == Shaped(Idle)
  BY DEF Shaped, Idle

LEMMA OneMoves ==
  ASSUME TypeInv, NEW w \in Workers, NEW j, job' = [job EXCEPT ![w] = j]
  PROVE  job'[w] = j /\ \A v \in Workers \ {w} : job'[v] = job[v]
  BY DEF TypeInv, JobsOK

LEMMA ShapeStep == TypeInv /\ ChunkShape /\ [Next]_vars => ChunkShape'
<1> SUFFICES ASSUME TypeInv, ChunkShape, [Next]_vars PROVE ChunkShape'
  OBVIOUS
<1> USE DEF tables, history
<1>1. \A w \in Workers : job[w] \in Jobs /\ Shaped(job[w])
  BY DEF TypeInv, JobsOK, ChunkShape
<1>2. ASSUME NEW w \in Workers, NEW j, job' = [job EXCEPT ![w] = j], Shaped(j)
      PROVE  ChunkShape'
  BY <1>1, <1>2, OneMoves DEF ChunkShape
<1>3. ASSUME job' = job
      PROVE  ChunkShape'
  BY <1>3 DEF ChunkShape
<1>4. ASSUME NEW m \in Messages, CrawlSaves(m)
      PROVE  ChunkShape'
  BY <1>3, <1>4 DEF CrawlSaves
<1>5. ASSUME NEW m \in Messages, ListenerReceives(m) \/ Reprocess(m)
      PROVE  ChunkShape'
  <2> DEFINE j == [Idle EXCEPT !.phase = "filter", !.todo = {m}]
  <2>1. PICK w \in Workers : job' = [job EXCEPT ![w] = j]
    BY <1>5 DEF ListenerReceives, Reprocess
  <2>2. Shaped(j)
    BY DEF Shaped, Idle
  <2> HIDE DEF j
  <2> QED
    BY <1>2, <2>1, <2>2
<1>6. CASE ServiceStart \/ DaemonPoll
  <2>1. PICK w \in Workers : job' = [job EXCEPT ![w].phase = "starting"] /\ job[w].phase = "idle"
    BY <1>6 DEF ServiceStart, DaemonPoll
  <2> DEFINE j == [job[w] EXCEPT !.phase = "starting"]
  <2>2. Shaped(j)
    BY <1>1, <2>1 DEF Shaped, Jobs
  <2>3. job' = [job EXCEPT ![w] = j]
    BY <2>1
  <2> HIDE DEF j
  <2> QED
    BY <1>2, <2>2, <2>3
<1>7. CASE ServiceStop
  BY <1>3, <1>7 DEF ServiceStop
<1>8. CASE Crash
  BY <1>8, IdleIsShaped DEF Crash, ChunkShape
<1>9. ASSUME NEW w \in Workers, NEW overwrite \in BOOLEAN, NEW old \in SUBSET Processing,
             BatchBegin(w, overwrite, old)
      PROVE  ChunkShape'
  <2> DEFINE j == [job[w] EXCEPT !.phase = "filter", !.todo = Unprocessed(overwrite)]
  <2>1. job' = [job EXCEPT ![w] = j] /\ job[w].phase = "starting"
    BY <1>9 DEF BatchBegin
  <2>2. Shaped(j)
    BY <1>1, <2>1 DEF Shaped, Jobs
  <2> HIDE DEF j
  <2> QED
    BY <1>2, <2>1, <2>2
<1>10. ASSUME NEW w \in Workers, NEW m \in Messages, FilterPasses(w, m)
       PROVE  ChunkShape'
  <2> DEFINE j == [job[w] EXCEPT !.todo = @ \ {m}, !.passed = @ \cup {m}]
  <2>1. job' = [job EXCEPT ![w] = IF StopSeen(w) THEN Idle ELSE j]
    BY <1>10 DEF FilterPasses
  <2>2. Shaped(j)
    BY <1>1 DEF Shaped, Jobs
  <2> HIDE DEF j
  <2> QED
    BY <1>2, <2>1, <2>2, IdleIsShaped
<1>11. ASSUME NEW w \in Workers, NEW m \in Messages, FilterRejects(w, m)
       PROVE  ChunkShape'
  <2> DEFINE j == [job[w] EXCEPT !.todo = @ \ {m}, !.at = m, !.seen = row[m]]
  <2>1. job' = [job EXCEPT ![w] = j] /\ job[w].phase = "filter"
    BY <1>11 DEF FilterRejects
  <2>2. Shaped(j)
    BY <1>1, <2>1 DEF Shaped, Jobs
  <2> HIDE DEF j
  <2> QED
    BY <1>2, <2>1, <2>2
<1>12. ASSUME NEW w \in Workers, NEW m \in Messages, SaveReads(w, m)
       PROVE  ChunkShape'
  <2> DEFINE j == [job[w] EXCEPT !.left = @ \ {m}, !.at = m, !.seen = row[m]]
  <2>1. job' = [job EXCEPT ![w] = j] /\ m \in job[w].left
    BY <1>12 DEF SaveReads
  <2>2. Shaped(j)
    BY <1>1, <2>1 DEF Shaped, Jobs
  <2> HIDE DEF j
  <2> QED
    BY <1>2, <2>1, <2>2
<1>13. ASSUME NEW w \in Workers, NextChunk(w)
       PROVE  ChunkShape'
  <2>1. PICK c \in SUBSET job[w].passed :
           job' = [job EXCEPT ![w] =
                     [job[w] EXCEPT !.phase = "mark", !.chunk = c, !.left = c, !.passed = @ \ c]]
    BY <1>13 DEF NextChunk
  <2> DEFINE j == [job[w] EXCEPT !.phase = "mark", !.chunk = c, !.left = c, !.passed = @ \ c]
  <2>2. job' = [job EXCEPT ![w] = j] /\ job[w].at = None
    BY <1>13, <2>1 DEF NextChunk
  <2>3. Shaped(j)
    BY <1>1, <2>2 DEF Shaped, Jobs
  <2> HIDE DEF j
  <2> QED
    BY <1>2, <2>2, <2>3
<1>14. ASSUME NEW w \in Workers, CallLLM(w)
       PROVE  ChunkShape'
  <2> DEFINE j == [job[w] EXCEPT !.phase = "finish", !.left = job[w].chunk]
  <2>1. job' = [job EXCEPT ![w] = j] /\ job[w].phase = "mark"
    BY <1>14 DEF CallLLM
  <2>2. Shaped(j)
    BY <1>1, <2>1 DEF Shaped, Jobs
  <2> HIDE DEF j
  <2> QED
    BY <1>2, <2>1, <2>2
<1>15. ASSUME NEW w \in Workers, JobEnds(w)
       PROVE  ChunkShape'
  BY <1>2, <1>15, IdleIsShaped DEF JobEnds
<1>16. ASSUME NEW w \in Workers, SaveWrites(w)
       PROVE  ChunkShape'
  <2> DEFINE j == [job[w] EXCEPT !.at = None, !.seen = NoRow]
  <2>1. job' = [job EXCEPT ![w] = IF job[w].phase = "filter" /\ StopSeen(w) THEN Idle ELSE j]
    BY <1>16 DEF SaveWrites
  <2>2. Shaped(j)
    BY <1>1 DEF Shaped, Jobs
  <2> HIDE DEF j
  <2> QED
    BY <1>2, <2>1, <2>2, IdleIsShaped
<1>17. ASSUME NEW w \in Workers, SaveRaises(w)
       PROVE  ChunkShape'
  <2> DEFINE j == [Idle EXCEPT !.phase = "requeue", !.left = {job[w].at}]
  <2>1. job' = [job EXCEPT ![w] = j] \/ job' = [job EXCEPT ![w] = Idle]
    BY <1>17 DEF SaveRaises
  <2>2. Shaped(j)
    BY DEF Shaped, Idle
  <2> HIDE DEF j
  <2> QED
    BY <1>2, <2>1, <2>2, IdleIsShaped
<1>18. ASSUME NEW w \in Workers, BatchFails(w)
       PROVE  ChunkShape'
  BY <1>2, <1>18, IdleIsShaped DEF BatchFails
<1>19. CASE UNCHANGED vars
  BY <1>3, <1>19 DEF vars
<1> QED
  BY <1>4, <1>5, <1>6, <1>7, <1>8, <1>9, <1>10, <1>11, <1>12, <1>13, <1>14, <1>15, <1>16,
     <1>17, <1>18, <1>19, NextCases

\* A thread that moves may stop being a worker for a message only when the
\* row is not marked any more or its chunk is counted as orphaned.
LEMMA WorkersStay ==
  ASSUME TypeInv, MarkHasWorker, orphaned \subseteq orphaned', NEW w \in Workers, NEW j,
         job' = [job EXCEPT ![w] = j],
         \A m \in Messages \ orphaned' :
           row'[m].status = "processing" =>
             \/ WillUnmark(j, m)
             \/ row[m].status = "processing" /\ ~WillUnmark(job[w], m)
  PROVE  MarkHasWorker'
<1> SUFFICES ASSUME NEW m \in Messages \ orphaned', row'[m].status = "processing"
             PROVE  \E v \in Workers : WillUnmark(job'[v], m)
  BY DEF MarkHasWorker, WillUnmark
<1>1. CASE WillUnmark(j, m)
  BY <1>1, OneMoves
<1>2. CASE ~WillUnmark(j, m)
  <2>1. row[m].status = "processing" /\ ~WillUnmark(job[w], m)
    BY <1>2
  <2>2. PICK v \in Workers : WillUnmark(job[v], m)
    BY <2>1 DEF MarkHasWorker
  <2>3. job'[v] = job[v]
    BY <2>1, <2>2, OneMoves
  <2> QED
    BY <2>2, <2>3
<1> QED
  BY <1>1, <1>2

\* A save other than the mark leaves 'processing' only where it was, and a
\* result only where the save has read a result.
LEMMA MarkSurvives ==
  ASSUME TypeInv, NEW w \in Workers, SaveWrites(w), job[w].phase # "mark",
         row'[job[w].at].status = "processing"
  PROVE  /\ row[job[w].at].status = "processing"
         /\ job[w].phase = "finish" => job[w].seen.status \in {"completed", "failed"}
<1> DEFINE m == job[w].at
<1>1. m \in Messages
  BY RowWritten
<1>2. PICK new \in Saves(w) :
         row' = [row EXCEPT ![m] = IF job[w].seen = NoRow THEN Inserted(new)
                                   ELSE Updated(row[m], job[w].seen, new)]
  BY DEF SaveWrites
<1>3. /\ new.status \in {"skipped", "failed", "completed", "pending"}
      /\ job[w].phase = "finish" => new.status \in {"completed", "failed"}
  BY SavesByPhase DEF Rejected, Failed, Requeued, Completed
<1>4. row'[m] = IF job[w].seen = NoRow THEN Inserted(new)
                ELSE Updated(row[m], job[w].seen, new)
  BY <1>1, <1>2 DEF TypeInv, RestOK
<1>5. Inserted(new).status = new.status
  BY <1>3 DEF Inserted, Default, Keep
<1>6. Updated(row[m], job[w].seen, new).status =
        IF new.status = job[w].seen.status THEN row[m].status ELSE new.status
  BY <1>3 DEF Updated, Default, Keep
<1> HIDE DEF m
<1> QED
  BY <1>3, <1>4, <1>5, <1>6 DEF m

LEMMA MarkStep == TypeInv /\ ChunkShape /\ MarkHasWorker /\ [Next]_vars => MarkHasWorker'
<1> SUFFICES ASSUME TypeInv, ChunkShape, MarkHasWorker, [Next]_vars PROVE MarkHasWorker'
  OBVIOUS
<1> USE DEF tables, history
<1>1. \A w \in Workers : job[w] \in Jobs /\ Shaped(job[w])
  BY DEF TypeInv, JobsOK, ChunkShape
<1>2. None \notin Messages
  BY Bounds
<1>3. ASSUME UNCHANGED <<row, job, orphaned>>
      PROVE  MarkHasWorker'
  BY <1>3 DEF MarkHasWorker, WillUnmark
<1>4. ASSUME NEW w \in Workers, NEW j, job' = [job EXCEPT ![w] = j],
             UNCHANGED <<row, orphaned>>,
             \A m \in Messages : WillUnmark(job[w], m) /\ row[m].status = "processing"
                                   => WillUnmark(j, m)
      PROVE  MarkHasWorker'
  BY <1>4, WorkersStay
<1>5. ASSUME NEW m \in Messages, CrawlSaves(m)
      PROVE  MarkHasWorker'
  BY <1>3, <1>5 DEF CrawlSaves
<1>6. ASSUME NEW w \in Workers, job[w].phase \notin {"mark", "finish"}
      PROVE  \A m \in Messages : ~WillUnmark(job[w], m)
  BY <1>1, <1>6 DEF WillUnmark, Shaped
<1>7. ASSUME NEW w \in Workers, job[w].left = {}, job[w].at = None, job[w].phase # "mark"
      PROVE  \A m \in Messages : ~WillUnmark(job[w], m)
  BY <1>2, <1>7 DEF WillUnmark
<1>8. ASSUME NEW m \in Messages, ListenerReceives(m) \/ Reprocess(m)
      PROVE  MarkHasWorker'
  <2>1. PICK w \in Workers :
          /\ job' = [job EXCEPT ![w] = [Idle EXCEPT !.phase = "filter", !.todo = {m}]]
          /\ job[w].phase = "idle"
    BY <1>8 DEF ListenerReceives, Reprocess
  <2>2. UNCHANGED <<row, orphaned>>
    BY <1>8 DEF ListenerReceives, Reprocess
  <2> QED
    BY <1>4, <1>6, <2>1, <2>2
<1>9. CASE ServiceStart \/ DaemonPoll
  <2>1. PICK w \in Workers : job' = [job EXCEPT ![w].phase = "starting"] /\ job[w].phase = "idle"
    BY <1>9 DEF ServiceStart, DaemonPoll
  <2>2. UNCHANGED <<row, orphaned>>
    BY <1>9 DEF ServiceStart, DaemonPoll
  <2>3. job' = [job EXCEPT ![w] = [job[w] EXCEPT !.phase = "starting"]]
    BY <2>1
  <2> QED
    BY <1>4, <1>6, <2>1, <2>2, <2>3
<1>10. CASE ServiceStop
  BY <1>3, <1>10 DEF ServiceStop
<1>11. CASE Crash
  <2>1. row' = row /\ orphaned' = orphaned \cup UNION {job[w].chunk : w \in Workers}
    BY <1>11 DEF Crash
  <2>2. \A m \in Messages, w \in Workers : WillUnmark(job[w], m) => m \in orphaned'
    BY <2>1 DEF WillUnmark
  <2> QED
    BY <2>1, <2>2 DEF MarkHasWorker
<1>12. ASSUME NEW w \in Workers, NEW overwrite \in BOOLEAN, NEW old \in SUBSET Processing,
              BatchBegin(w, overwrite, old)
       PROVE  MarkHasWorker'
  <2> DEFINE j == [job[w] EXCEPT !.phase = "filter", !.todo = Unprocessed(overwrite)]
  <2>1. job' = [job EXCEPT ![w] = j] /\ job[w].phase = "starting" /\ orphaned' = orphaned
    BY <1>12 DEF BatchBegin
  <2>2. \A m \in Messages : row'[m].status = "processing" => row[m].status = "processing"
    BY <1>12, BatchRows
  <2> HIDE DEF j
  <2> QED
    BY <1>6, <2>1, <2>2, WorkersStay
<1>13. ASSUME NEW w \in Workers, NEW m \in Messages, FilterPasses(w, m)
       PROVE  MarkHasWorker'
  <2> DEFINE j == IF StopSeen(w) THEN Idle
                  ELSE [job[w] EXCEPT !.todo = @ \ {m}, !.passed = @ \cup {m}]
  <2>1. /\ job' = [job EXCEPT ![w] = j]
        /\ job[w].phase = "filter" /\ UNCHANGED <<row, orphaned>>
    BY <1>13 DEF FilterPasses
  <2> HIDE DEF j
  <2> QED
    BY <1>4, <1>6, <2>1
<1>14. ASSUME NEW w \in Workers, NEW m \in Messages, FilterRejects(w, m)
       PROVE  MarkHasWorker'
  <2> DEFINE j == [job[w] EXCEPT !.todo = @ \ {m}, !.at = m, !.seen = row[m]]
  <2>1. /\ job' = [job EXCEPT ![w] = j]
        /\ job[w].phase = "filter" /\ UNCHANGED <<row, orphaned>>
    BY <1>14 DEF FilterRejects
  <2> HIDE DEF j
  <2> QED
    BY <1>4, <1>6, <2>1
<1>15. ASSUME NEW w \in Workers, NEW m \in Messages, SaveReads(w, m)
       PROVE  MarkHasWorker'
  <2> DEFINE j == [job[w] EXCEPT !.left = @ \ {m}, !.at = m, !.seen = row[m]]
  <2>1. job' = [job EXCEPT ![w] = j] /\ job[w].at = None /\ UNCHANGED <<row, orphaned>>
    BY <1>15 DEF SaveReads
  <2>2. ASSUME NEW n \in Messages, WillUnmark(job[w], n), row[n].status = "processing"
        PROVE  WillUnmark(j, n)
    BY <1>1, <1>2, <2>1, <2>2 DEF WillUnmark, Jobs
  <2> HIDE DEF j
  <2> QED
    BY <1>4, <2>1, <2>2
<1>16. ASSUME NEW w \in Workers, NextChunk(w)
       PROVE  MarkHasWorker'
  <2>1. PICK c \in SUBSET job[w].passed :
           job' = [job EXCEPT ![w] =
                     [job[w] EXCEPT !.phase = "mark", !.chunk = c, !.left = c, !.passed = @ \ c]]
    BY <1>16 DEF NextChunk
  <2>2. /\ job[w].left = {} /\ job[w].at = None /\ job[w].phase # "mark"
        /\ UNCHANGED <<row, orphaned>>
    BY <1>16 DEF NextChunk
  <2> QED
    BY <1>4, <1>7, <2>1, <2>2
<1>17. ASSUME NEW w \in Workers, CallLLM(w)
       PROVE  MarkHasWorker'
  <2> DEFINE j == [job[w] EXCEPT !.phase = "finish", !.left = job[w].chunk]
  <2>1. job' = [job EXCEPT ![w] = j] /\ UNCHANGED <<row, orphaned>>
    BY <1>17 DEF CallLLM
  <2>2. \A n \in Messages : WillUnmark(job[w], n) => WillUnmark(j, n)
    BY <1>1 DEF WillUnmark, Jobs
  <2> HIDE DEF j
  <2> QED
    BY <1>4, <2>1, <2>2
<1>18. ASSUME NEW w \in Workers, JobEnds(w)
       PROVE  MarkHasWorker'
  <2>1. /\ job' = [job EXCEPT ![w] = Idle] /\ UNCHANGED <<row, orphaned>>
        /\ job[w].left = {} /\ job[w].at = None /\ job[w].phase # "mark"
    BY <1>18 DEF JobEnds
  <2> QED
    BY <1>4, <1>7, <2>1
<1>19. ASSUME NEW w \in Workers, SaveWrites(w)
       PROVE  MarkHasWorker'
  <2> DEFINE stays == [job[w] EXCEPT !.at = None, !.seen = NoRow]
             j == IF job[w].phase = "filter" /\ StopSeen(w) THEN Idle ELSE stays
  <2>1. job' = [job EXCEPT ![w] = j] /\ orphaned' = orphaned
    BY <1>19 DEF SaveWrites
  <2>2. ASSUME NEW m \in Messages, WillUnmark(job[w], m),
               job[w].phase = "mark" \/ m \in job[w].left
        PROVE  WillUnmark(j, m)
    <3>1. j = stays
      BY <1>6, <2>2
    <3>2. WillUnmark(stays, m)
      BY <1>1, <2>2 DEF WillUnmark, Jobs
    <3> QED
      BY <3>1, <3>2
  <2>3. ASSUME NEW m \in Messages, job[w].at # m, row'[m].status = "processing",
               ~WillUnmark(j, m)
        PROVE  row[m].status = "processing" /\ ~WillUnmark(job[w], m)
    <3>1. row'[m] = row[m]
      BY <1>19, <2>3, RowWritten
    <3> HIDE DEF j
    <3> QED
      BY <2>2, <2>3, <3>1 DEF WillUnmark
  <2>4. ASSUME NEW m \in Messages, job[w].at = m, row'[m].status = "processing",
               ~WillUnmark(j, m)
        PROVE  row[m].status = "processing" /\ ~WillUnmark(job[w], m)
    <3>1. CASE job[w].phase = "mark"
      <4>1. WillUnmark(job[w], m)
        BY <1>1, <1>2, <2>4, <3>1 DEF WillUnmark, Shaped
      <4> HIDE DEF j
      <4> QED
        BY <2>2, <2>4, <3>1, <4>1
    <3>2. CASE job[w].phase # "mark"
      <4>1. /\ row[m].status = "processing"
            /\ job[w].phase = "finish" => job[w].seen.status \in {"completed", "failed"}
        BY <1>19, <2>4, <3>2, MarkSurvives
      <4>2. CASE job[w].phase = "finish"
        <5> HIDE DEF j
        <5> QED
          BY <2>2, <2>4, <3>2, <4>1, <4>2 DEF WillUnmark
      <4>3. CASE job[w].phase # "finish"
        BY <1>6, <3>2, <4>1, <4>3
      <4> QED
        BY <4>2, <4>3
    <3> QED
      BY <3>1, <3>2
  <2> HIDE DEF j
  <2> QED
    BY <2>1, <2>3, <2>4, WorkersStay
<1>20. ASSUME NEW w \in Workers, SaveRaises(w)
       PROVE  MarkHasWorker'
  <2> DEFINE j == IF w = "listener" /\ job[w].phase # "requeue"
                  THEN [Idle EXCEPT !.phase = "requeue", !.left = {job[w].at}] ELSE Idle
  <2>1. /\ job' = [job EXCEPT ![w] = j]
        /\ row' = row /\ orphaned' = orphaned \cup job[w].chunk
    BY <1>20 DEF SaveRaises
  <2>2. \A m \in Messages : WillUnmark(job[w], m) => m \in orphaned'
    BY <2>1 DEF WillUnmark
  <2> HIDE DEF j
  <2> QED
    BY <2>1, <2>2, WorkersStay
<1>21. ASSUME NEW w \in Workers, BatchFails(w)
       PROVE  MarkHasWorker'
  <2>1. /\ job' = [job EXCEPT ![w] = Idle] /\ UNCHANGED <<row, orphaned>>
        /\ job[w].phase = "starting"
    BY <1>21 DEF BatchFails
  <2> QED
    BY <1>4, <1>6, <2>1
<1>22. CASE UNCHANGED vars
  BY <1>3, <1>22 DEF vars
<1> QED
  BY <1>5, <1>8, <1>9, <1>10, <1>11, <1>12, <1>13, <1>14, <1>15, <1>16, <1>17, <1>18, <1>19,
     <1>20, <1>21, <1>22, NextCases

\* A row that says 'processing' is one some thread still has to save, unless a
\* crash, an IntegrityError or a locked database has taken the thread from it: no
\* interleaving of marks, results, requeues and stuck-row resets leaves a mark
\* behind.
THEOREM MarksAreKept == Spec => []ProcessingHasWorker
<1>1. Init => ChunkShape /\ MarkHasWorker
  BY IdleIsShaped DEF Init, ChunkShape, MarkHasWorker, NoRow
<1>2. MarkHasWorker => ProcessingHasWorker
  BY DEF MarkHasWorker, ProcessingHasWorker, WillUnmark
<1> QED
  BY <1>1, <1>2, ShapeStep, MarkStep, TypeAlways, PTL DEF Spec

-----------------------------------------------------------------------------
(* The verdict of the keyword filter, which a thread remembers in where it *)
(* has put a message, against the row, which saves of several threads have *)
(* written column by column.                                               *)

\* The LLM is asked about messages that the keyword filter lets through, and only
\* they are marked, assessed or failed; 'skipped' is said of the others alone, as
\* long as texts and keywords stay what they are (_process_batch_llm).
FilterIsRespected ==
  \A m \in Messages :
    /\ row[m].status \in {"processing", "completed", "failed"} \/ row[m].verdict # "none"
         => m \in passing
    /\ row[m].status = "skipped" => m \notin passing

\* Where a thread has put the messages it has listed.
Sorted(j) ==
  /\ j.passed \subseteq passing /\ j.chunk \subseteq passing
  /\ j.phase \in {"idle", "starting"} => j.at = None
  /\ j.phase = "filter" /\ j.at # None => j.at \notin passing

JobsSorted == \A w \in Workers : Sorted(job[w])

LEMMA IdleIsSorted == Sorted(Idle)
  BY DEF Sorted, Idle

LEMMA PassingIsConstant == [Next]_vars => passing' = passing
  BY NextCases
  DEF CrawlSaves, ListenerReceives, Reprocess, ServiceStart, ServiceStop, DaemonPoll, Crash,
      BatchFails, BatchBegin, FilterPasses, FilterRejects, SaveReads, NextChunk, CallLLM,
      JobEnds, SaveWrites, SaveRaises, vars, tables

LEMMA SortedMove ==
  ASSUME TypeInv, JobsSorted, passing' = passing,
         NEW w \in Workers, NEW j, job' = [job EXCEPT ![w] = j], Sorted(j)
  PROVE  JobsSorted'
<1>1. job'[w] = j /\ \A v \in Workers \ {w} : job'[v] = job[v]
  BY OneMoves
<1> QED
  BY <1>1 DEF JobsSorted, Sorted

LEMMA SortedStep == TypeInv /\ JobsSorted /\ [Next]_vars => JobsSorted'
<1> SUFFICES ASSUME TypeInv, JobsSorted, [Next]_vars PROVE JobsSorted'
  OBVIOUS
<1>1. \A w \in Workers : job[w] \in Jobs /\ Sorted(job[w])
  BY DEF TypeInv, JobsOK, JobsSorted
<1>2. ASSUME NEW w \in Workers, NEW j, job' = [job EXCEPT ![w] = j], Sorted(j)
      PROVE  JobsSorted'
  BY <1>2, SortedMove, PassingIsConstant
<1>3. ASSUME job' = job
      PROVE  JobsSorted'
  BY <1>3, PassingIsConstant DEF JobsSorted, Sorted
<1>4. CASE ServiceStop \/ UNCHANGED vars \/ \E m \in Messages : CrawlSaves(m)
  BY <1>3, <1>4 DEF CrawlSaves, ServiceStop, vars
<1>5. ASSUME NEW m \in Messages, ListenerReceives(m) \/ Reprocess(m)
      PROVE  JobsSorted'
  <2> DEFINE j == [Idle EXCEPT !.phase = "filter", !.todo = {m}]
  <2>1. PICK w \in Workers : job' = [job EXCEPT ![w] = j]
    BY <1>5 DEF ListenerReceives, Reprocess
  <2>2. Sorted(j)
    BY DEF Sorted, Idle
  <2> HIDE DEF j
  <2> QED
    BY <1>2, <2>1, <2>2
<1>6. CASE ServiceStart \/ DaemonPoll
  <2>1. PICK w \in Workers : job' = [job EXCEPT ![w].phase = "starting"] /\ job[w].phase = "idle"
    BY <1>6 DEF ServiceStart, DaemonPoll
  <2> DEFINE j == [job[w] EXCEPT !.phase = "starting"]
  <2>2. Sorted(j)
    BY <1>1, <2>1 DEF Sorted, Jobs
  <2>3. job' = [job EXCEPT ![w] = j]
    BY <2>1
  <2> HIDE DEF j
  <2> QED
    BY <1>2, <2>2, <2>3
<1>7. CASE Crash
  <2>1. \A w \in Workers : job'[w] = Idle
    BY <1>7 DEF Crash
  <2> QED
    BY <2>1, IdleIsSorted, PassingIsConstant DEF JobsSorted, Sorted
<1>8. ASSUME NEW w \in Workers, NEW overwrite \in BOOLEAN, NEW old \in SUBSET Processing,
             BatchBegin(w, overwrite, old)
      PROVE  JobsSorted'
  <2> DEFINE j == [job[w] EXCEPT !.phase = "filter", !.todo = Unprocessed(overwrite)]
  <2>1. job' = [job EXCEPT ![w] = j] /\ job[w].phase = "starting"
    BY <1>8 DEF BatchBegin
  <2>2. Sorted(j)
    BY <1>1, <2>1 DEF Sorted, Jobs
  <2> HIDE DEF j
  <2> QED
    BY <1>2, <2>1, <2>2
<1>9. ASSUME NEW w \in Workers, NEW m \in Messages, FilterPasses(w, m)
      PROVE  JobsSorted'
  <2> DEFINE j == [job[w] EXCEPT !.todo = @ \ {m}, !.passed = @ \cup {m}]
  <2>1. job' = [job EXCEPT ![w] = IF StopSeen(w) THEN Idle ELSE j] /\ m \in passing
    BY <1>9 DEF FilterPasses
  <2>2. Sorted(j)
    BY <1>1, <2>1 DEF Sorted, Jobs
  <2> HIDE DEF j
  <2> QED
    BY <1>2, <2>1, <2>2, IdleIsSorted
<1>10. ASSUME NEW w \in Workers, NEW m \in Messages, FilterRejects(w, m)
       PROVE  JobsSorted'
  <2> DEFINE j == [job[w] EXCEPT !.todo = @ \ {m}, !.at = m, !.seen = row[m]]
  <2>1. job' = [job EXCEPT ![w] = j] /\ job[w].phase = "filter" /\ m \notin passing
    BY <1>10 DEF FilterRejects
  <2>2. Sorted(j)
    BY <1>1, <2>1 DEF Sorted, Jobs
  <2> HIDE DEF j
  <2> QED
    BY <1>2, <2>1, <2>2
<1>11. ASSUME NEW w \in Workers, NEW m \in Messages, SaveReads(w, m)
       PROVE  JobsSorted'
  <2> DEFINE j == [job[w] EXCEPT !.left = @ \ {m}, !.at = m, !.seen = row[m]]
  <2>1. job' = [job EXCEPT ![w] = j] /\ job[w].phase \in {"mark", "finish", "requeue"}
    BY <1>11 DEF SaveReads
  <2>2. Sorted(j)
    BY <1>1, <2>1 DEF Sorted, Jobs
  <2> HIDE DEF j
  <2> QED
    BY <1>2, <2>1, <2>2
<1>12. ASSUME NEW w \in Workers, NextChunk(w)
       PROVE  JobsSorted'
  <2>1. PICK c \in SUBSET job[w].passed :
           job' = [job EXCEPT ![w] =
                     [job[w] EXCEPT !.phase = "mark", !.chunk = c, !.left = c, !.passed = @ \ c]]
    BY <1>12 DEF NextChunk
  <2> DEFINE j == [job[w] EXCEPT !.phase = "mark", !.chunk = c, !.left = c, !.passed = @ \ c]
  <2>2. job' = [job EXCEPT ![w] = j]
    BY <2>1
  <2>3. Sorted(j)
    BY <1>1 DEF Sorted, Jobs
  <2> HIDE DEF j
  <2> QED
    BY <1>2, <2>2, <2>3
<1>13. ASSUME NEW w \in Workers, CallLLM(w)
       PROVE  JobsSorted'
  <2> DEFINE j == [job[w] EXCEPT !.phase = "finish", !.left = job[w].chunk]
  <2>1. job' = [job EXCEPT ![w] = j]
    BY <1>13 DEF CallLLM
  <2>2. Sorted(j)
    BY <1>1 DEF Sorted, Jobs
  <2> HIDE DEF j
  <2> QED
    BY <1>2, <2>1, <2>2
<1>14. ASSUME NEW w \in Workers, JobEnds(w)
       PROVE  JobsSorted'
  BY <1>2, <1>14, IdleIsSorted DEF JobEnds
<1>15. ASSUME NEW w \in Workers, SaveWrites(w)
       PROVE  JobsSorted'
  <2> DEFINE j == [job[w] EXCEPT !.at = None, !.seen = NoRow]
  <2>1. job' = [job EXCEPT ![w] = IF job[w].phase = "filter" /\ StopSeen(w) THEN Idle ELSE j]
    BY <1>15 DEF SaveWrites
  <2>2. Sorted(j)
    BY <1>1 DEF Sorted, Jobs
  <2> HIDE DEF j
  <2> QED
    BY <1>2, <2>1, <2>2, IdleIsSorted
<1>16. ASSUME NEW w \in Workers, SaveRaises(w)
       PROVE  JobsSorted'
  <2> DEFINE j == [Idle EXCEPT !.phase = "requeue", !.left = {job[w].at}]
  <2>1. job' = [job EXCEPT ![w] = j] \/ job' = [job EXCEPT ![w] = Idle]
    BY <1>16 DEF SaveRaises
  <2>2. Sorted(j)
    BY DEF Sorted, Idle
  <2> HIDE DEF j
  <2> QED
    BY <1>2, <2>1, <2>2, IdleIsSorted
<1>17. ASSUME NEW w \in Workers, BatchFails(w)
       PROVE  JobsSorted'
  BY <1>2, <1>17, IdleIsSorted DEF BatchFails
<1> QED
  BY <1>4, <1>5, <1>6, <1>7, <1>8, <1>9, <1>10, <1>11, <1>12, <1>13, <1>14, <1>15, <1>16,
     <1>17, NextCases

\* What the row r may say of the message m.
Fits(r, m) ==
  IF m \in passing THEN r.status # "skipped"
  ELSE r.status \notin {"processing", "completed", "failed"} /\ r.verdict = "none"

\* What a save that suits the message m may write.
Suits(new, m) ==
  IF m \in passing THEN new.status # "skipped"
  ELSE new.status \in {"pending", "skipped"} /\ new.verdict = Keep

\* A save that suits the message leaves a row that fits it, whatever it has read
\* and whatever columns other threads have written since.
LEMMA InsertFits ==
  ASSUME NEW new \in Columns, NEW m, Suits(new, m)
  PROVE  Fits(Inserted(new), m)
<1>1. new.status \in Status /\ Inserted(new).status = new.status
  BY DEF Columns, Inserted, Default, Keep, Status
<1>2. new.verdict = Keep => Inserted(new).verdict = "none"
  BY DEF Inserted, Default, Keep
<1> QED
  BY <1>1, <1>2 DEF Fits, Suits

LEMMA UpdateFits ==
  ASSUME NEW new \in Columns, NEW m, Suits(new, m),
         NEW now \in Rows, NEW seen \in Rows, Fits(now, m)
  PROVE  Fits(Updated(now, seen, new), m)
<1>1. Updated(now, seen, new).status \in {now.status, new.status}
  BY DEF Updated, Default
<1>2. new.verdict = Keep => Updated(now, seen, new).verdict = now.verdict
  BY DEF Updated, Default, Keep
<1> QED
  BY <1>1, <1>2 DEF Fits, Suits

\* The save of a thread suits the message it is about: rejected ones are saved in
\* the filter phase only, marks and results are of messages that have passed.
LEMMA SaveSuits ==
  ASSUME TypeInv, ChunkShape, JobsSorted, NEW w \in Workers, NEW new \in Saves(w),
         job[w].at # None
  PROVE  Suits(new, job[w].at)
<1> USE DEF Suits
<1>1. Sorted(job[w]) /\ Shaped(job[w])
  BY DEF JobsSorted, ChunkShape
<1>2. CASE job[w].phase = "filter" /\ new = Rejected
  BY <1>1, <1>2 DEF Sorted, Rejected
<1>3. CASE job[w].phase \in {"mark", "finish"} /\ new.status # "skipped"
  BY <1>1, <1>3 DEF Sorted, Shaped
<1>4. CASE new = Requeued
  BY <1>4 DEF Requeued
<1>5. /\ Marked(w).status # "skipped" /\ Failed.status # "skipped"
      /\ Completed("weak").status # "skipped" /\ Completed("strong").status # "skipped"
  BY DEF Marked, Failed, Completed
<1> QED
  BY <1>2, <1>3, <1>4, <1>5, SavesByPhase

AllFit == \A m \in Messages : Fits(row[m], m)

LEMMA FitStep ==
  ASSUME TypeInv, ChunkShape, JobsSorted, AllFit, [Next]_vars
  PROVE  AllFit'
<1>1. passing' = passing
  BY PassingIsConstant
<1>2. CASE UNCHANGED row
  BY <1>1, <1>2 DEF AllFit, Fits
<1>3. ASSUME NEW w \in Workers, NEW overwrite \in BOOLEAN, NEW old \in SUBSET Processing,
             BatchBegin(w, overwrite, old)
      PROVE  AllFit'
  <2>1. \A m \in Messages : row'[m] = row[m] \/ row'[m] = [row[m] EXCEPT !.status = "pending"]
    BY <1>3 DEF BatchBegin
  <2>2. \A m \in Messages : row[m] \in Rows \cup {NoRow}
    BY DEF TypeInv, RestOK
  <2>3. \A m \in Messages : LET p == [row[m] EXCEPT !.status = "pending"] IN
          p.status = "pending" /\ p.verdict = row[m].verdict
    BY <2>2 DEF Rows, NoRow
  <2> QED
    BY <1>1, <2>1, <2>3 DEF AllFit, Fits
<1>4. ASSUME NEW w \in Workers, SaveWrites(w)
      PROVE  AllFit'
  <2> DEFINE m == job[w].at
  <2>1. /\ m \in Messages /\ m # None
        /\ \A n \in Messages \ {m} : row'[n] = row[n]
    BY <1>4, RowWritten DEF SaveWrites
  <2>2. /\ row \in [Messages -> Rows \cup {NoRow}]
        /\ job[w].seen \in Rows \cup {NoRow}
        /\ job[w].seen # NoRow => row[m] \in Rows
    BY <2>1 DEF TypeInv, RestOK, JobsOK, GoodJob, Jobs
  <2>3. PICK new \in Saves(w) :
          row'[m] = IF job[w].seen = NoRow THEN Inserted(new)
                    ELSE Updated(row[m], job[w].seen, new)
    BY <1>4, <2>1, <2>2 DEF SaveWrites
  <2>4. new \in Columns
    BY SavesAreColumns
  <2>5. Suits(new, m) /\ Fits(row[m], m)
    BY <2>1, SaveSuits DEF AllFit
  <2> HIDE DEF m
  <2>6. CASE job[w].seen = NoRow
    <3>1. Fits(row'[m], m)
      BY <2>3, <2>4, <2>5, <2>6, InsertFits
    <3> QED
      BY <1>1, <2>1, <3>1 DEF AllFit, Fits
  <2>7. CASE job[w].seen # NoRow
    <3>1. job[w].seen \in Rows /\ row[m] \in Rows
      BY <2>2, <2>7 DEF m
    <3>2. Fits(row'[m], m)
      BY <2>3, <2>4, <2>5, <2>7, <3>1, UpdateFits
    <3> QED
      BY <1>1, <2>1, <3>2 DEF AllFit, Fits
  <2> QED
    BY <2>6, <2>7
<1>5. \/ UNCHANGED row \/ \E w \in Workers : SaveWrites(w)
      \/ \E w \in Workers, overwrite \in BOOLEAN, old \in SUBSET Processing :
           BatchBegin(w, overwrite, old)
  BY NextCases
  DEF CrawlSaves, ListenerReceives, Reprocess, ServiceStart, ServiceStop, DaemonPoll, Crash,
      BatchFails, FilterPasses, FilterRejects, SaveReads, NextChunk, CallLLM, JobEnds,
      SaveRaises, vars, tables
<1> QED
  BY <1>2, <1>3, <1>4, <1>5

\* However four threads' saves of a row overlap, whatever columns an UPDATE leaves
\* out and whichever stuck rows are reset: what the filter rejects is never marked
\* or given a verdict, what it lets through is never skipped.
THEOREM FilterRespected == Spec => []FilterIsRespected
<1>1. Init => ChunkShape /\ JobsSorted /\ AllFit
  BY IdleIsShaped, IdleIsSorted DEF Init, ChunkShape, JobsSorted, AllFit, Fits, NoRow
<1>2. TypeInv /\ ChunkShape /\ JobsSorted /\ AllFit /\ [Next]_vars
        => (ChunkShape /\ JobsSorted /\ AllFit)'
  BY ShapeStep, SortedStep, FitStep
<1>3. AllFit => FilterIsRespected
  BY DEF AllFit, Fits, FilterIsRespected
<1> QED
  BY <1>1, <1>2, <1>3, TypeAlways, PTL DEF Spec
=============================================================================
