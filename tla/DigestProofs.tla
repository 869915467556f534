---------------------------- MODULE DigestProofs ----------------------------
(***************************************************************************)
(* Theorems about Digest for any dates, horizon, windows and bounds: type  *)
(* correctness with the mutual exclusion of the generations, the order of  *)
(* the digests, and that every step is one that DigestContract allows.     *)
(***************************************************************************)
EXTENDS Digest, SequenceTheorems, TLAPS

\* What makes the order inductive: nothing ends in the future, and a window whose
\* end is fixed does not end before any digest there is. The latter is kept by the
\* lock: while one actor is at its window no other saves.
Settled(j) == j.at \in {"fetch", "llm", "save"}
Window(j)  ==
  /\ j.asked \in Lookbacks \cup {None}
  /\ j.at # "none" => j.began \in Times
  /\ Settled(j) => /\ j.to \in Times /\ j.to <= now
                   /\ \A i \in DOMAIN digests : digests[i].to <= j.to

Timely ==
  /\ Start <= now
  /\ \A i \in DOMAIN digests : digests[i].to <= now
  /\ \A a \in Actors : Window(job[a])

Inv == TypeOK /\ Timely /\ LatestIsLatest

Counts == [requests : 0..MaxRequests, failures : 0..MaxFailures, restarts : 0..MaxRestarts]

-----------------------------------------------------------------------------
LEMMA Bounds ==
  /\ Start \in Nat /\ Horizon \in Nat /\ Start <= Horizon
  /\ ColdStart \in Nat /\ ColdStart <= Start /\ MaxWindow \in Nat /\ MaxWindow <= Start
  /\ Lookbacks \subseteq 1..Start
  /\ MaxRequests \in Nat /\ MaxFailures \in Nat /\ MaxRestarts \in Nat
  /\ None \in Nat /\ None \notin Times /\ Times \subseteq Nat
  BY DigestAssumption DEF None, Times

LEMMA Resting == NoJob \in Jobs /\ NoJob.at = "none" /\ NoJob.asked = None /\ ~Settled(NoJob)
  BY Bounds DEF NoJob, Jobs, Settled

\* The bounds on what happens are kept.
LEMMA CountsUp ==
  ASSUME NEW c \in Counts
  PROVE  /\ c.requests < MaxRequests => [c EXCEPT !.requests = @ + 1] \in Counts
         /\ c.failures < MaxFailures => [c EXCEPT !.failures = @ + 1] \in Counts
         /\ c.restarts < MaxRestarts => [c EXCEPT !.restarts = @ + 1] \in Counts
  BY Bounds DEF Counts

LEMMA CountsKept == Inv => counts \in Counts
  BY DEF Inv, TypeOK, Counts

\* An actor that rests has a window in any state.
LEMMA RestingWindow == Window(NoJob)
  BY Resting DEF Window

LEMMA EndsAreTimes ==
  ASSUME Inv
  PROVE  \A i \in DOMAIN digests : digests[i].to \in Nat
<1>1. digests \in Seq([to : Times, exact : BOOLEAN])
  BY DEF Inv, TypeOK
<1>2. \A i \in DOMAIN digests : digests[i] \in [to : Times, exact : BOOLEAN]
  BY <1>1, LenProperties, ElementOfSeq
<1> QED
  BY <1>2, Bounds

\* As the digests are in the order of their ends, the last one's is the maximum
\* that LatestEnd takes, and lies in the past.
LEMMA LatestEndIsPast ==
  ASSUME Inv, digests # <<>>
  PROVE  LatestEnd \in Nat /\ LatestEnd <= now
<1> DEFINE n == Len(digests)
<1>1. /\ digests \in Seq([to : Times, exact : BOOLEAN]) /\ now \in Nat
      /\ \A i \in DOMAIN digests : digests[i].to <= now
      /\ \A i, j \in DOMAIN digests : i < j => digests[i].to <= digests[j].to
  BY Bounds DEF Inv, TypeOK, Timely, LatestIsLatest
<1>2. n \in Nat /\ DOMAIN digests = 1..n /\ n # 0
  BY <1>1, LenProperties, EmptySeq
<1>4. \A i \in DOMAIN digests : digests[i].to \in Nat
  BY EndsAreTimes
<1>5. n \in DOMAIN digests
  BY <1>2
<1>6. \A i \in DOMAIN digests : digests[n].to >= digests[i].to
  <2> SUFFICES ASSUME NEW i \in DOMAIN digests PROVE digests[n].to >= digests[i].to
    OBVIOUS
  <2>1. CASE i = n
    BY <2>1, <1>4, <1>5
  <2>2. CASE i # n
    <3>1. i < n
      BY <2>2, <1>2
    <3> QED
      BY <3>1, <1>1, <1>4, <1>5
  <2> QED
    BY <2>1, <2>2
<1>7. digests[n].to \in Ends /\ \A e \in Ends : digests[n].to >= e
  BY <1>5, <1>6 DEF Ends
<1>8. LatestEnd \in Ends
  BY <1>7 DEF LatestEnd, Max
<1>9. PICK i \in DOMAIN digests : LatestEnd = digests[i].to
  BY <1>8 DEF Ends
<1> QED
  BY <1>1, <1>4, <1>9

\* A window never starts before the beginning of time.
LEMMA WindowStartIsTime ==
  ASSUME Inv, NEW asked \in Lookbacks \cup {None}
  PROVE  WindowStart(asked) \in Nat
<1>1. now \in Nat /\ Start <= now
  BY Bounds DEF Inv, TypeOK, Timely
<1>2. CASE asked # None
  BY <1>1, <1>2, Bounds DEF WindowStart
<1>3. CASE asked = None /\ digests = <<>>
  BY <1>1, <1>3, Bounds DEF WindowStart
<1>4. CASE asked = None /\ digests # <<>>
  <2>1. LatestEnd \in Nat /\ LatestEnd <= now
    BY <1>4, LatestEndIsPast
  <2>2. now - MaxWindow \in Nat
    BY <1>1, Bounds
  <2> QED
    BY <1>4, <2>1, <2>2 DEF WindowStart
<1> QED
  BY <1>2, <1>3, <1>4

-----------------------------------------------------------------------------
(* The three ways a step changes what actors are at                        *)

\* One actor moves on in its generation, which stays the lock's.
LEMMA MovesOn ==
  ASSUME Inv, NEW a \in Actors, NEW j \in Jobs, Window(j), j.at # "none", job[a].at # "none",
         job' = [job EXCEPT ![a] = j],
         UNCHANGED <<now, ready, digests, lock, daemon, last, counts>>
  PROVE  Inv'
<1>1. \A b \in Actors : job'[b] = IF b = a THEN j ELSE job[b]
  BY DEF Inv, TypeOK
<1>2. TypeOK'
  <2>1. job' \in [Actors -> Jobs]
    BY DEF Inv, TypeOK
  <2>2. \A b \in Actors : job'[b].at # "none" => lock' = b
    BY <1>1 DEF Inv, TypeOK
  <2>3. daemon' = "generating" <=> job'["daemon"].at # "none"
    BY <1>1 DEF Inv, TypeOK, Actors
  <2> QED
    BY <2>1, <2>2, <2>3 DEF Inv, TypeOK
<1>3. \A b \in Actors : Window(job'[b])
  BY <1>1 DEF Inv, Timely
<1>4. Timely'
  BY <1>3 DEF Inv, Timely, Window
<1>5. LatestIsLatest'
  BY DEF Inv, LatestIsLatest
<1> QED
  BY <1>2, <1>4, <1>5 DEF Inv

\* One actor starts, with the lock that was free.
LEMMA Starts ==
  ASSUME Inv, NEW a \in Actors, NEW asked \in Lookbacks \cup {None}, Acquire(a, asked),
         UNCHANGED <<now, ready, digests, last>>,
         daemon' = IF a = "daemon" THEN "generating" ELSE daemon,
         counts' \in Counts
  PROVE  Inv'
<1> DEFINE j == [NoJob EXCEPT !.at = "window", !.asked = asked, !.began = now]
<1>0. now \in Times /\ asked \in Nat
  BY Bounds DEF Inv, TypeOK
<1>1. j \in Jobs /\ j.at = "window" /\ j.asked = asked /\ j.began = now
  BY <1>0, Bounds DEF NoJob, Jobs
<1>2. Window(j)
  BY <1>0, <1>1 DEF Window, Settled
<1>3. job' = [job EXCEPT ![a] = j] /\ lock = "free" /\ lock' = a
  BY DEF Acquire
<1> HIDE DEF j
<1>4. \A b \in Actors : job'[b] = IF b = a THEN j ELSE job[b]
  BY <1>3 DEF Inv, TypeOK
<1>5. \A b \in Actors : job[b].at = "none"
  BY <1>3 DEF Inv, TypeOK, Actors
<1>6. TypeOK'
  <2>1. job' \in [Actors -> Jobs]
    BY <1>1, <1>3 DEF Inv, TypeOK
  <2>2. \A b \in Actors : job'[b].at # "none" => lock' = b
    BY <1>3, <1>4, <1>5
  <2>3. daemon' = "generating" <=> job'["daemon"].at # "none"
    BY <1>1, <1>4, <1>5 DEF Inv, TypeOK, Actors
  <2>4. daemon' \in {"wait", "batch", "digest", "generating"}
    BY DEF Inv, TypeOK
  <2> QED
    BY <1>3, <2>1, <2>2, <2>3, <2>4 DEF Inv, TypeOK, Counts
<1>7. \A b \in Actors : Window(job'[b])
  BY <1>2, <1>4 DEF Inv, Timely
<1>8. Timely'
  BY <1>7 DEF Inv, Timely, Window
<1>9. LatestIsLatest'
  BY DEF Inv, LatestIsLatest
<1> QED
  BY <1>6, <1>8, <1>9 DEF Inv

\* One actor is done with its generation, as saved or not: nobody is left at one.
LEMMA Finishes ==
  ASSUME Inv, NEW a \in Actors, job[a].at # "none", Finished(a), UNCHANGED <<now, ready>>,
         digests' \in Seq([to : Times, exact : BOOLEAN]),
         \A i \in DOMAIN digests' : digests'[i].to <= now,
         LatestIsLatest',
         last' \in Times \cup {None},
         counts' \in Counts
  PROVE  Inv'
<1>1. /\ job' = [job EXCEPT ![a] = NoJob] /\ lock' = "free"
      /\ daemon' = IF a = "daemon" THEN "wait" ELSE daemon
  BY DEF Finished
<1>2. \A b \in Actors : job'[b] = IF b = a THEN NoJob ELSE job[b]
  BY <1>1 DEF Inv, TypeOK
<1>3. \A b \in Actors : b # a => job[b].at = "none"
  BY DEF Inv, TypeOK
<1>4. \A b \in Actors : job'[b].at = "none"
  BY <1>2, <1>3, Resting
<1>5. TypeOK'
  <2>1. job' \in [Actors -> Jobs]
    BY <1>1, Resting DEF Inv, TypeOK
  <2>2. daemon' # "generating"
    <3>1. CASE a = "daemon"
      BY <1>1, <3>1
    <3>2. CASE a # "daemon"
      BY <1>1, <1>3, <3>2 DEF Inv, TypeOK, Actors
    <3> QED
      BY <3>1, <3>2
  <2>3. daemon' \in {"wait", "batch", "digest", "generating"}
    BY <1>1 DEF Inv, TypeOK
  <2>4. job'["daemon"].at = "none"
    BY <1>4 DEF Actors
  <2> QED
    BY <1>1, <1>4, <2>1, <2>2, <2>3, <2>4 DEF Inv, TypeOK, Counts
<1>6. \A b \in Actors : /\ job'[b].asked \in Lookbacks \cup {None}
                        /\ ~Settled(job'[b])
  BY <1>2, <1>4, Resting DEF Inv, Timely, Window, Settled
<1>7. Timely'
  BY <1>4, <1>6 DEF Inv, Timely, Window
<1> QED
  BY <1>5, <1>7 DEF Inv

\* No generation is touched, nor the lock; time may pass.
LEMMA Aside ==
  ASSUME Inv, UNCHANGED <<digests, job, lock>>,
         now' \in Times, now <= now', ready' \subseteq Dates,
         daemon' \in {"wait", "batch", "digest", "generating"},
         daemon' = "generating" <=> daemon = "generating",
         last' \in Times \cup {None},
         counts' \in Counts
  PROVE  Inv'
<1>0. now \in Nat /\ now' \in Nat
  BY Bounds DEF Inv, TypeOK
<1>1. TypeOK'
  BY DEF Inv, TypeOK, Counts
<1>2. Start <= now'
  BY <1>0, Bounds DEF Inv, Timely
<1>3. \A i \in DOMAIN digests : digests[i].to \in Nat
  BY EndsAreTimes
<1>4. \A i \in DOMAIN digests : digests[i].to <= now'
  BY <1>0, <1>3 DEF Inv, Timely
<1>5. \A a \in Actors : Window(job[a])'
  <2> SUFFICES ASSUME NEW a \in Actors PROVE Window(job[a])'
    OBVIOUS
  <2>1. Window(job[a])
    BY DEF Inv, Timely
  <2>2. Settled(job[a]) => job[a].to \in Nat /\ job[a].to <= now
    BY <2>1, Bounds DEF Window
  <2>3. Settled(job[a]) => job[a].to <= now'
    BY <2>2, <1>0
  <2> QED
    BY <2>1, <2>3 DEF Window, Settled
<1>6. LatestIsLatest'
  BY DEF Inv, LatestIsLatest
<1> QED
  BY <1>1, <1>2, <1>4, <1>5, <1>6 DEF Inv, Timely

-----------------------------------------------------------------------------
LEMMA Initially == Init => Inv
<1> SUFFICES ASSUME Init PROVE Inv
  OBVIOUS
<1>1. \A a \in Actors : job[a] = NoJob
  BY DEF Init
<1>2. TypeOK
  BY <1>1, Resting, Bounds, EmptySeq DEF Init, TypeOK, Times, Actors
<1>3. Timely
  BY <1>1, RestingWindow, Bounds DEF Init, Timely
<1>4. LatestIsLatest
  BY DEF Init, LatestIsLatest
<1> QED
  BY <1>2, <1>3, <1>4 DEF Inv

\* The end is fixed at the present, after all digests there are.
LEMMA ComputeWindowKeeps ==
  ASSUME Inv, NEW a \in Actors, ComputeWindow(a)
  PROVE  Inv'
<1> DEFINE j == [job[a] EXCEPT !.at = "fetch", !.to = now,
                               !.from = WindowStart(job[a].asked)]
<1>1. job[a] \in Jobs /\ job[a].at = "window" /\ Window(job[a]) /\ now \in Times
  BY DEF Inv, TypeOK, Timely, ComputeWindow
<1>2. WindowStart(job[a].asked) \in Nat
  BY <1>1, WindowStartIsTime DEF Window
<1>3. j \in Jobs /\ j.at = "fetch" /\ j.to = now /\ j.asked = job[a].asked /\ j.began = job[a].began
  BY <1>1, <1>2, Bounds DEF Jobs
<1>4. job' = [job EXCEPT ![a] = j]
  BY DEF ComputeWindow
<1> HIDE DEF j
<1>5. now <= now
  BY <1>1, Bounds
<1>6. Window(j)
  BY <1>1, <1>3, <1>5 DEF Inv, Timely, Window
<1> QED
  BY <1>1, <1>3, <1>4, <1>6, MovesOn DEF ComputeWindow

\* The window stays as it is or, with too few signals, ends at the present.
LEMMA FetchSignalsKeeps ==
  ASSUME Inv, NEW a \in Actors, FetchSignals(a)
  PROVE  Inv'
<1>1. /\ job[a] \in Jobs /\ job[a].at = "fetch" /\ Window(job[a])
      /\ now \in Times /\ now <= now
      /\ \A i \in DOMAIN digests : digests[i].to <= now
  BY Bounds DEF Inv, TypeOK, Timely, FetchSignals
<1>2. PICK to \in {now, job[a].to}, exact \in BOOLEAN, at \in {"llm", "save"} :
        /\ job' = [job EXCEPT ![a] = [job[a] EXCEPT !.from = None, !.to = to,
                                                    !.exact = exact, !.at = at]]
        /\ UNCHANGED <<now, ready, digests, lock, daemon, last, counts>>
  BY DEF FetchSignals
<1> DEFINE j == [job[a] EXCEPT !.from = None, !.to = to, !.exact = exact, !.at = at]
<1>3. to \in Times /\ to <= now /\ \A i \in DOMAIN digests : digests[i].to <= to
  BY <1>1 DEF Window, Settled
<1>4. j \in Jobs /\ j.at = at /\ j.to = to /\ j.asked = job[a].asked /\ j.began = job[a].began
  BY <1>1, <1>3, Bounds DEF Jobs
<1>5. job' = [job EXCEPT ![a] = j]
  BY <1>2
<1> HIDE DEF j
<1>6. Window(j)
  BY <1>1, <1>3, <1>4 DEF Window
<1> QED
  BY <1>1, <1>2, <1>4, <1>5, <1>6, MovesOn

LEMMA LlmAnswersKeeps ==
  ASSUME Inv, NEW a \in Actors, LlmAnswers(a)
  PROVE  Inv'
<1> DEFINE j == [job[a] EXCEPT !.at = "save"]
<1>1. job[a] \in Jobs /\ job[a].at = "llm" /\ Window(job[a])
  BY DEF Inv, TypeOK, Timely, LlmAnswers
<1>2. j \in Jobs /\ j.at = "save" /\ j.to = job[a].to /\ j.asked = job[a].asked
      /\ j.began = job[a].began
  BY <1>1 DEF Jobs
<1>3. job' = [job EXCEPT ![a] = j]
  BY DEF LlmAnswers
<1> HIDE DEF j
<1>4. Window(j)
  BY <1>1, <1>2 DEF Window, Settled
<1> QED
  BY <1>1, <1>2, <1>3, <1>4, MovesOn DEF LlmAnswers

\* The digest that is saved ends last, and not in the future.
LEMMA SaveKeeps ==
  ASSUME Inv, NEW a \in Actors, Save(a)
  PROVE  Inv'
<1> DEFINE d == [to |-> job[a].to, exact |-> job[a].exact]
           n == Len(digests)
<1>1. /\ job[a] \in Jobs /\ job[a].at = "save" /\ job[a].began \in Times
      /\ job[a].to \in Times /\ job[a].to <= now
      /\ \A i \in DOMAIN digests : digests[i].to <= job[a].to
  BY DEF Inv, TypeOK, Timely, Save, Window, Settled
<1>2. d \in [to : Times, exact : BOOLEAN] /\ d.to = job[a].to
  BY <1>1 DEF Jobs
<1>3. digests' = Append(digests, d) /\ Finished(a) /\ UNCHANGED <<now, ready, counts>>
  BY DEF Save
<1>4. last' \in Times \cup {None}
  BY <1>1 DEF Save, Inv, TypeOK
<1>5. digests \in Seq([to : Times, exact : BOOLEAN]) /\ n \in Nat /\ DOMAIN digests = 1..n
  BY LenProperties DEF Inv, TypeOK
<1> HIDE DEF d
<1>6. /\ digests' \in Seq([to : Times, exact : BOOLEAN])
      /\ DOMAIN digests' = 1..(n + 1)
      /\ \A i \in 1..n : digests'[i] = digests[i]
      /\ digests'[n + 1] = d
  BY <1>2, <1>3, <1>5, AppendProperties
<1>7. \A i \in DOMAIN digests' : digests'[i].to <= now
  BY <1>1, <1>2, <1>5, <1>6 DEF Inv, Timely
<1>8. LatestIsLatest'
  <2> SUFFICES ASSUME NEW i \in 1..(n + 1), NEW k \in 1..(n + 1), i < k
               PROVE  digests'[i].to <= digests'[k].to
    BY <1>6 DEF LatestIsLatest
  <2>1. i \in 1..n
    BY <1>5
  <2>2. CASE k \in 1..n
    BY <1>5, <1>6, <2>1, <2>2 DEF Inv, LatestIsLatest
  <2>3. CASE k = n + 1
    BY <1>1, <1>2, <1>5, <1>6, <2>1, <2>3
  <2> QED
    BY <1>5, <2>2, <2>3
<1>9. counts' \in Counts
  BY <1>3, CountsKept
<1> QED
  BY <1>1, <1>3, <1>4, <1>6, <1>7, <1>8, <1>9, Finishes

LEMMA GenerationFailsKeeps ==
  ASSUME Inv, NEW a \in Actors, GenerationFails(a)
  PROVE  Inv'
<1>1. job[a].at # "none" /\ Finished(a) /\ UNCHANGED <<now, ready, digests, last>>
  BY DEF GenerationFails
<1>2. counts' \in Counts
  BY CountsKept, CountsUp DEF GenerationFails
<1>3. /\ digests' \in Seq([to : Times, exact : BOOLEAN])
      /\ \A i \in DOMAIN digests' : digests'[i].to <= now
      /\ last' \in Times \cup {None}
  BY <1>1 DEF Inv, TypeOK, Timely
<1>4. LatestIsLatest'
  BY <1>1 DEF Inv, LatestIsLatest
<1> QED
  BY <1>1, <1>2, <1>3, <1>4, Finishes

LEMMA UserGeneratesKeeps ==
  ASSUME Inv, UserGenerates
  PROVE  Inv'
<1>1. PICK asked \in Lookbacks \cup {None} : Acquire("user", asked)
  BY DEF UserGenerates
<1>2. counts' \in Counts
  BY CountsKept, CountsUp DEF UserGenerates
<1>3. "user" \in Actors /\ "user" # "daemon"
  BY DEF Actors
<1> QED
  BY <1>1, <1>2, <1>3, Starts DEF UserGenerates

LEMMA DaemonGeneratesKeeps ==
  ASSUME Inv, DaemonGenerates
  PROVE  Inv'
<1>1. "daemon" \in Actors /\ None \in Lookbacks \cup {None}
  BY DEF Actors
<1>2. counts' \in Counts
  BY CountsKept DEF DaemonGenerates
<1> QED
  BY <1>1, <1>2, Starts DEF DaemonGenerates

\* The daemon's other steps, the completion of a row, and the clock.
LEMMA AsideKeeps ==
  ASSUME Inv, \/ Wake \/ BatchEnds \/ BatchFails \/ DaemonSkips \/ Tick
              \/ \E t \in Dates : Complete(t)
  PROVE  Inv'
<1>1. UNCHANGED <<digests, job, lock>> /\ ready' \subseteq Dates /\ last' \in Times \cup {None}
  BY DEF Wake, BatchEnds, BatchFails, DaemonSkips, Tick, Complete, Inv, TypeOK
<1>2. now' \in Times /\ now <= now'
  <2>1. now \in Nat /\ now \in Times
    BY Bounds DEF Inv, TypeOK
  <2>2. CASE Tick
    BY <2>1, <2>2, Bounds DEF Tick, Times
  <2>3. CASE ~Tick
    <3>1. now' = now
      BY <2>3 DEF Wake, BatchEnds, BatchFails, DaemonSkips, Complete
    <3> QED
      BY <2>1, <3>1
  <2> QED
    BY <2>2, <2>3
<1>3. /\ daemon' \in {"wait", "batch", "digest", "generating"}
      /\ daemon' = "generating" <=> daemon = "generating"
  BY DEF Wake, BatchEnds, BatchFails, DaemonSkips, Tick, Complete, Inv, TypeOK
<1>4. counts' \in Counts
  BY CountsKept, CountsUp DEF Wake, BatchEnds, BatchFails, DaemonSkips, Tick, Complete
<1> QED
  BY <1>1, <1>2, <1>3, <1>4, Aside

\* The process forgets its generations and the lock, and keeps the digests' rows.
LEMMA RestartKeeps ==
  ASSUME Inv, Restart
  PROVE  Inv'
<1>1. \A a \in Actors : job'[a] = NoJob
  BY DEF Restart
<1>2. TypeOK'
  <2>1. job' \in [Actors -> Jobs]
    BY Resting DEF Restart
  <2>2. counts' \in Counts
    BY CountsKept, CountsUp DEF Restart
  <2>3. "daemon" \in Actors
    BY DEF Actors
  <2> QED
    BY <1>1, <2>1, <2>2, <2>3, Resting DEF Restart, Inv, TypeOK, Counts
<1>3. Timely'
  BY <1>1, Resting DEF Restart, Inv, Timely, Window
<1>4. LatestIsLatest'
  BY DEF Restart, Inv, LatestIsLatest
<1> QED
  BY <1>2, <1>3, <1>4 DEF Inv

LEMMA StutteringKeeps == Inv /\ UNCHANGED vars => Inv'
  BY DEF Inv, TypeOK, Timely, LatestIsLatest, Window, Settled, vars

LEMMA Inductive == Inv /\ [Next]_vars => Inv'
<1> SUFFICES ASSUME Inv, [Next]_vars PROVE Inv'
  OBVIOUS
<1>1. CASE \E a \in Actors : \/ ComputeWindow(a) \/ FetchSignals(a) \/ LlmAnswers(a)
                             \/ Save(a) \/ GenerationFails(a)
  BY <1>1, ComputeWindowKeeps, FetchSignalsKeeps, LlmAnswersKeeps, SaveKeeps,
     GenerationFailsKeeps
<1>2. CASE UserGenerates
  BY <1>2, UserGeneratesKeeps
<1>3. CASE DaemonGenerates
  BY <1>3, DaemonGeneratesKeeps
<1>4. CASE \/ Wake \/ BatchEnds \/ BatchFails \/ DaemonSkips \/ Tick
           \/ \E t \in Dates : Complete(t)
  BY <1>4, AsideKeeps
<1>5. CASE Restart
  BY <1>5, RestartKeeps
<1>6. CASE UNCHANGED vars
  BY <1>6, StutteringKeeps
<1> QED
  BY <1>1, <1>2, <1>3, <1>4, <1>5, <1>6 DEF Next

LEMMA Invariance == Spec => []Inv
  BY Initially, Inductive, PTL DEF Spec

\* The values the variables take; at most one actor generates, and it holds the lock.
THEOREM TypeCorrect == Spec => []TypeOK
<1>1. Inv => TypeOK
  BY DEF Inv
<1> QED
  BY <1>1, Invariance, PTL

\* However long a generation takes and whoever else asks for one, digests are saved in
\* the order in which they end, so that the page and the next window agree on the latest.
THEOREM InOrder == Spec => []LatestIsLatest
<1>1. Inv => LatestIsLatest
  BY DEF Inv
<1> QED
  BY <1>1, Invariance, PTL

-----------------------------------------------------------------------------
(* The digests as one generation after another: the end of a digest lies   *)
(* between the moment its generation took the lock and the present.        *)

Contract == INSTANCE DigestContract WITH
  Generators <- Actors, Beginning <- Start, NotAtIt <- None,
  clock <- now,
  ends  <- [i \in DOMAIN digests |-> digests[i].to],
  since <- [a \in Actors |-> IF job[a].at = "none" THEN None ELSE job[a].began]

Since(a) == IF job[a].at = "none" THEN None ELSE job[a].began
EndsOf(s) == [i \in DOMAIN s |-> s[i].to]

\* A generation began in the past, and its window ends after that.
Dated(j) ==
  /\ j.at # "none" => j.began <= now
  /\ Settled(j) => j.began <= j.to

AllDated == \A a \in Actors : Dated(job[a])

\* One actor's job is another, dated one; the others' jobs and the time are as they were.
LEMMA OneDated ==
  ASSUME Inv, AllDated, NEW a \in Actors, NEW j, job' = [job EXCEPT ![a] = j], Dated(j),
         UNCHANGED now
  PROVE  AllDated'
<1>1. \A b \in Actors : job'[b] = IF b = a THEN j ELSE job[b]
  BY DEF Inv, TypeOK
<1> QED
  BY <1>1 DEF AllDated, Dated

LEMMA RestingIsDated == Dated(NoJob)
  BY Resting DEF Dated

LEMMA AcquireIsDated ==
  ASSUME Inv, AllDated, NEW a \in Actors, NEW asked, Acquire(a, asked), UNCHANGED now
  PROVE  AllDated'
<1> DEFINE j == [NoJob EXCEPT !.at = "window", !.asked = asked, !.began = now]
<1>1. j.at = "window" /\ j.began = now
  BY DEF NoJob
<1>2. now <= now
  BY Bounds DEF Inv, TypeOK
<1>3. job' = [job EXCEPT ![a] = j]
  BY DEF Acquire
<1> HIDE DEF j
<1>4. Dated(j)
  BY <1>1, <1>2 DEF Dated, Settled
<1> QED
  BY <1>3, <1>4, OneDated

LEMMA MovingOnIsDated ==
  ASSUME Inv, AllDated, NEW a \in Actors,
         ComputeWindow(a) \/ FetchSignals(a) \/ LlmAnswers(a)
  PROVE  AllDated' /\ Since(a)' = Since(a)
<1>1. job[a] \in Jobs /\ job[a].at # "none" /\ job[a].began <= now /\ Dated(job[a])
  BY DEF Inv, TypeOK, AllDated, Dated, ComputeWindow, FetchSignals, LlmAnswers
<1>2. PICK j : /\ job' = [job EXCEPT ![a] = j] /\ j.at # "none" /\ j.began = job[a].began
               /\ j.to = now \/ (Settled(job[a]) /\ j.to = job[a].to)
  <2>1. CASE ComputeWindow(a)
    <3> DEFINE j == [job[a] EXCEPT !.at = "fetch", !.to = now,
                                   !.from = WindowStart(job[a].asked)]
    <3>1. j.at = "fetch" /\ j.began = job[a].began /\ j.to = now
      BY <1>1 DEF Jobs
    <3>2. job' = [job EXCEPT ![a] = j]
      BY <2>1 DEF ComputeWindow
    <3> HIDE DEF j
    <3> QED
      BY <3>1, <3>2
  <2>2. CASE FetchSignals(a)
    <3>1. PICK to \in {now, job[a].to}, exact \in BOOLEAN, at \in {"llm", "save"} :
            job' = [job EXCEPT ![a] = [job[a] EXCEPT !.from = None, !.to = to,
                                                     !.exact = exact, !.at = at]]
      BY <2>2 DEF FetchSignals
    <3> DEFINE j == [job[a] EXCEPT !.from = None, !.to = to, !.exact = exact, !.at = at]
    <3>2. j.at = at /\ j.began = job[a].began /\ j.to = to /\ Settled(job[a])
      BY <1>1, <2>2 DEF Jobs, FetchSignals, Settled
    <3>3. job' = [job EXCEPT ![a] = j]
      BY <3>1
    <3> HIDE DEF j
    <3> QED
      BY <3>2, <3>3
  <2>3. CASE LlmAnswers(a)
    <3> DEFINE j == [job[a] EXCEPT !.at = "save"]
    <3>1. j.at = "save" /\ j.began = job[a].began /\ j.to = job[a].to /\ Settled(job[a])
      BY <1>1, <2>3 DEF Jobs, LlmAnswers, Settled
    <3>2. job' = [job EXCEPT ![a] = j]
      BY <2>3 DEF LlmAnswers
    <3> HIDE DEF j
    <3> QED
      BY <3>1, <3>2
  <2> QED
    BY <2>1, <2>2, <2>3
<1>3. Dated(j)
  BY <1>1, <1>2 DEF Dated
<1>4. UNCHANGED now
  BY DEF ComputeWindow, FetchSignals, LlmAnswers
<1>5. job'[a] = j
  BY <1>2 DEF Inv, TypeOK
<1> QED
  BY <1>1, <1>2, <1>3, <1>4, <1>5, OneDated DEF Since

LEMMA DatedStep == Inv /\ AllDated /\ [Next]_vars => AllDated'
<1> SUFFICES ASSUME Inv, AllDated, [Next]_vars PROVE AllDated'
  OBVIOUS
<1>1. ASSUME NEW a \in Actors, ComputeWindow(a) \/ FetchSignals(a) \/ LlmAnswers(a)
      PROVE  AllDated'
  BY <1>1, MovingOnIsDated
<1>2. ASSUME NEW a \in Actors, Save(a) \/ GenerationFails(a) PROVE AllDated'
  BY <1>2, OneDated, RestingIsDated DEF Save, GenerationFails, Finished
<1>3. CASE UserGenerates \/ DaemonGenerates
  BY <1>3, AcquireIsDated DEF UserGenerates, DaemonGenerates, Actors
<1>4. CASE UNCHANGED <<now, job>>
  BY <1>4 DEF AllDated, Dated
<1>5. CASE Restart
  BY <1>5, Resting DEF Restart, AllDated, Dated
<1>6. CASE Tick
  <2>1. now \in Nat /\ now' = now + 1 /\ UNCHANGED job
    BY <1>6, Bounds DEF Tick, Inv, TypeOK
  <2>2. \A a \in Actors : job[a].began \in Nat
    BY DEF Inv, TypeOK, Jobs
  <2> QED
    BY <2>1, <2>2 DEF AllDated, Dated
<1> QED
  BY <1>1, <1>2, <1>3, <1>4, <1>5, <1>6
     DEF Next, Wake, BatchEnds, BatchFails, DaemonSkips, Complete, vars

-----------------------------------------------------------------------------
\* The ends of one more digest.
LEMMA EndsOfAppend ==
  ASSUME NEW s \in Seq([to : Times, exact : BOOLEAN]), NEW d \in [to : Times, exact : BOOLEAN]
  PROVE  EndsOf(Append(s, d)) = Append(EndsOf(s), d.to)
<1> DEFINE t == Append(s, d)
<1>1. /\ t \in Seq([to : Times, exact : BOOLEAN]) /\ Len(t) = Len(s) + 1
      /\ \A i \in 1..Len(s) : t[i] = s[i]
      /\ t[Len(s) + 1] = d
      /\ Len(s) \in Nat /\ DOMAIN s = 1..Len(s) /\ DOMAIN t = 1..Len(t)
  BY AppendProperties, LenProperties
<1> HIDE DEF t
<1>2. (\A i \in 1..Len(s) : s[i].to \in Times) /\ (\A i \in 1..Len(t) : t[i].to \in Times)
  <2>1. (\A i \in 1..Len(s) : s[i] \in [to : Times, exact : BOOLEAN])
        /\ (\A i \in 1..Len(t) : t[i] \in [to : Times, exact : BOOLEAN])
    BY <1>1, ElementOfSeq
  <2> QED
    BY <2>1
<1>3. EndsOf(s) \in Seq(Times) /\ Len(EndsOf(s)) = Len(s)
      /\ EndsOf(t) \in Seq(Times) /\ Len(EndsOf(t)) = Len(t)
  BY <1>1, <1>2 DEF EndsOf
<1>4. d.to \in Times
  OBVIOUS
<1> DEFINE e == Append(EndsOf(s), d.to)
<1>5. /\ e \in Seq(Times) /\ Len(e) = Len(s) + 1
      /\ \A i \in 1..Len(s) : e[i] = EndsOf(s)[i]
      /\ e[Len(s) + 1] = d.to
  BY <1>3, <1>4, AppendProperties
<1> HIDE DEF e
<1>6. ASSUME NEW i \in 1..Len(t) PROVE EndsOf(t)[i] = e[i]
  <2>1. EndsOf(t)[i] = t[i].to
    BY <1>1 DEF EndsOf
  <2>2. CASE i \in 1..Len(s)
    <3>1. EndsOf(s)[i] = s[i].to
      BY <1>1, <2>2 DEF EndsOf
    <3> QED
      BY <1>1, <1>5, <2>1, <2>2, <3>1
  <2>3. CASE i = Len(s) + 1
    BY <1>1, <1>5, <2>1, <2>3
  <2> QED
    BY <1>1, <2>2, <2>3
<1>7. EndsOf(t) = e
  BY <1>1, <1>3, <1>5, <1>6, SeqEqual
<1> QED
  BY <1>7 DEF t, e

\* What an actor's new job makes of the contract's view of who has been at it since when.
LEMMA SinceChanges ==
  ASSUME Inv, NEW a \in Actors, NEW j, job' = [job EXCEPT ![a] = j]
  PROVE  [b \in Actors |-> Since(b)]'
           = [[b \in Actors |-> Since(b)] EXCEPT
                ![a] = IF j.at = "none" THEN None ELSE j.began]
<1> DEFINE t == IF j.at = "none" THEN None ELSE j.began
<1>1. \A b \in Actors : job'[b] = IF b = a THEN j ELSE job[b]
  BY DEF Inv, TypeOK
<1>2. \A b \in Actors : Since(b)' = IF b = a THEN t ELSE Since(b)
  BY <1>1 DEF Since
<1> HIDE DEF t
<1>3. [b \in Actors |-> Since(b)]' = [[b \in Actors |-> Since(b)] EXCEPT ![a] = t]
  BY <1>2
<1> QED
  BY <1>3 DEF t

LEMMA BeginStep ==
  ASSUME Inv, NEW a \in Actors, NEW asked, Acquire(a, asked), UNCHANGED <<now, digests>>
  PROVE  Contract!Begin(a)
<1> DEFINE j == [NoJob EXCEPT !.at = "window", !.asked = asked, !.began = now]
<1>1. j.at = "window" /\ j.began = now
  BY DEF NoJob
<1>2. job' = [job EXCEPT ![a] = j] /\ lock = "free"
  BY DEF Acquire
<1> HIDE DEF j
<1>3. [b \in Actors |-> Since(b)]' = [[b \in Actors |-> Since(b)] EXCEPT ![a] = now]
  BY <1>1, <1>2, SinceChanges
<1>4. \A b \in Actors : Since(b) = None
  BY <1>2 DEF Since, Inv, TypeOK, Actors
<1> QED
  BY <1>3, <1>4 DEF Contract!Begin, Since

LEMMA AtItSince ==
  ASSUME Inv, NEW a \in Actors, job[a].at # "none"
  PROVE  Since(a) = job[a].began /\ Since(a) # None
BY Bounds DEF Since, Inv, Timely, Window

LEMMA PublishStep ==
  ASSUME Inv, AllDated, NEW a \in Actors, Save(a)
  PROVE  Contract!Publish(a)
<1>1. /\ job[a].at = "save" /\ job[a] \in Jobs /\ job[a].began \in Times
      /\ job[a].to \in Times /\ job[a].to <= now /\ job[a].began <= job[a].to
  BY DEF Save, Inv, TypeOK, Timely, Window, AllDated, Dated, Settled
<1>2. Since(a) = job[a].began /\ Since(a) # None
  BY <1>1, AtItSince
<1>3. [b \in Actors |-> Since(b)]' = [[b \in Actors |-> Since(b)] EXCEPT ![a] = None]
  <2>1. job' = [job EXCEPT ![a] = NoJob]
    BY DEF Save, Finished
  <2> QED
    BY <2>1, SinceChanges, Resting
<1>4. EndsOf(digests)' = Append(EndsOf(digests), job[a].to)
  <2> DEFINE d == [to |-> job[a].to, exact |-> job[a].exact]
  <2>1. d \in [to : Times, exact : BOOLEAN] /\ d.to = job[a].to
    BY <1>1 DEF Jobs
  <2>2. digests' = Append(digests, d) /\ digests \in Seq([to : Times, exact : BOOLEAN])
    BY DEF Save, Inv, TypeOK
  <2> HIDE DEF d
  <2>3. EndsOf(Append(digests, d)) = Append(EndsOf(digests), d.to)
    BY <2>1, <2>2, EndsOfAppend
  <2> QED
    BY <2>1, <2>2, <2>3 DEF EndsOf
<1>5. job[a].to \in Since(a)..now /\ UNCHANGED now
  <2>1. job[a].to \in Nat /\ job[a].began \in Nat /\ now \in Nat
    BY <1>1, Bounds DEF Inv, TypeOK
  <2>2. UNCHANGED now
    BY DEF Save
  <2> QED
    BY <1>1, <1>2, <2>1, <2>2
<1> QED
  BY <1>2, <1>3, <1>4, <1>5 DEF Contract!Publish, Since, EndsOf

LEMMA GiveUpStep ==
  ASSUME Inv, NEW a \in Actors, GenerationFails(a)
  PROVE  Contract!GiveUp(a)
<1>1. job[a].at = "llm" /\ job' = [job EXCEPT ![a] = NoJob] /\ UNCHANGED <<now, digests>>
  BY DEF GenerationFails, Finished
<1>2. Since(a) # None
  BY <1>1, AtItSince
<1>3. [b \in Actors |-> Since(b)]' = [[b \in Actors |-> Since(b)] EXCEPT ![a] = None]
  BY <1>1, SinceChanges, Resting
<1> QED
  BY <1>1, <1>2, <1>3 DEF Contract!GiveUp, Since

LEMMA MovingOnStep ==
  ASSUME Inv, AllDated, NEW a \in Actors,
         ComputeWindow(a) \/ FetchSignals(a) \/ LlmAnswers(a)
  PROVE  UNCHANGED Contract!vars
<1>1. UNCHANGED <<now, digests>> /\ Since(a)' = Since(a)
  BY MovingOnIsDated DEF ComputeWindow, FetchSignals, LlmAnswers
<1>2. \A b \in Actors \ {a} : job'[b] = job[b]
  BY DEF ComputeWindow, FetchSignals, LlmAnswers, Inv, TypeOK
<1>3. \A b \in Actors : Since(b)' = Since(b)
  BY <1>1, <1>2 DEF Since
<1> QED
  BY <1>1, <1>3 DEF Contract!vars, Since

LEMMA ContractStep == Inv /\ AllDated /\ [Next]_vars => [Contract!Next]_(Contract!vars)
<1> SUFFICES ASSUME Inv, AllDated, [Next]_vars PROVE [Contract!Next]_(Contract!vars)
  OBVIOUS
<1>1. ASSUME NEW a \in Actors, ComputeWindow(a) \/ FetchSignals(a) \/ LlmAnswers(a)
      PROVE  UNCHANGED Contract!vars
  BY <1>1, MovingOnStep
<1>2. ASSUME NEW a \in Actors, Save(a) PROVE Contract!Next
  BY <1>2, PublishStep DEF Contract!Next
<1>3. ASSUME NEW a \in Actors, GenerationFails(a) PROVE Contract!Next
  BY <1>3, GiveUpStep DEF Contract!Next
<1>4. CASE UserGenerates \/ DaemonGenerates
  <2>1. PICK a \in Actors, asked \in Lookbacks \cup {None} : Acquire(a, asked)
    BY <1>4 DEF UserGenerates, DaemonGenerates, Actors
  <2>2. UNCHANGED <<now, digests>>
    BY <1>4 DEF UserGenerates, DaemonGenerates
  <2> QED
    BY <2>1, <2>2, BeginStep DEF Contract!Next
<1>5. CASE Restart
  <2>1. \A a \in Actors : job'[a] = NoJob /\ Since(a)' = None
    BY <1>5, Resting DEF Restart, Since
  <2>2. Contract!Restart
    BY <1>5, <2>1 DEF Restart, Contract!Restart, Since
  <2> QED
    BY <2>2 DEF Contract!Next
<1>6. CASE Tick
  <2>1. Contract!Tick
    BY <1>6 DEF Tick, Contract!Tick
  <2> QED
    BY <2>1 DEF Contract!Next
<1>7. CASE UNCHANGED <<now, job, digests>>
  BY <1>7 DEF Contract!vars
<1> QED
  BY <1>1, <1>2, <1>3, <1>4, <1>5, <1>6, <1>7
     DEF Next, Wake, BatchEnds, BatchFails, DaemonSkips, Complete, vars

\* Users and the daemon generate one digest after the other, and a digest ends while its
\* own generation is under way, however long that takes: Digest implements DigestContract.
THEOREM OneGenerationAtATime == Spec => Contract!Spec
<1>1. Init => Contract!Init
  <2>1. <<>> = [i \in DOMAIN <<>> |-> <<>>[i].to]
    OBVIOUS
  <2> QED
    BY <2>1, Resting DEF Init, Contract!Init
<1>2. Init => AllDated
  BY RestingIsDated DEF Init, AllDated
<1>3. Spec => []AllDated
  BY <1>2, DatedStep, Invariance, PTL DEF Spec
<1> QED
  BY <1>1, <1>3, ContractStep, Invariance, PTL DEF Spec, Contract!Spec
=============================================================================
