------------------------- MODULE CrawlControlProofs -------------------------
(***************************************************************************)
(* Theorems about CrawlControl for any callers, crawls, requests and       *)
(* groups, with overlapping starts and abandoned crawls: who may use the   *)
(* client, how many crawls are waited for and whose request a crawl reads, *)
(* and that the client is used as ClientContract says.                     *)
(***************************************************************************)
EXTENDS CrawlControl, TLAPS

USE DEF flags, lock, crawls, starts, routes

\* The ways a step can be taken, one case for each action, for any invariant.
LEMMA NextCases ==
  ASSUME Next
  PROVE  \/ PollUnsuspended \/ PollSkips
         \/ \E s \in Starters : StartCheck(s) \/ StartClear(s) \/ StartRejected(s)
         \/ \E s \in Starters, c \in Crawls, m \in Modes : StartSpawn(s, c, m)
         \/ \E c \in Crawls : CrawlRefused(c) \/ CrawlEnter(c) \/ LockGranted(c)
         \/ \E c \in Crawls : Connect(c) \/ FetchEnds(c) \/ PauseEnds(c)
         \/ \E c \in Crawls : RunEnds(c) \/ RunCloses(c)
         \/ StopCheck \/ StopSignal \/ StopSuspend \/ Reenable
         \/ \E r \in Requests : GuardStep(r)
  BY DEF Next, PollStep, StartStep, CrawlStep, RunStep, RouteStep

-----------------------------------------------------------------------------
LEMMA TypeInit == Init => TypeOK
<1> SUFFICES ASSUME Init PROVE TypeOK
  OBVIOUS
<1>1. 0 \in 0..NumGroups
  BY CrawlAssumption
<1>2. group \in [Crawls -> 0..NumGroups]
  BY <1>1 DEF Init
<1>3. \A c \in Crawls : group[c] = 0 <=> coro[c] \notin {"fetching", "pausing"}
  BY DEF Init
<1> QED
  BY <1>2, <1>3 DEF Init, TypeOK, Modes

LEMMA TypeStep == TypeOK /\ [Next]_vars => TypeOK'
<1> SUFFICES ASSUME TypeOK, [Next]_vars PROVE TypeOK'
  OBVIOUS
<1> USE CrawlAssumption DEF TypeOK, Starters, Holders, Modes
<1>1. CASE PollUnsuspended \/ PollSkips
  <2>1. CASE PollUnsuspended
    BY <2>1 DEF PollUnsuspended
  <2>2. CASE PollSkips
    BY <2>2 DEF PollSkips
  <2> QED
    BY <1>1, <2>1, <2>2
<1>2. CASE \E s \in Starters : StartCheck(s) \/ StartClear(s) \/ StartRejected(s)
  <2> PICK s \in Starters : StartCheck(s) \/ StartClear(s) \/ StartRejected(s)
    BY <1>2
  <2>1. CASE StartCheck(s)
    BY <2>1 DEF StartCheck
  <2>2. CASE StartClear(s)
    BY <2>2 DEF StartClear
  <2>3. CASE StartRejected(s)
    BY <2>3 DEF StartRejected
  <2> QED
    BY <2>1, <2>2, <2>3
<1>3. ASSUME NEW s \in Starters, NEW c \in Crawls, NEW m \in Modes, StartSpawn(s, c, m)
      PROVE  TypeOK'
  BY <1>3 DEF StartSpawn
<1>4. ASSUME NEW c \in Crawls, CrawlRefused(c) \/ CrawlEnter(c) \/ LockGranted(c)
      PROVE  TypeOK'
  <2>1. CASE CrawlRefused(c)
    BY <2>1 DEF CrawlRefused, Forget
  <2>2. CASE CrawlEnter(c)
    BY <2>2 DEF CrawlEnter
  <2>3. CASE LockGranted(c)
    BY <2>3 DEF LockGranted
  <2> QED
    BY <1>4, <2>1, <2>2, <2>3
<1>5. ASSUME NEW c \in Crawls, Connect(c)
      PROVE  TypeOK'
  BY <1>5 DEF Connect, Finish, Forget, FetchGroup
<1>6. ASSUME NEW c \in Crawls, FetchEnds(c)
      PROVE  TypeOK'
  BY <1>6 DEF FetchEnds, Finish, Forget, FetchGroup
<1>7. ASSUME NEW c \in Crawls, PauseEnds(c)
      PROVE  TypeOK'
  BY <1>7 DEF PauseEnds, Finish, Forget, FetchGroup
<1>8. ASSUME NEW c \in Crawls, RunEnds(c) \/ RunCloses(c)
      PROVE  TypeOK'
  BY <1>8 DEF RunEnds, RunCloses
<1>9. CASE StopCheck \/ StopSignal \/ StopSuspend \/ Reenable
  BY <1>9 DEF StopCheck, StopSignal, StopSuspend, Reenable
<1>10. ASSUME NEW r \in Requests, GuardStep(r)
       PROVE  TypeOK'
  BY <1>10 DEF GuardStep, GuardEnter, GuardReturns, CallFails, GuardFails
<1>11. CASE UNCHANGED vars
  BY <1>11 DEF vars
<1> QED
  BY <1>1, <1>2, <1>3, <1>4, <1>5, <1>6, <1>7, <1>8, <1>9, <1>10, <1>11, NextCases

\* Every variable of the crawl control keeps its type.
THEOREM TypeCorrect == Spec => []TypeOK
  BY TypeInit, TypeStep, PTL DEF Spec

-----------------------------------------------------------------------------
LEMMA LockInit == Init => LockDiscipline
  BY CrawlAssumption DEF Init, LockDiscipline, Working, Holders, Starters

LEMMA LockStep == TypeOK /\ LockDiscipline /\ [Next]_vars => LockDiscipline'
<1> SUFFICES ASSUME TypeOK, LockDiscipline, [Next]_vars PROVE LockDiscipline'
  OBVIOUS
<1> USE CrawlAssumption DEF TypeOK, LockDiscipline, Working, Starters, Holders
<1>1. CASE UNCHANGED <<tgLock, blocked, coro, req>>
  BY <1>1
<1>2. ASSUME NEW s \in Starters, NEW c \in Crawls, NEW m \in Modes, StartSpawn(s, c, m)
      PROVE  LockDiscipline'
  BY <1>2 DEF StartSpawn
<1>3. ASSUME NEW c \in Crawls, CrawlRefused(c) \/ CrawlEnter(c)
      PROVE  LockDiscipline'
  BY <1>3 DEF CrawlRefused, Forget, CrawlEnter
<1>4. ASSUME NEW c \in Crawls, LockGranted(c)
      PROVE  LockDiscipline'
  BY <1>4 DEF LockGranted
<1>5. ASSUME NEW c \in Crawls, Working(c), UNCHANGED <<blocked, req>>,
             Finish(c) \/ \E g \in Nat : FetchGroup(c, g)
      PROVE  LockDiscipline'
  BY <1>5 DEF Finish, Forget, FetchGroup
<1>6. ASSUME NEW c \in Crawls, Connect(c) \/ FetchEnds(c) \/ PauseEnds(c)
      PROVE  LockDiscipline'
  <2>1. CASE Finish(c) \/ \E g \in Nat : FetchGroup(c, g)
    BY <1>5, <1>6, <2>1 DEF Connect, FetchEnds, PauseEnds
  <2>2. CASE FetchEnds(c) /\ coro' = [coro EXCEPT ![c] = "pausing"] /\ UNCHANGED tgLock
    BY <2>2 DEF FetchEnds
  <2>3. 1 \in Nat /\ group[c] + 1 \in Nat
    OBVIOUS
  <2> QED
    BY <1>6, <2>1, <2>2, <2>3 DEF Connect, FetchEnds, PauseEnds
<1>7. ASSUME NEW r \in Requests, GuardStep(r)
      PROVE  LockDiscipline'
  BY <1>7 DEF GuardStep, GuardEnter, GuardReturns, CallFails, GuardFails
<1>8. ASSUME \/ PollUnsuspended \/ PollSkips
             \/ \E s \in Starters : StartCheck(s) \/ StartClear(s) \/ StartRejected(s)
             \/ \E c \in Crawls : RunEnds(c) \/ RunCloses(c)
             \/ StopCheck \/ StopSignal \/ StopSuspend \/ Reenable
             \/ UNCHANGED vars
      PROVE  UNCHANGED <<tgLock, blocked, coro, req>>
  BY <1>8 DEF PollUnsuspended, PollSkips, StartCheck, StartClear,
              StartRejected, RunEnds, RunCloses, StopCheck, StopSignal,
              StopSuspend, Reenable, vars
<1> QED
  BY <1>1, <1>2, <1>3, <1>4, <1>6, <1>7, <1>8, NextCases

\* Whoever works with the Telegram client holds tg_lock, whoever stopped has
\* given it back, in every behaviour: overlapping starts and timeouts included.
THEOREM LockDisciplineHolds == Spec => []LockDiscipline
<1>1. Init => TypeOK /\ LockDiscipline
  BY TypeInit, LockInit
<1>2. (TypeOK /\ LockDiscipline) /\ [Next]_vars => (TypeOK /\ LockDiscipline)'
  BY TypeStep, LockStep
<1> QED
  BY <1>1, <1>2, PTL DEF Spec

\* "the lock must serialize all access" (crawl_service.py:176-181): two crawls
\* never work with the client at once, nor a crawl while a request does.
ClientIsExclusive ==
  /\ \A c, d \in Crawls : Working(c) /\ Working(d) => c = d
  /\ \A c \in Crawls, r \in Requests :
       Working(c) => req[r] \notin {"calling", "disconnecting"}

\* The shared client has one user at a time whatever the callers of start() do.
THEOREM ClientExclusion == Spec => []ClientIsExclusive
<1>1. LockDiscipline => ClientIsExclusive
  BY CrawlAssumption DEF LockDiscipline, ClientIsExclusive
<1> QED
  BY <1>1, LockDisciplineHolds, PTL
-----------------------------------------------------------------------------
\* While starts have not overlapped: between its check and its setting of the
\* flag a caller is alone and no thread waits for a crawl, and the shared request
\* fields are those of the start() under way, then of the crawl not yet begun. In
\* any case the flag is up only while a thread waits.
StartInv ==
  /\ running => \E c \in Crawls : run[c] # "none"
  /\ \A c \in Crawls : coro[c] \in {"none", "submitted"} => took[c] = None
  /\ OneCrawlAtATime
  /\ ~overlap =>
       /\ \A s \in Starters : InStart(s) => ~running
       /\ \A s, t \in Starters : InStart(s) /\ InStart(t) => s = t
       /\ \A s \in Starters : caller[s] = "cleared" => request = s
       /\ \A c \in Crawls :
            run[c] = "waiting" /\ coro[c] = "submitted" /\ mode[c] = "single"
              => request = owner[c]
  /\ CrawlServesItsRequest

LEMMA StartInit == Init => StartInv
  BY DEF Init, StartInv, OneCrawlAtATime, CrawlServesItsRequest, InStart

LEMMA StartInvStep ==
  ASSUME TypeOK, StartInv, [Next]_vars
  PROVE  StartInv'
<1> USE DEF TypeOK, StartInv, OneCrawlAtATime, CrawlServesItsRequest, InStart, Modes
<1>1. CASE UNCHANGED <<running, request, run, coro, mode, owner, took, caller, overlap>>
  BY <1>1
<1>2. ASSUME NEW s \in Starters, StartCheck(s)
      PROVE  StartInv'
  <2>1. UNCHANGED <<running, request, run, coro, mode, owner, took>>
    BY <1>2 DEF StartCheck
  <2>2. CASE running
    <3>1. caller' = [caller EXCEPT ![s] = "idle"] /\ overlap' = overlap
      BY <1>2, <2>2 DEF StartCheck
    <3> QED
      BY <2>1, <3>1
  <2>3. CASE ~running
    <3>1. /\ caller' = [caller EXCEPT ![s] = "checked"]
          /\ ~overlap' => ~overlap /\ \A t \in Starters : ~InStart(t)
      BY <1>2, <2>3 DEF StartCheck
    <3> QED
      BY <2>1, <2>3, <3>1
  <2> QED
    BY <2>2, <2>3
<1>3. ASSUME NEW s \in Starters, StartClear(s)
      PROVE  StartInv'
  BY <1>3 DEF StartClear
<1>4. ASSUME NEW s \in Starters, StartRejected(s)
      PROVE  StartInv'
  <2>1. CASE QuietBut(s, None)
    <3>1. \A c \in Crawls : run[c] = "none"
      BY <2>1, CrawlAssumption DEF QuietBut, Holders
    <3>2. \A t \in Starters : ~InStart(t)'
      BY <1>4, <2>1 DEF StartRejected, QuietBut
    <3> QED
      BY <1>4, <3>1, <3>2 DEF StartRejected
  <2>2. CASE ~QuietBut(s, None)
    BY <1>4, <2>2 DEF StartRejected
  <2> QED
    BY <2>1, <2>2
<1>5. ASSUME NEW s \in Starters, NEW c \in Crawls, NEW m \in Modes, StartSpawn(s, c, m)
      PROVE  StartInv'
  BY <1>5 DEF StartSpawn
<1>6. ASSUME NEW c \in Crawls, CrawlRefused(c)
      PROVE  StartInv'
  BY <1>6 DEF CrawlRefused, Forget
<1>7. ASSUME NEW c \in Crawls, CrawlEnter(c)
      PROVE  StartInv'
  BY <1>7 DEF CrawlEnter
<1>8. ASSUME NEW c \in Crawls, LockGranted(c)
      PROVE  StartInv'
  BY <1>8 DEF LockGranted
<1>9. ASSUME NEW c \in Crawls, Connect(c)
      PROVE  StartInv'
  BY <1>9 DEF Connect, Finish, Forget, FetchGroup
<1>10. ASSUME NEW c \in Crawls, FetchEnds(c)
       PROVE  StartInv'
  BY <1>10 DEF FetchEnds, Finish, Forget, FetchGroup
<1>11. ASSUME NEW c \in Crawls, PauseEnds(c)
       PROVE  StartInv'
  BY <1>11 DEF PauseEnds, Finish, Forget, FetchGroup
<1>12. ASSUME NEW c \in Crawls, RunEnds(c)
       PROVE  StartInv'
  BY <1>12 DEF RunEnds
<1>13. ASSUME NEW c \in Crawls, RunCloses(c)
       PROVE  StartInv'
  <2>1. CASE QuietBut(None, c)
    <3>1. \A d \in Crawls : run'[d] = "none"
      BY <1>13, <2>1 DEF RunCloses, QuietBut
    <3>2. \A t \in Starters : ~InStart(t)'
      BY <1>13, <2>1, CrawlAssumption DEF RunCloses, QuietBut
    <3> QED
      BY <1>13, <3>1, <3>2 DEF RunCloses
  <2>2. CASE ~QuietBut(None, c)
    BY <1>13, <2>2 DEF RunCloses
  <2> QED
    BY <2>1, <2>2
<1>14. CASE PollUnsuspended \/ PollSkips
  BY <1>14, CrawlAssumption DEF PollUnsuspended, PollSkips, Starters
<1>15. ASSUME \/ StopCheck \/ StopSignal \/ StopSuspend \/ Reenable
              \/ \E r \in Requests : GuardStep(r)
              \/ UNCHANGED vars
       PROVE  UNCHANGED <<running, request, run, coro, mode, owner, took, caller, overlap>>
  BY <1>15 DEF StopCheck, StopSignal, StopSuspend, Reenable, GuardStep,
               GuardEnter, GuardReturns, CallFails, GuardFails, vars
<1> QED
  BY <1>1, <1>2, <1>3, <1>4, <1>5, <1>6, <1>7, <1>8, <1>9, <1>10, <1>11, <1>12,
     <1>13, <1>14, <1>15, NextCases

\* Two threads wait for crawls at once, or the running flag is wrong, only after
\* two start() calls have overlapped: no timeout, stop, failure or abandoned crawl
\* brings it about.
THEOREM SecondCrawlNeedsOverlap == Spec => []OneCrawlAtATime
<1>1. Init => TypeOK /\ StartInv
  BY TypeInit, StartInit
<1>2. (TypeOK /\ StartInv) /\ [Next]_vars => (TypeOK /\ StartInv)'
  BY TypeStep, StartInvStep
<1>3. StartInv => OneCrawlAtATime
  BY DEF StartInv
<1> QED
  BY <1>1, <1>2, <1>3, PTL DEF Spec

\* A crawl reads another caller's dates or catch-up groups only after starts have
\* overlapped, or after its own hour was over.
THEOREM RequestIsServed == Spec => []CrawlServesItsRequest
<1>1. Init => TypeOK /\ StartInv
  BY TypeInit, StartInit
<1>2. (TypeOK /\ StartInv) /\ [Next]_vars => (TypeOK /\ StartInv)'
  BY TypeStep, StartInvStep
<1>3. StartInv => CrawlServesItsRequest
  BY DEF StartInv
<1> QED
  BY <1>1, <1>2, <1>3, PTL DEF Spec

-----------------------------------------------------------------------------
(* The client as a resource with one user, whatever crawls and requests do *)

\* Those who work with the client: coroutines from the connect on, requests
\* until the guard is left, the disconnect of a failed one included.
InUse == {c \in Crawls : Working(c)}
         \cup {r \in Requests : req[r] \in {"calling", "disconnecting"}}

Client == INSTANCE ClientContract WITH Parties <- Holders, users <- InUse

\* The users are exactly the holder of tg_lock.
LEMMA UsersAreTheHolder ==
  ASSUME TypeOK, LockDiscipline
  PROVE  InUse = IF tgLock = None THEN {} ELSE {tgLock}
<1>1. \A h \in InUse : tgLock = h
  BY DEF LockDiscipline, InUse
<1>2. tgLock # None => tgLock \in InUse
  BY DEF TypeOK, LockDiscipline, InUse, Holders
<1>3. \A h \in InUse : h # None
  BY CrawlAssumption DEF InUse, Holders
<1> QED
  BY <1>1, <1>2, <1>3

\* No step hands the client from one user to the next: it is free in between.
LEMMA LockPassesThroughNone ==
  ASSUME TypeOK, LockDiscipline, [Next]_vars
  PROVE  tgLock' # tgLock => tgLock = None \/ tgLock' = None
<1>1. ASSUME NEW s \in Starters, NEW c \in Crawls, NEW m \in Modes, StartSpawn(s, c, m)
      PROVE  tgLock' = tgLock
  BY <1>1 DEF StartSpawn
<1>2. ASSUME NEW c \in Crawls, CrawlRefused(c) \/ CrawlEnter(c) \/ LockGranted(c)
      PROVE  tgLock' = tgLock \/ tgLock = None
  BY <1>2 DEF CrawlRefused, CrawlEnter, LockGranted
<1>3. ASSUME NEW c \in Crawls, Connect(c) \/ FetchEnds(c) \/ PauseEnds(c)
      PROVE  tgLock' = tgLock \/ tgLock' = None
  BY <1>3 DEF Connect, FetchEnds, PauseEnds, Finish, Forget, FetchGroup
<1>4. ASSUME NEW r \in Requests, GuardStep(r)
      PROVE  tgLock' = tgLock \/ tgLock = None \/ tgLock' = None
  BY <1>4 DEF GuardStep, GuardEnter, GuardReturns, CallFails, GuardFails
<1>5. ASSUME \/ PollUnsuspended \/ PollSkips
             \/ \E s \in Starters : StartCheck(s) \/ StartClear(s) \/ StartRejected(s)
             \/ \E c \in Crawls : RunEnds(c) \/ RunCloses(c)
             \/ StopCheck \/ StopSignal \/ StopSuspend \/ Reenable
             \/ UNCHANGED vars
      PROVE  tgLock' = tgLock
  BY <1>5 DEF PollUnsuspended, PollSkips, StartCheck, StartClear,
              StartRejected, RunEnds, RunCloses, StopCheck, StopSignal,
              StopSuspend, Reenable, vars
<1> QED
  BY <1>1, <1>2, <1>3, <1>4, <1>5, NextCases

LEMMA ClientRefStep ==
  ASSUME TypeOK, LockDiscipline, TypeOK', LockDiscipline', [Next]_vars
  PROVE  [Client!Next]_InUse
<1>1. InUse = IF tgLock = None THEN {} ELSE {tgLock}
  BY UsersAreTheHolder
<1>2. InUse' = IF tgLock' = None THEN {} ELSE {tgLock'}
  <2>1. \A h \in InUse' : tgLock' = h
    BY DEF LockDiscipline, InUse
  <2>2. tgLock' # None => tgLock' \in InUse'
    BY DEF TypeOK, LockDiscipline, InUse, Holders
  <2>3. \A h \in InUse' : h # None
    BY CrawlAssumption DEF InUse, Holders
  <2> QED
    BY <2>1, <2>2, <2>3
<1>3. CASE tgLock' = tgLock
  BY <1>1, <1>2, <1>3
<1>4. CASE tgLock' # tgLock /\ tgLock = None
  <2>1. tgLock' \in Holders
    BY <1>4 DEF TypeOK
  <2>2. Client!Begin(tgLock')
    BY <1>1, <1>2, <1>4 DEF Client!Begin
  <2> QED
    BY <2>1, <2>2 DEF Client!Next
<1>5. CASE tgLock' # tgLock /\ tgLock' = None
  <2>1. tgLock \in Holders
    BY <1>5 DEF TypeOK
  <2>2. Client!End(tgLock)
    BY <1>1, <1>2, <1>5 DEF Client!End
  <2> QED
    BY <2>1, <2>2 DEF Client!Next
<1> QED
  BY <1>3, <1>4, <1>5, LockPassesThroughNone

\* The crawl control implements ClientContract without any hypothesis: crawls
\* and requests use the one client in turn, and it is free between two of them.
THEOREM ClientUsedInTurn == Spec => Client!Spec
<1>1. Init => Client!Init
  BY DEF Init, Client!Init, InUse, Working
<1>2. (TypeOK /\ LockDiscipline) /\ (TypeOK /\ LockDiscipline)' /\ [Next]_vars
        => [Client!Next]_InUse
  BY ClientRefStep
<1> QED
  BY <1>1, <1>2, TypeCorrect, LockDisciplineHolds, PTL DEF Spec, Client!Spec
=============================================================================
