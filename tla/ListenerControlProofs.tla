------------------------ MODULE ListenerControlProofs ------------------------
(***************************************************************************)
(* Theorems about ListenerControl for any request threads, groups and      *)
(* slots: type correctness, one listener, a loop that never waits for a    *)
(* start, and a client used in turn. No hypothesis on the order in which   *)
(* routes are called.                                                      *)
(***************************************************************************)
EXTENDS ListenerControl, TLAPS

USE DEF daemon, client

\* The ways a step can be taken, one disjunct for each action.
LEMMA NextCases ==
  ASSUME Next
  PROVE  \/ \E c \in Callers : \/ PatchStatus(c) \/ ToggleGroup(c) \/ ToggleEffect(c)
                               \/ StartEnter(c) \/ GuardEnter(c) \/ GuardConnects(c)
                               \/ GuardFails(c) \/ Submit(c) \/ MarkRunning(c) \/ Stop(c)
         \/ \E r \in Runs : RunnerBegins(r) \/ HandlersRemoved(r) \/ RunnerEnds(r)
         \/ OtherTakes \/ OtherConnects \/ OtherLeaves \/ ConnectionLost
  BY DEF Next, Caller, Runner

-----------------------------------------------------------------------------
LEMMA TypeInit == Init => TypeOK
  BY ListenerAssumption DEF Init, TypeOK, Callers, InStart

LEMMA TypeStep == TypeOK /\ [Next]_vars => TypeOK'
<1> SUFFICES ASSUME TypeOK, [Next]_vars PROVE TypeOK'
  OBVIOUS
<1> USE ListenerAssumption DEF TypeOK, InStart, To
<1>1. ASSUME NEW c \in Callers, PatchStatus(c) \/ ToggleGroup(c) \/ ToggleEffect(c)
      PROVE  TypeOK'
  <2>1. CASE PatchStatus(c)
    BY <2>1 DEF PatchStatus, Serving
  <2>2. CASE ToggleGroup(c)
    BY <2>2 DEF ToggleGroup, Serving
  <2>3. CASE ToggleEffect(c)
    BY <2>3 DEF ToggleEffect
  <2> QED
    BY <1>1, <2>1, <2>2, <2>3
<1>2. ASSUME NEW c \in Callers, StartEnter(c)
      PROVE  TypeOK'
  BY <1>2 DEF StartEnter
<1>3. ASSUME NEW c \in Callers, GuardEnter(c)
      PROVE  TypeOK'
  BY <1>3 DEF GuardEnter
<1>4. ASSUME NEW c \in Callers, GuardConnects(c)
      PROVE  TypeOK'
  BY <1>4 DEF GuardConnects
<1>5. ASSUME NEW c \in Callers, GuardFails(c)
      PROVE  TypeOK'
  BY <1>5 DEF GuardFails
<1>6. ASSUME NEW c \in Callers, Submit(c) \/ MarkRunning(c) \/ Stop(c)
      PROVE  TypeOK'
  <2>1. CASE Submit(c)
    BY <2>1 DEF Submit
  <2>2. CASE MarkRunning(c)
    BY <2>2 DEF MarkRunning
  <2>3. CASE Stop(c)
    BY <2>3 DEF Stop
  <2> QED
    BY <1>6, <2>1, <2>2, <2>3
<1>7. ASSUME NEW r \in Runs, RunnerBegins(r) \/ HandlersRemoved(r) \/ RunnerEnds(r)
      PROVE  TypeOK'
  BY <1>7 DEF RunnerBegins, HandlersRemoved, RunnerEnds
<1>8. CASE OtherTakes \/ OtherConnects \/ OtherLeaves \/ ConnectionLost
  BY <1>8 DEF OtherTakes, OtherConnects, OtherLeaves, ConnectionLost, Callers
<1>9. CASE UNCHANGED vars
  BY <1>9 DEF vars
<1> QED
  BY <1>1, <1>2, <1>3, <1>4, <1>5, <1>6, <1>7, <1>8, <1>9, NextCases

\* Every variable of the listener's control keeps its type, and both locks are
\* held by exactly those who are between taking and releasing them.
THEOREM TypeCorrect == Spec => []TypeOK
  BY TypeInit, TypeStep, PTL DEF Spec

-----------------------------------------------------------------------------
(* The inductive invariant. OneListener alone does not say that a start    *)
(* which was let through finds no coroutine alive.                         *)

\* A coroutine that is alive has the flag set, but for the moment between its
\* submission and the next assignment, and until then its event is not set.
AliveIsMarked ==
  \A r \in Active :
    running \/ \E c \in Callers : pc[c] = "submitted" /\ r \notin stops

\* A start that was let through is alone: the flag is not set and, until it
\* submits one, no coroutine is alive.
StartIsAlone ==
  \A c \in Callers :
    /\ pc[c] \in InStart => ~running
    /\ pc[c] \in InStart \ {"submitted"} => Active = {}

\* A coroutine ends because its event was set.
EndsWhenTold == \A r \in Runs : run[r] = "ending" => r \in stops

ListenerInv == OneListener /\ AliveIsMarked /\ StartIsAlone /\ EndsWhenTold

LEMMA ListenerInit == Init => ListenerInv
  BY ListenerAssumption
  DEF Init, ListenerInv, OneListener, AliveIsMarked, StartIsAlone, EndsWhenTold, Active, InStart

LEMMA ListenerStep == TypeOK /\ ListenerInv /\ [Next]_vars => ListenerInv'
<1> SUFFICES ASSUME TypeOK, ListenerInv, [Next]_vars PROVE ListenerInv'
  OBVIOUS
<1> USE ListenerAssumption DEF TypeOK, ListenerInv, OneListener, AliveIsMarked,
                               StartIsAlone, EndsWhenTold, Active, InStart, To
<1>1. ASSUME NEW c \in Callers, PatchStatus(c) \/ ToggleGroup(c) \/ ToggleEffect(c)
      PROVE  ListenerInv'
  BY <1>1 DEF PatchStatus, ToggleGroup, ToggleEffect, Serving
<1>2. ASSUME NEW c \in Callers, StartEnter(c)
      PROVE  ListenerInv'
  <2>1. CASE running
    BY <1>2, <2>1 DEF StartEnter
  <2>2. CASE ~running
    <3>1. Active = {}
      BY <1>2, <2>2 DEF StartEnter
    <3> QED
      BY <1>2, <2>2, <3>1 DEF StartEnter
  <2> QED
    BY <2>1, <2>2
<1>3. ASSUME NEW c \in Callers, GuardEnter(c) \/ GuardConnects(c) \/ GuardFails(c)
      PROVE  ListenerInv'
  BY <1>3 DEF GuardEnter, GuardConnects, GuardFails
<1>4. ASSUME NEW c \in Callers, Submit(c)
      PROVE  ListenerInv'
  <2>1. PICK r \in Runs : /\ run' = [run EXCEPT ![r] = "scheduled"]
                          /\ stops' = stops \ {r}
    BY <1>4 DEF Submit
  <2>2. Active = {} /\ ~running /\ lock = c
    BY <1>4 DEF Submit
  <2>3. Active' = {r}
    BY <2>1, <2>2
  <2>4. \A d \in Callers : pc'[d] \in InStart => d = c
    BY <1>4, <2>2 DEF Submit
  <2> QED
    BY <1>4, <2>1, <2>2, <2>3, <2>4 DEF Submit
<1>5. ASSUME NEW c \in Callers, MarkRunning(c)
      PROVE  ListenerInv'
  BY <1>5 DEF MarkRunning
<1>6. ASSUME NEW c \in Callers, Stop(c)
      PROVE  ListenerInv'
  BY <1>6 DEF Stop
<1>7. ASSUME NEW r \in Runs, RunnerBegins(r) \/ HandlersRemoved(r)
      PROVE  ListenerInv'
  BY <1>7 DEF RunnerBegins, HandlersRemoved
<1>8. ASSUME NEW r \in Runs, RunnerEnds(r)
      PROVE  ListenerInv'
  <2>1. Active' = {}
    BY <1>8 DEF RunnerEnds
  <2> QED
    BY <1>8, <2>1 DEF RunnerEnds
<1>9. CASE OtherTakes \/ OtherConnects \/ OtherLeaves \/ ConnectionLost \/ UNCHANGED vars
  <2>1. UNCHANGED <<pc, running, run, stops>>
    BY <1>9 DEF OtherTakes, OtherConnects, OtherLeaves, ConnectionLost, vars
  <2> QED
    BY <2>1
<1> QED
  BY <1>1, <1>2, <1>3, <1>4, <1>5, <1>6, <1>7, <1>8, <1>9, NextCases

LEMMA ListenerInvariant == Spec => []ListenerInv
  BY TypeInit, TypeStep, ListenerInit, ListenerStep, PTL DEF Spec

\* At most one coroutine of the daemon is alive, whatever threads start and stop
\* the listener and whatever becomes of the client (start_thread, run_async).
THEOREM OneListenerHolds == Spec => []OneListener
  BY ListenerInvariant, PTL DEF ListenerInv

LEMMA NobodyStarts == TypeOK /\ ListenerInv => LoopNeverWaitsForStart
  BY DEF TypeOK, ListenerInv, AliveIsMarked, StartIsAlone, EndsWhenTold, Active, InStart,
         LoopNeverWaitsForStart

\* A coroutine that takes _lock on the loop's thread finds no start under way
\* that would wait for that very loop (the finally clause of run_async).
THEOREM LoopNeverWaits == Spec => []LoopNeverWaitsForStart
  BY TypeCorrect, ListenerInvariant, NobodyStarts, PTL

-----------------------------------------------------------------------------
(* The same contract as the crawls and requests keep (CrawlControlProofs), *)
(* with a start of the listener as one more kind of user.                  *)

InUse == {c \in Callers : pc[c] = "connecting"} \cup {o \in {Other} : tgLock = o}

Client == INSTANCE ClientContract WITH Parties <- Callers \cup {Other}, users <- InUse

\* The users are exactly the holder of tg_lock.
LEMMA UsersAreTheHolder ==
  TypeOK => InUse = IF tgLock = None THEN {} ELSE {tgLock}
<1> SUFFICES ASSUME TypeOK PROVE InUse = IF tgLock = None THEN {} ELSE {tgLock}
  OBVIOUS
<1>1. \A h \in InUse : tgLock = h
  BY DEF TypeOK, InUse
<1>2. tgLock # None => tgLock \in InUse
  BY DEF TypeOK, InUse
<1>3. \A h \in InUse : h # None
  BY ListenerAssumption DEF InUse
<1> QED
  BY <1>1, <1>2, <1>3

\* No step hands the client from one user to the next: it is free in between.
LEMMA LockPassesThroughNone ==
  ASSUME [Next]_vars
  PROVE  tgLock' # tgLock => tgLock = None \/ tgLock' = None
<1>1. ASSUME NEW c \in Callers,
             \/ PatchStatus(c) \/ ToggleGroup(c) \/ ToggleEffect(c) \/ StartEnter(c)
             \/ Submit(c) \/ MarkRunning(c) \/ Stop(c)
      PROVE  tgLock' = tgLock
  BY <1>1 DEF PatchStatus, ToggleGroup, ToggleEffect, StartEnter, Submit, MarkRunning, Stop
<1>2. ASSUME NEW c \in Callers, GuardEnter(c) \/ GuardConnects(c) \/ GuardFails(c)
      PROVE  tgLock = None \/ tgLock' = None
  BY <1>2 DEF GuardEnter, GuardConnects, GuardFails
<1>3. ASSUME NEW r \in Runs, RunnerBegins(r) \/ HandlersRemoved(r) \/ RunnerEnds(r)
      PROVE  tgLock' = tgLock
  BY <1>3 DEF RunnerBegins, HandlersRemoved, RunnerEnds
<1>4. CASE OtherTakes \/ OtherConnects \/ OtherLeaves \/ ConnectionLost \/ UNCHANGED vars
  BY <1>4 DEF OtherTakes, OtherConnects, OtherLeaves, ConnectionLost, vars
<1> QED
  BY <1>1, <1>2, <1>3, <1>4, NextCases

LEMMA ClientRefStep == TypeOK /\ TypeOK' /\ [Next]_vars => [Client!Next]_InUse
<1> SUFFICES ASSUME TypeOK, TypeOK', [Next]_vars PROVE [Client!Next]_InUse
  OBVIOUS
<1>1. InUse = IF tgLock = None THEN {} ELSE {tgLock}
  BY UsersAreTheHolder
<1>2. InUse' = IF tgLock' = None THEN {} ELSE {tgLock'}
  <2>1. \A h \in InUse' : tgLock' = h
    BY DEF TypeOK, InUse
  <2>2. tgLock' # None => tgLock' \in InUse'
    BY DEF TypeOK, InUse
  <2>3. \A h \in InUse' : h # None
    BY ListenerAssumption DEF InUse
  <2> QED
    BY <2>1, <2>2, <2>3
<1>3. CASE tgLock' = tgLock
  BY <1>1, <1>2, <1>3
<1>4. CASE tgLock' # tgLock /\ tgLock = None
  <2>1. tgLock' \in Callers \cup {Other}
    BY <1>4 DEF TypeOK
  <2>2. Client!Begin(tgLock')
    BY <1>1, <1>2, <1>4 DEF Client!Begin
  <2> QED
    BY <2>1, <2>2 DEF Client!Next
<1>5. CASE tgLock' # tgLock /\ tgLock' = None
  <2>1. tgLock \in Callers \cup {Other}
    BY <1>5 DEF TypeOK
  <2>2. Client!End(tgLock)
    BY <1>1, <1>2, <1>5 DEF Client!End
  <2> QED
    BY <2>1, <2>2 DEF Client!Next
<1> QED
  BY <1>3, <1>4, <1>5, LockPassesThroughNone

\* The start of the listener keeps the contract the crawls keep: it connects
\* the client when nobody else has it, and gives it back before anybody else.
THEOREM ClientUsedInTurn == Spec => Client!Spec
<1>1. Init => Client!Init
  BY ListenerAssumption DEF Init, Client!Init, InUse, Callers
<1> QED
  BY <1>1, TypeCorrect, ClientRefStep, PTL DEF Spec, Client!Spec
=============================================================================
