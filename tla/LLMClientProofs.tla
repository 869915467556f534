--------------------------- MODULE LLMClientProofs ---------------------------
(***************************************************************************)
(* Theorems about LLMClient for any threads, providers, configurations,    *)
(* batch sizes and numbers of tries: type correctness, no provider is left *)
(* out, a thread respects the cool-down it set, and every step is one that *)
(* RefineContract allows.                                                  *)
(* Further down, theorems about RefusalProxy, which may stand between the  *)
(* client and its upstream: type correctness, one source per response, and *)
(* nothing is taken back from a response or added to one that has ended.   *)
(***************************************************************************)
EXTENDS LLMClient, RefusalProxy, SequenceTheorems, FiniteSetTheorems, TLAPS

\* The ways a step can be taken, one disjunct for each action.
LEMMA NextCases ==
  ASSUME Next
  PROVE  \/ \E t \in Threads :
              \/ Begin(t) \/ WaitIfBusy(t) \/ Wake(t) \/ Refusal(t) \/ GivesWay(t)
              \/ Overloaded(t) \/ Permanent(t) \/ Text(t) \/ Exhausted(t)
              \/ Parsed(t) \/ Unusable(t) \/ AttemptFailed(t) \/ Return(t)
         \/ \E p \in Providers : CooldownEnds(p)
  BY DEF Next, Works, Answered

LEMMA Bounds ==
  /\ InTries \in Nat /\ 1 <= InTries /\ 1 \in 1..InTries
  /\ MaxRetries \in Nat /\ 1 <= MaxRetries
  /\ BatchSize \in Nat /\ 1 <= BatchSize
  BY LLMAssumption

-----------------------------------------------------------------------------
(* The chain is a sequence of providers, and not an empty one              *)

LEMMA PlacesAreFinite ==
  ASSUME NEW n \in Nat, NEW S, S \subseteq 1..n
  PROVE  IsFiniteSet(S)
<1>1. IsFiniteSet(1..n)
  BY FS_Interval
<1> QED
  BY <1>1, FS_Subset

LEMMA ChainInit == Init => chain \in Seq(Providers) /\ chain # <<>>
<1> SUFFICES ASSUME Init PROVE chain \in Seq(Providers) /\ chain # <<>>
  OBVIOUS
<1>0. PICK raw \in RawConfigs :
        Accepted(raw) /\ \E pool \in Pool(raw) : chain \in Kept(FallbackOrder(raw), pool)
  BY DEF Init
<1>1. PICK pool \in Pool(raw) : chain \in Kept(FallbackOrder(raw), pool)
  BY <1>0
<1> DEFINE order  == FallbackOrder(raw)
           places == {i \in DOMAIN order : order[i] \in pool}
           n      == Cardinality(places)
<1>2. order \in Seq(Providers)
  BY LLMAssumption DEF FallbackOrder
<1>3. pool \subseteq Range(order) /\ pool # {}
  BY <1>1 DEF Pool
<1>4. DOMAIN order = 1..Len(order) /\ Len(order) \in Nat
  BY <1>2, LenProperties
<1>5. pool \subseteq Providers
  BY <1>2, <1>3, <1>4, ElementOfSeq DEF Range
<1>6. places # {}
  BY <1>3 DEF Range
<1>7. IsFiniteSet(places)
  BY <1>4, PlacesAreFinite
<1>8. n \in Nat /\ n # 0
  BY <1>6, <1>7, FS_CardinalityType, FS_EmptySet
<1>9. chain \in [1..n -> pool]
  BY <1>1 DEF Kept
<1> HIDE DEF n
<1>10. chain \in [1..n -> Providers]
  BY <1>5, <1>9
<1>11. chain \in Seq(Providers)
  BY <1>8, <1>10, SeqDef
<1>12. chain # <<>>
  BY <1>8, <1>10
<1> QED
  BY <1>11, <1>12

ChainOK == chain \in Seq(Providers) /\ chain # <<>>

LEMMA ChainFacts ==
  ASSUME ChainOK
  PROVE  /\ Len(chain) \in Nat \ {0} /\ DOMAIN chain = 1..Len(chain) /\ 1 \in DOMAIN chain
         /\ \A i \in 1..Len(chain) : chain[i] \in Providers
         /\ Range(chain) = {chain[i] : i \in 1..Len(chain)}
<1>1. Len(chain) \in Nat /\ DOMAIN chain = 1..Len(chain)
  BY LenProperties DEF ChainOK
<1>2. Len(chain) # 0
  BY EmptySeq DEF ChainOK
<1>3. \A i \in 1..Len(chain) : chain[i] \in Providers
  BY ElementOfSeq DEF ChainOK
<1> QED
  BY <1>1, <1>2, <1>3 DEF Range

-----------------------------------------------------------------------------
(* A thread's round. GivesUpAfterAll speaks of the end only: the invariant *)
(* says which part of the chain was called on the way there.               *)

Phases == {"rest", "ready", "asleep", "calling", "text", "exhausted", "failed"}

Rounds == [pc : Phases, at : DOMAIN chain, try : 1..InTries, waits : BOOLEAN,
           called : SUBSET Providers]

Tried(r) ==
  /\ r.called \subseteq Range(chain)
  /\ r.pc \in {"ready", "asleep"} => \A i \in 1..Len(chain) : i < r.at => chain[i] \in r.called
  /\ r.pc = "calling" => \A i \in 1..Len(chain) : i <= r.at => chain[i] \in r.called
  /\ r.pc = "exhausted" => Range(chain) \subseteq r.called

Good(rounds) == rounds \in [Threads -> Rounds] /\ \A t \in Threads : Tried(rounds[t])

CooledOK == cooled \in [Providers -> SUBSET Threads]

RoundInv == ChainOK /\ CooledOK /\ Good(round)

LEMMA AtRestIsGood ==
  ASSUME ChainOK, NEW pc \in {"rest", "ready", "failed", "text"}
  PROVE  [AtRest EXCEPT !.pc = pc] \in Rounds /\ Tried([AtRest EXCEPT !.pc = pc])
<1>1. [AtRest EXCEPT !.pc = pc] \in Rounds
  BY ChainFacts, Bounds DEF AtRest, Rounds, Phases
<1>2. \A i \in 1..Len(chain) : ~(i < 1)
  BY ChainFacts
<1> QED
  BY <1>1, <1>2 DEF AtRest, Tried

LEMMA RestIsGood ==
  ASSUME ChainOK
  PROVE  /\ AtRest \in Rounds /\ Tried(AtRest)
         /\ Start \in Rounds /\ Tried(Start)
         /\ Failed \in Rounds /\ Tried(Failed)
<1>1. AtRest = [AtRest EXCEPT !.pc = "rest"]
  BY DEF AtRest
<1> QED
  BY <1>1, AtRestIsGood DEF Start, Failed

LEMMA GoodMove ==
  ASSUME NEW rounds, Good(rounds), NEW t \in Threads, NEW r \in Rounds, Tried(r)
  PROVE  Good([rounds EXCEPT ![t] = r])
  BY DEF Good

LEMMA GoodReleased ==
  ASSUME NEW rounds, Good(rounds), NEW p
  PROVE  Good(Released(p, rounds))
<1>1. \A t \in Threads : rounds[t] \in Rounds /\ Tried(rounds[t])
  BY DEF Good
<1>2. ASSUME NEW t \in Threads
      PROVE  /\ [rounds[t] EXCEPT !.waits = FALSE] \in Rounds
             /\ Tried([rounds[t] EXCEPT !.waits = FALSE])
  <2>1. [rounds[t] EXCEPT !.waits = FALSE] \in Rounds
    BY <1>1 DEF Rounds
  <2> QED
    BY <1>1, <2>1 DEF Tried, Rounds
<1>3. \A t \in Threads : Released(p, rounds)[t] \in Rounds /\ Tried(Released(p, rounds)[t])
  BY <1>1, <1>2 DEF Released
<1> QED
  BY <1>3 DEF Good, Released

LEMMA GoodNextProvider ==
  ASSUME RoundInv, NEW t \in Threads, round[t].pc = "calling"
  PROVE  Good(NextProvider(t))
<1>1. /\ ChainOK /\ Good(round)
      /\ round[t] \in Rounds /\ Tried(round[t])
  BY DEF RoundInv, Good
<1>2. round[t].at \in 1..Len(chain) /\ Len(chain) \in Nat
  BY <1>1, ChainFacts DEF Rounds
<1>3. CASE round[t].at < Len(chain)
  <2> DEFINE r == [round[t] EXCEPT !.pc = "ready", !.at = @ + 1, !.try = 1]
  <2>1. r \in Rounds
    <3>1. round[t].at + 1 \in DOMAIN chain
      BY <1>1, <1>2, <1>3, ChainFacts
    <3> QED
      BY <1>1, <3>1, Bounds DEF Rounds, Phases
  <2>2. Tried(r)
    BY <1>1, <1>2 DEF Tried, Rounds
  <2>3. NextProvider(t) = [round EXCEPT ![t] = r]
    BY <1>3 DEF NextProvider
  <2> HIDE DEF r
  <2>4. Good([round EXCEPT ![t] = r])
    BY <1>1, <2>1, <2>2, GoodMove
  <2> QED
    BY <2>3, <2>4
<1>4. CASE ~(round[t].at < Len(chain))
  <2> DEFINE r == [round[t] EXCEPT !.pc = "exhausted"]
  <2>1. r \in Rounds
    BY <1>1 DEF Rounds, Phases
  <2>2. \A i \in 1..Len(chain) : chain[i] \in round[t].called
    BY <1>1, <1>2, <1>4 DEF Tried
  <2>3. Tried(r)
    BY <1>1, <2>2, ChainFacts DEF Tried, Rounds
  <2>4. NextProvider(t) = [round EXCEPT ![t] = r]
    BY <1>4 DEF NextProvider
  <2> HIDE DEF r
  <2>5. Good([round EXCEPT ![t] = r])
    BY <1>1, <2>1, <2>3, GoodMove
  <2> QED
    BY <2>4, <2>5
<1> QED
  BY <1>3, <1>4

LEMMA GoodRetry ==
  ASSUME RoundInv, NEW t \in Threads, round[t].pc = "calling"
  PROVE  Good(Retry(t))
<1>1. /\ ChainOK /\ Good(round)
      /\ round[t] \in Rounds /\ Tried(round[t])
  BY DEF RoundInv, Good
<1>2. CASE round[t].try < InTries
  <2> DEFINE r == [round[t] EXCEPT !.pc = "ready", !.try = @ + 1]
  <2>1. r \in Rounds
    <3>1. round[t].try \in 1..InTries
      BY <1>1 DEF Rounds
    <3>2. round[t].try + 1 \in 1..InTries
      BY <1>2, <3>1, Bounds
    <3> QED
      BY <1>1, <3>2 DEF Rounds, Phases
  <2>2. Tried(r)
    BY <1>1, ChainFacts DEF Tried, Rounds
  <2>3. Retry(t) = [round EXCEPT ![t] = r]
    BY <1>2 DEF Retry, NextTry
  <2> HIDE DEF r
  <2>4. Good([round EXCEPT ![t] = r])
    BY <1>1, <2>1, <2>2, GoodMove
  <2> QED
    BY <2>3, <2>4
<1>3. CASE ~(round[t].try < InTries)
  BY <1>3, GoodNextProvider DEF Retry
<1> QED
  BY <1>2, <1>3

LEMMA GoodStartCall ==
  ASSUME RoundInv, NEW t \in Threads, round[t].pc \in {"ready", "asleep"}, StartCall(t)
  PROVE  Good(round')
<1>1. /\ ChainOK /\ Good(round)
      /\ round[t] \in Rounds /\ Tried(round[t])
  BY DEF RoundInv, Good
<1> DEFINE r == [round[t] EXCEPT !.pc = "calling", !.waits = FALSE,
                                 !.called = @ \cup {chain[round[t].at]}]
<1>2. round[t].at \in 1..Len(chain) /\ Len(chain) \in Nat
  BY <1>1, ChainFacts DEF Rounds
<1>3. chain[round[t].at] \in Providers /\ chain[round[t].at] \in Range(chain)
  BY <1>1, <1>2, ChainFacts
<1>4. r \in Rounds
  BY <1>1, <1>3 DEF Rounds, Phases
<1>5. \A i \in 1..Len(chain) :
        i <= round[t].at => chain[i] \in round[t].called \cup {chain[round[t].at]}
  BY <1>1, <1>2 DEF Tried
<1>6. Tried(r)
  BY <1>1, <1>3, <1>5 DEF Tried, Rounds
<1>7. round' = [round EXCEPT ![t] = r]
  BY DEF StartCall, Provider
<1> HIDE DEF r
<1> QED
  BY <1>1, <1>4, <1>6, <1>7, GoodMove

LEMMA CooledSet ==
  ASSUME CooledOK, NEW p, NEW S \in SUBSET Threads, cooled' = [cooled EXCEPT ![p] = S]
  PROVE  CooledOK'
  BY DEF CooledOK

LEMMA RoundStep == RoundInv /\ [Next]_vars => RoundInv'
<1> SUFFICES ASSUME RoundInv, [Next]_vars PROVE RoundInv'
  OBVIOUS
<1>1. ChainOK /\ CooledOK /\ Good(round)
  BY DEF RoundInv
<1>2. ASSUME chain' = chain, CooledOK', Good(round')
      PROVE  RoundInv'
  BY <1>1, <1>2 DEF RoundInv, ChainOK, Good, Rounds, Tried
<1>3. ASSUME UNCHANGED <<chain, cooled>>, Good(round')
      PROVE  RoundInv'
  BY <1>1, <1>2, <1>3 DEF CooledOK
<1>4. ASSUME NEW t \in Threads, UNCHANGED <<chain, cooled>>,
             round' \in {[round EXCEPT ![t] = r] : r \in {AtRest, Start, Failed}}
      PROVE  RoundInv'
  BY <1>1, <1>3, <1>4, RestIsGood, GoodMove
<1>5. ASSUME NEW t \in Threads, Begin(t) \/ Permanent(t) \/ Exhausted(t) \/ Unusable(t)
      PROVE  RoundInv'
  BY <1>4, <1>5 DEF Begin, Permanent, Exhausted, Unusable
<1>6. ASSUME NEW t \in Threads, WaitIfBusy(t)
      PROVE  RoundInv'
  <2>1. CASE cooled[Provider(t)] = {}
    BY <1>3, <1>6, <2>1, GoodStartCall DEF WaitIfBusy
  <2>2. CASE cooled[Provider(t)] # {}
    <3> DEFINE r == [round[t] EXCEPT !.pc = "asleep", !.waits = TRUE]
    <3>1. round' = [round EXCEPT ![t] = r] /\ round[t].pc = "ready"
      BY <1>6, <2>2 DEF WaitIfBusy
    <3>2. round[t] \in Rounds /\ Tried(round[t])
      BY <1>1 DEF Good
    <3>3. r \in Rounds /\ Tried(r)
      BY <3>1, <3>2 DEF Rounds, Phases, Tried
    <3> HIDE DEF r
    <3>4. Good(round')
      BY <1>1, <3>1, <3>3, GoodMove
    <3> QED
      BY <1>3, <1>6, <3>4 DEF WaitIfBusy
  <2> QED
    BY <2>1, <2>2
<1>7. ASSUME NEW t \in Threads, Wake(t)
      PROVE  RoundInv'
  BY <1>3, <1>7, GoodStartCall DEF Wake
<1>8. ASSUME NEW t \in Threads, Refusal(t) \/ GivesWay(t)
      PROVE  RoundInv'
  BY <1>3, <1>8, GoodRetry, GoodNextProvider DEF Refusal, GivesWay
<1>9. ASSUME NEW t \in Threads, Overloaded(t)
      PROVE  RoundInv'
  <2>1. chain' = chain /\ round' = Released(Provider(t), Retry(t))
    BY <1>9 DEF Overloaded
  <2>2. Good(Retry(t))
    BY <1>9, GoodRetry DEF Overloaded
  <2>3. Good(round')
    BY <2>1, <2>2, GoodReleased
  <2>4. CooledOK'
    BY <1>1, <1>9, CooledSet DEF Overloaded
  <2> QED
    BY <1>2, <2>1, <2>3, <2>4
<1>10. ASSUME NEW t \in Threads, Text(t)
       PROVE  RoundInv'
  <2> DEFINE moved == [round EXCEPT ![t] = [AtRest EXCEPT !.pc = "text"]]
  <2>1. chain' = chain /\ round' = Released(Provider(t), moved)
    BY <1>10 DEF Text
  <2>2. Good(moved)
    BY <1>1, AtRestIsGood, GoodMove
  <2> HIDE DEF moved
  <2>3. Good(round')
    BY <2>1, <2>2, GoodReleased
  <2>4. CooledOK'
    <3>1. cooled' = [cooled EXCEPT ![Provider(t)] = {}]
      BY <1>10 DEF Text
    <3>2. {} \in SUBSET Threads
      OBVIOUS
    <3> QED
      BY <1>1, <3>1, <3>2, CooledSet
  <2> QED
    BY <1>2, <2>1, <2>3, <2>4
<1>11. ASSUME NEW p \in Providers, CooldownEnds(p)
       PROVE  RoundInv'
  <2>1. CooledOK'
    BY <1>1, <1>11, CooledSet DEF CooldownEnds
  <2> QED
    BY <1>1, <1>2, <1>11, <2>1, GoodReleased DEF CooldownEnds
<1>12. ASSUME NEW t \in Threads, NEW results, Settle(t, results), UNCHANGED <<chain, cooled>>
       PROVE  RoundInv'
  BY <1>4, <1>12 DEF Settle
<1>13. ASSUME NEW t \in Threads, Parsed(t)
       PROVE  RoundInv'
  <2>1. (\E results : Settle(t, results)) /\ UNCHANGED <<chain, cooled>>
    BY <1>13 DEF Parsed
  <2> QED
    BY <1>12, <2>1
<1>14. ASSUME NEW t \in Threads, AttemptFailed(t)
       PROVE  RoundInv'
  <2>1. /\ \/ \E results : Settle(t, results)
           \/ round' = [round EXCEPT ![t] = Start]
        /\ UNCHANGED <<chain, cooled>>
    BY <1>14 DEF AttemptFailed
  <2> QED
    BY <1>4, <1>12, <2>1
<1>15. ASSUME NEW t \in Threads, Return(t)
       PROVE  RoundInv'
  BY <1>1, <1>3, <1>15 DEF Return
<1>16. CASE UNCHANGED vars
  BY <1>1, <1>3, <1>16 DEF vars
<1> QED
  BY <1>5, <1>6, <1>7, <1>8, <1>9, <1>10, <1>11, <1>13, <1>14, <1>15, <1>16, NextCases

LEMMA RoundInit == Init => RoundInv
<1> SUFFICES ASSUME Init PROVE RoundInv
  OBVIOUS
<1>1. ChainOK
  BY ChainInit DEF ChainOK
<1>2. Good(round)
  BY <1>1, RestIsGood DEF Init, Good
<1>3. CooledOK
  BY DEF Init, CooledOK
<1> QED
  BY <1>1, <1>2, <1>3 DEF RoundInv

LEMMA RoundAlways == Spec => []RoundInv
  BY RoundInit, RoundStep, PTL DEF Spec

\* A thread is told that no provider answered only after it has called every
\* provider of the chain in that round, however its tries ended.
THEOREM NobodyLeftOut == Spec => []GivesUpAfterAll
<1>1. RoundInv => GivesUpAfterAll
  BY DEF RoundInv, Good, Tried, GivesUpAfterAll
<1> QED
  BY <1>1, RoundAlways, PTL

-----------------------------------------------------------------------------
(* Cool-downs. The action property needs to know of a sleeper that it does *)
(* not wake while the cool-down in force is its own.                       *)

SleepsItOut ==
  \A t \in Threads : round[t].pc = "asleep" /\ t \in cooled[Provider(t)] => round[t].waits

LEMMA ReleasedPcs ==
  ASSUME NEW rounds, NEW p, NEW t \in Threads, rounds[t] \in Rounds
  PROVE  /\ Released(p, rounds)[t].pc = rounds[t].pc
         /\ Released(p, rounds)[t].at = rounds[t].at
         /\ chain[rounds[t].at] # p => Released(p, rounds)[t] = rounds[t]
  BY DEF Released, Rounds

LEMMA NextPc ==
  ASSUME RoundInv, NEW t \in Threads, NEW next, next \in {Retry(t), NextProvider(t)}
  PROVE  /\ next[t].pc # "asleep" /\ next[t].pc # "calling"
         /\ \A u \in Threads \ {t} : next[u] = round[u]
  BY DEF RoundInv, Good, Rounds, Retry, NextTry, NextProvider

\* The step is one of thread t, and it does not fall asleep.
LEMMA NoSleeper ==
  ASSUME SleepsItOut, UNCHANGED <<chain, cooled>>, NEW t \in Threads, round'[t].pc # "asleep",
         \A u \in Threads \ {t} : round'[u] = round[u]
  PROVE  SleepsItOut'
  BY DEF SleepsItOut, Provider

LEMMA SleepStep == RoundInv /\ SleepsItOut /\ [Next]_vars => SleepsItOut'
<1> SUFFICES ASSUME RoundInv, SleepsItOut, [Next]_vars PROVE SleepsItOut'
  OBVIOUS
<1>1. /\ round \in [Threads -> Rounds] /\ cooled \in [Providers -> SUBSET Threads]
      /\ \A t \in Threads : round[t] \in Rounds /\ Provider(t) \in Providers
  BY ChainFacts DEF RoundInv, CooledOK, Good, Rounds, Provider
<1>2. ASSUME NEW t \in Threads, UNCHANGED <<chain, cooled>>,
             NEW r, r.pc # "asleep", round' = [round EXCEPT ![t] = r]
      PROVE  SleepsItOut'
  BY <1>1, <1>2, NoSleeper
<1>3. ASSUME NEW t \in Threads, UNCHANGED <<chain, cooled>>,
             round' \in {[round EXCEPT ![t] = r] : r \in {AtRest, Start, Failed}}
      PROVE  SleepsItOut'
  BY <1>2, <1>3 DEF AtRest, Start, Failed
<1>4. ASSUME NEW t \in Threads, Begin(t) \/ Permanent(t) \/ Exhausted(t) \/ Unusable(t)
      PROVE  SleepsItOut'
  BY <1>3, <1>4 DEF Begin, Permanent, Exhausted, Unusable
<1>5. ASSUME NEW t \in Threads, StartCall(t), UNCHANGED <<chain, cooled>>
      PROVE  SleepsItOut'
  <2> DEFINE r == [round[t] EXCEPT !.pc = "calling", !.waits = FALSE,
                                   !.called = @ \cup {Provider(t)}]
  <2>1. round' = [round EXCEPT ![t] = r]
    BY <1>5 DEF StartCall
  <2>2. r.pc # "asleep"
    BY <1>1 DEF Rounds
  <2> HIDE DEF r
  <2> QED
    BY <1>2, <1>5, <2>1, <2>2
<1>6. ASSUME NEW t \in Threads, WaitIfBusy(t)
      PROVE  SleepsItOut'
  <2>1. CASE cooled[Provider(t)] = {}
    BY <1>5, <1>6, <2>1 DEF WaitIfBusy
  <2>2. CASE cooled[Provider(t)] # {}
    <3>1. /\ round' = [round EXCEPT ![t] = [round[t] EXCEPT !.pc = "asleep", !.waits = TRUE]]
          /\ UNCHANGED <<chain, cooled>>
      BY <1>6, <2>2 DEF WaitIfBusy
    <3>2. round'[t].waits = TRUE /\ \A u \in Threads \ {t} : round'[u] = round[u]
      BY <1>1, <3>1 DEF Rounds
    <3> QED
      BY <3>1, <3>2 DEF SleepsItOut, Provider
  <2> QED
    BY <2>1, <2>2
<1>7. ASSUME NEW t \in Threads, Wake(t)
      PROVE  SleepsItOut'
  BY <1>5, <1>7 DEF Wake
<1>8. ASSUME NEW t \in Threads, Refusal(t) \/ GivesWay(t)
      PROVE  SleepsItOut'
  BY <1>8, NextPc, NoSleeper DEF Refusal, GivesWay
<1>9. ASSUME NEW t \in Threads, NEW p \in Providers, NEW S, NEW next,
             chain' = chain, cooled' = [cooled EXCEPT ![p] = S], S \subseteq {t},
             round' = Released(p, next), \A u \in Threads : next[u] \in Rounds,
             next[t].pc # "asleep", \A u \in Threads \ {t} : next[u] = round[u]
      PROVE  SleepsItOut'
  <2> SUFFICES ASSUME NEW u \in Threads, round'[u].pc = "asleep", u \in cooled'[Provider(u)']
               PROVE  round'[u].waits
    BY DEF SleepsItOut
  <2>1. round'[u].pc = next[u].pc /\ round'[u].at = next[u].at
    BY <1>9, ReleasedPcs
  <2>2. u # t /\ next[u] = round[u]
    BY <1>9, <2>1
  <2>3. Provider(u)' = Provider(u)
    BY <1>9, <2>1, <2>2 DEF Provider
  <2>4. Provider(u) # p
    BY <1>1, <1>9, <2>2, <2>3
  <2>5. u \in cooled[Provider(u)]
    BY <1>1, <1>9, <2>3, <2>4
  <2>6. round'[u] = round[u]
    BY <1>9, <2>2, <2>4, ReleasedPcs DEF Provider
  <2> QED
    BY <2>5, <2>6 DEF SleepsItOut
<1>10. ASSUME NEW t \in Threads, Overloaded(t)
       PROVE  SleepsItOut'
  <2>1. Good(Retry(t))
    BY <1>10, GoodRetry DEF Overloaded
  <2>2. \A u \in Threads : Retry(t)[u] \in Rounds
    BY <2>1 DEF Good
  <2>3. Retry(t)[t].pc # "asleep" /\ \A u \in Threads \ {t} : Retry(t)[u] = round[u]
    BY NextPc
  <2> QED
    BY <1>1, <1>9, <1>10, <2>2, <2>3 DEF Overloaded
<1>11. ASSUME NEW t \in Threads, Text(t)
       PROVE  SleepsItOut'
  <2> DEFINE next == [round EXCEPT ![t] = [AtRest EXCEPT !.pc = "text"]]
  <2>1. Good(next)
    BY AtRestIsGood, GoodMove DEF RoundInv
  <2>2. \A u \in Threads : next[u] \in Rounds
    BY <2>1 DEF Good
  <2>3. next[t].pc # "asleep" /\ \A u \in Threads \ {t} : next[u] = round[u]
    BY <1>1 DEF AtRest
  <2>4. PICK S : S = {}
    OBVIOUS
  <2>5. /\ chain' = chain /\ cooled' = [cooled EXCEPT ![Provider(t)] = S]
        /\ round' = Released(Provider(t), next)
    BY <1>11, <2>4 DEF Text
  <2> HIDE DEF next
  <2>6. S \subseteq {t} /\ Provider(t) \in Providers
    BY <1>1, <2>4
  <2> QED
    BY <1>9, <2>2, <2>3, <2>5, <2>6
<1>12. ASSUME NEW p \in Providers, CooldownEnds(p)
       PROVE  SleepsItOut'
  <2> SUFFICES ASSUME NEW u \in Threads, round'[u].pc = "asleep", u \in cooled'[Provider(u)']
               PROVE  round'[u].waits
    BY DEF SleepsItOut
  <2>1. round'[u].pc = round[u].pc /\ round'[u].at = round[u].at
    BY <1>1, <1>12, ReleasedPcs DEF CooldownEnds
  <2>2. Provider(u)' = Provider(u)
    BY <1>12, <2>1 DEF Provider, CooldownEnds
  <2>3. Provider(u) # p /\ u \in cooled[Provider(u)]
    BY <1>1, <1>12, <2>2 DEF CooldownEnds
  <2>4. round'[u] = round[u]
    BY <1>1, <1>12, <2>3, ReleasedPcs DEF Provider, CooldownEnds
  <2> QED
    BY <2>3, <2>4 DEF SleepsItOut
<1>13. ASSUME NEW t \in Threads, NEW results, Settle(t, results), UNCHANGED <<chain, cooled>>
       PROVE  SleepsItOut'
  BY <1>3, <1>13 DEF Settle
<1>14. ASSUME NEW t \in Threads, Parsed(t)
       PROVE  SleepsItOut'
  <2>1. (\E results : Settle(t, results)) /\ UNCHANGED <<chain, cooled>>
    BY <1>14 DEF Parsed
  <2> QED
    BY <1>13, <2>1
<1>15. ASSUME NEW t \in Threads, AttemptFailed(t)
       PROVE  SleepsItOut'
  <2>1. /\ \/ \E results : Settle(t, results)
           \/ round' = [round EXCEPT ![t] = Start]
        /\ UNCHANGED <<chain, cooled>>
    BY <1>15 DEF AttemptFailed
  <2> QED
    BY <1>3, <1>13, <2>1
<1>16. ASSUME UNCHANGED <<chain, cooled, round>>
       PROVE  SleepsItOut'
  BY <1>16 DEF SleepsItOut, Provider
<1>17. ASSUME NEW t \in Threads, Return(t)
       PROVE  SleepsItOut'
  BY <1>16, <1>17 DEF Return
<1>18. CASE UNCHANGED vars
  BY <1>16, <1>18 DEF vars
<1> QED
  BY <1>4, <1>6, <1>7, <1>8, <1>10, <1>11, <1>12, <1>14, <1>15, <1>17, <1>18, NextCases

\* A thread calls a provider only when no cool-down of its own is in force.
LEMMA CallsWhenCool ==
  ASSUME RoundInv, SleepsItOut, [Next]_vars, NEW t \in Threads,
         round[t].pc # "calling", round'[t].pc = "calling"
  PROVE  t \notin cooled[Provider(t)]
<1>1. /\ round \in [Threads -> Rounds]
      /\ \A u \in Threads : round[u] \in Rounds
  BY DEF RoundInv, Good
<1>2. CASE WaitIfBusy(t)
  <2>1. CASE cooled[Provider(t)] = {}
    BY <2>1
  <2>2. CASE cooled[Provider(t)] # {}
    <3>1. round' = [round EXCEPT ![t] = [round[t] EXCEPT !.pc = "asleep", !.waits = TRUE]]
      BY <1>2, <2>2 DEF WaitIfBusy
    <3> QED
      BY <1>1, <3>1 DEF Rounds
  <2> QED
    BY <2>1, <2>2
<1>3. CASE Wake(t)
  BY <1>3 DEF Wake, SleepsItOut
<1>4. ASSUME NEW u \in Threads, u # t, WaitIfBusy(u) \/ Wake(u)
      PROVE  FALSE
  BY <1>1, <1>4 DEF WaitIfBusy, Wake, StartCall
<1>5. ASSUME NEW u \in Threads, NEW r, r.pc # "calling", round' = [round EXCEPT ![u] = r]
      PROVE  FALSE
  BY <1>1, <1>5
<1>6. ASSUME NEW u \in Threads, round' \in {[round EXCEPT ![u] = r] : r \in {AtRest, Start, Failed}}
      PROVE  FALSE
  BY <1>5, <1>6 DEF AtRest, Start, Failed
<1>7. ASSUME NEW u \in Threads, Begin(u) \/ Permanent(u) \/ Exhausted(u) \/ Unusable(u)
      PROVE  FALSE
  BY <1>6, <1>7 DEF Begin, Permanent, Exhausted, Unusable
<1>8. ASSUME NEW u \in Threads, Refusal(u) \/ GivesWay(u)
      PROVE  FALSE
  BY <1>8, NextPc DEF Refusal, GivesWay
<1>9. ASSUME NEW p, NEW next, round' = Released(p, next), next[t] \in Rounds,
             next[t].pc # "calling"
      PROVE  FALSE
  BY <1>9, ReleasedPcs
<1>10. ASSUME NEW u \in Threads, Overloaded(u)
       PROVE  FALSE
  <2>1. Good(Retry(u)) /\ round' = Released(Provider(u), Retry(u))
    BY <1>10, GoodRetry DEF Overloaded
  <2>2. Retry(u)[t] \in Rounds /\ Retry(u)[t].pc # "calling"
    BY <2>1, NextPc DEF Good
  <2> QED
    BY <1>9, <2>1, <2>2
<1>11. ASSUME NEW u \in Threads, Text(u)
       PROVE  FALSE
  <2> DEFINE next == [round EXCEPT ![u] = [AtRest EXCEPT !.pc = "text"]]
  <2>1. Good(next) /\ round' = Released(Provider(u), next)
    BY <1>11, AtRestIsGood, GoodMove DEF RoundInv, Text
  <2>2. next[t] \in Rounds /\ next[t].pc # "calling"
    BY <1>1, <2>1 DEF Good, AtRest
  <2> HIDE DEF next
  <2> QED
    BY <1>9, <2>1, <2>2
<1>12. ASSUME NEW p \in Providers, CooldownEnds(p)
       PROVE  FALSE
  BY <1>1, <1>9, <1>12 DEF CooldownEnds
<1>13. ASSUME NEW u \in Threads, Parsed(u)
       PROVE  FALSE
  BY <1>6, <1>13 DEF Parsed, Settle
<1>14. ASSUME NEW u \in Threads, AttemptFailed(u)
       PROVE  FALSE
  BY <1>6, <1>14 DEF AttemptFailed, Settle
<1>15. ASSUME NEW u \in Threads, Return(u)
       PROVE  FALSE
  BY <1>15 DEF Return
<1>16. ASSUME UNCHANGED vars
       PROVE  FALSE
  BY <1>16 DEF vars
<1> QED
  BY <1>2, <1>3, <1>4, <1>7, <1>8, <1>10, <1>11, <1>12, <1>13, <1>14, <1>15, <1>16, NextCases

\* No thread calls a provider while a cool-down of its own is in force there,
\* whatever the other threads set, lift and wait for in between.
THEOREM CooldownsHonoured == Spec => OwnCooldownHonoured
<1>1. Init => SleepsItOut
  BY DEF Init, SleepsItOut, AtRest
<1>2. RoundInv /\ SleepsItOut /\ [Next]_vars =>
        [\A t \in Threads : round[t].pc # "calling" /\ round'[t].pc = "calling"
                              => t \notin cooled[Provider(t)]]_vars
  BY CallsWhenCool
<1> QED
  BY <1>1, <1>2, SleepStep, RoundAlways, PTL DEF Spec, OwnCooldownHonoured

-----------------------------------------------------------------------------
(* The calls. With the link between a thread's round and its results the   *)
(* types follow, and each step is one of the contract's.                   *)

JobSet == [kind : Methods \cup {"none"}, size : 0..BatchSize, whole : BOOLEAN,
           attempt : 0..MaxRetries, results : Seq(0..BatchSize)]

\* The results so far are aligned; while a batch is asked for as a whole there
\* are none.
JobGood(j) ==
  /\ j.kind = "none" => j = Idle
  /\ j.kind # "none" => j.size > 0
  /\ Len(j.results) <= j.size
  /\ j.whole /\ Len(j.results) < j.size => j.results = <<>>
  /\ \A i \in 1..Len(j.results) : j.results[i] \in {Nothing, i}

\* A thread is in a round as long as its call has results to come.
Linked(j, r) == r.pc = "rest" <=> Len(j.results) = j.size

JobInv ==
  /\ job \in [Threads -> JobSet]
  /\ \A t \in Threads : JobGood(job[t]) /\ Linked(job[t], round[t])

LEMMA IdleIsGood == Idle \in JobSet /\ JobGood(Idle)
<1>1. <<>> \in Seq(0..BatchSize) /\ Len(<<>>) = 0
  BY EmptySeq
<1> QED
  BY <1>1, Bounds DEF Idle, JobSet, JobGood

LEMMA InvIsTyped == RoundInv /\ JobInv => TypeOK
<1> SUFFICES ASSUME RoundInv, JobInv PROVE TypeOK
  OBVIOUS
<1>1. \A t \in Threads : job[t] \in JobSet /\ JobGood(job[t])
  BY DEF JobInv
<1>2. ChainOK /\ CooledOK /\ round \in [Threads -> Rounds]
  BY DEF RoundInv, Good
<1> QED
  BY <1>1, <1>2 DEF TypeOK, ChainOK, CooledOK, Rounds, Phases, JobSet, JobGood

\* The two ways in which a call gets results: a whole batch, or one more.
LEMMA AssembledIsAligned ==
  ASSUME NEW n \in 0..BatchSize, NEW answer
  PROVE  /\ Assembled(n, answer) \in Seq(0..BatchSize)
         /\ Len(Assembled(n, answer)) = n
         /\ \A i \in 1..n : Assembled(n, answer)[i] \in {Nothing, i}
<1>1. n \in Nat /\ \A i \in 1..n : i \in 0..BatchSize /\ Nothing \in 0..BatchSize
  BY Bounds DEF Nothing
<1>2. Assembled(n, answer) \in [1..n -> 0..BatchSize]
  BY <1>1 DEF Assembled
<1>3. Assembled(n, answer) \in Seq(0..BatchSize)
  BY <1>1, <1>2, SeqDef
<1>4. DOMAIN Assembled(n, answer) = 1..n
  BY DEF Assembled
<1>5. Len(Assembled(n, answer)) = n
  BY <1>1, <1>3, <1>4, LenProperties
<1>6. \A i \in 1..n : Assembled(n, answer)[i] \in {Nothing, i}
  BY DEF Assembled
<1> QED
  BY <1>3, <1>5, <1>6

LEMMA AppendedIsAligned ==
  ASSUME NEW n \in 0..BatchSize, NEW s \in Seq(0..BatchSize), Len(s) < n,
         \A i \in 1..Len(s) : s[i] \in {Nothing, i}, NEW e \in {Nothing, Len(s) + 1}
  PROVE  /\ Append(s, e) \in Seq(0..BatchSize)
         /\ Len(Append(s, e)) = Len(s) + 1
         /\ \A i \in 1..Len(s) + 1 : Append(s, e)[i] \in {Nothing, i}
         /\ \A i \in 1..Len(s) : Append(s, e)[i] = s[i]
<1>1. Len(s) \in Nat
  BY LenProperties
<1>2. e \in 0..BatchSize
  BY <1>1, Bounds DEF Nothing
<1> QED
  BY <1>1, <1>2, AppendProperties

\* The results that a call may have next.
Extends(t, results) ==
  /\ job[t].kind # "none"
  /\ results \in Seq(0..BatchSize)
  /\ Len(job[t].results) < Len(results) /\ Len(results) <= job[t].size
  /\ \A i \in 1..Len(results) : results[i] \in {Nothing, i}
  /\ \A i \in 1..Len(job[t].results) : results[i] = job[t].results[i]
  /\ job[t].whole => Len(results) = job[t].size

LEMMA InCall ==
  ASSUME JobInv, NEW t \in Threads, round[t].pc # "rest"
  PROVE  /\ job[t] \in JobSet /\ JobGood(job[t])
         /\ job[t].kind # "none" /\ Len(job[t].results) < job[t].size
         /\ Len(job[t].results) \in Nat /\ job[t].size \in 0..BatchSize
<1>1. job[t] \in JobSet /\ JobGood(job[t]) /\ Len(job[t].results) # job[t].size
  BY DEF JobInv, Linked
<1>2. Len(job[t].results) \in Nat /\ job[t].size \in 0..BatchSize
  BY <1>1, LenProperties DEF JobSet
<1>3. Len(Idle.results) = Idle.size
  BY EmptySeq DEF Idle
<1> QED
  BY <1>1, <1>2, <1>3 DEF JobGood

LEMMA ParsedSettles ==
  ASSUME JobInv, NEW t \in Threads, Parsed(t)
  PROVE  \E results : Settle(t, results) /\ Extends(t, results)
<1>1. round[t].pc # "rest"
  BY DEF Parsed
<1>2. /\ job[t] \in JobSet /\ JobGood(job[t]) /\ job[t].kind # "none"
      /\ Len(job[t].results) < job[t].size
      /\ Len(job[t].results) \in Nat /\ job[t].size \in 0..BatchSize
  BY <1>1, InCall
<1>3. CASE job[t].whole
  <2>1. PICK answer : Settle(t, Assembled(job[t].size, answer))
    BY <1>3 DEF Parsed
  <2>2. job[t].results = <<>> /\ Len(job[t].results) = 0
    BY <1>2, <1>3, EmptySeq DEF JobGood
  <2>3. Extends(t, Assembled(job[t].size, answer))
    BY <1>2, <2>2, AssembledIsAligned DEF Extends
  <2> QED
    BY <2>1, <2>3
<1>4. CASE ~job[t].whole
  <2> DEFINE e == Len(job[t].results) + 1
  <2>1. Settle(t, Append(job[t].results, e))
    BY <1>4 DEF Parsed
  <2>2. job[t].results \in Seq(0..BatchSize) /\ e \in {Nothing, Len(job[t].results) + 1}
    BY <1>2 DEF JobSet
  <2>3. Extends(t, Append(job[t].results, e))
    BY <1>2, <1>4, <2>2, AppendedIsAligned DEF Extends, JobGood
  <2> QED
    BY <2>1, <2>3
<1> QED
  BY <1>3, <1>4

LEMMA FailedSettles ==
  ASSUME JobInv, NEW t \in Threads, round[t].pc = "failed", ~job[t].whole
  PROVE  Extends(t, Append(job[t].results, Nothing))
<1>1. /\ job[t] \in JobSet /\ JobGood(job[t]) /\ job[t].kind # "none"
      /\ Len(job[t].results) < job[t].size
      /\ Len(job[t].results) \in Nat /\ job[t].size \in 0..BatchSize
  BY InCall
<1>2. job[t].results \in Seq(0..BatchSize)
  BY <1>1 DEF JobSet
<1> QED
  BY <1>1, <1>2, AppendedIsAligned DEF Extends, JobGood

\* Which steps change a job, and how.
LEMMA JobMoves ==
  ASSUME JobInv, NEW t \in Threads, NEW j \in JobSet, JobGood(j),
         job' = [job EXCEPT ![t] = j], Linked(j, round'[t]),
         \A u \in Threads \ {t} : round'[u] = round[u]
  PROVE  JobInv'
<1>1. job' \in [Threads -> JobSet] /\ job'[t] = j /\ \A u \in Threads \ {t} : job'[u] = job[u]
  BY DEF JobInv
<1> QED
  BY <1>1 DEF JobInv

LEMMA SettleGood ==
  ASSUME RoundInv, JobInv, NEW t \in Threads, NEW results, Settle(t, results), Extends(t, results)
  PROVE  JobInv'
<1> DEFINE j == [job[t] EXCEPT !.results = results, !.attempt = 1]
<1>1. job[t] \in JobSet /\ JobGood(job[t])
  BY DEF JobInv
<1>2. j \in JobSet
  <2>1. 1 \in 0..MaxRetries /\ results \in Seq(0..BatchSize)
    BY Bounds DEF Extends
  <2> QED
    BY <1>1, <2>1 DEF JobSet
<1>3. Len(results) \in Nat /\ job[t].size \in 0..BatchSize
  BY <1>1, LenProperties DEF Extends, JobSet
<1>4. JobGood(j)
  BY <1>1, <1>3 DEF JobGood, JobSet, Extends
<1>5. round'[t] = (IF Len(results) = job[t].size THEN AtRest ELSE Start)
      /\ \A u \in Threads \ {t} : round'[u] = round[u]
  BY DEF Settle, RoundInv, Good
<1>6. Linked(j, round'[t])
  BY <1>1, <1>5 DEF Linked, AtRest, Start, JobSet
<1>7. job' = [job EXCEPT ![t] = j]
  BY DEF Settle
<1> HIDE DEF j
<1> QED
  BY <1>2, <1>4, <1>5, <1>6, <1>7, JobMoves

LEMMA JobStep == RoundInv /\ JobInv /\ [Next]_vars => JobInv'
<1> SUFFICES ASSUME RoundInv, JobInv, [Next]_vars PROVE JobInv'
  OBVIOUS
<1>1. /\ round \in [Threads -> Rounds] /\ \A t \in Threads : round[t] \in Rounds
      /\ \A t \in Threads : job[t] \in JobSet /\ JobGood(job[t]) /\ Linked(job[t], round[t])
  BY DEF RoundInv, Good, JobInv
<1>2. ASSUME job' = job,
             \A u \in Threads : round'[u].pc = "rest" <=> round[u].pc = "rest"
      PROVE  JobInv'
  BY <1>1, <1>2 DEF JobInv, Linked
<1>3. ASSUME NEW t \in Threads, NEW r, round[t].pc # "rest", r.pc # "rest", job' = job,
             round' = [round EXCEPT ![t] = r]
      PROVE  JobInv'
  BY <1>1, <1>2, <1>3
<1>4. ASSUME NEW t \in Threads, Begin(t)
      PROVE  JobInv'
  <2>1. PICK kind \in Calls[t], n \in 1..BatchSize :
          job' = [job EXCEPT ![t] = [kind |-> kind, size |-> n, whole |-> kind = "batch",
                                     attempt |-> 1, results |-> <<>>]]
    BY <1>4 DEF Begin
  <2> DEFINE j == [kind |-> kind, size |-> n, whole |-> kind = "batch",
                   attempt |-> 1, results |-> <<>>]
  <2>2. <<>> \in Seq(0..BatchSize) /\ Len(<<>>) = 0
    BY EmptySeq
  <2>3. kind \in Methods /\ kind # "none"
    BY LLMAssumption DEF Methods
  <2>4. j \in JobSet
    BY <2>2, <2>3, Bounds DEF JobSet
  <2>5. JobGood(j)
    BY <2>2, <2>3, Bounds DEF JobGood
  <2>6. round' = [round EXCEPT ![t] = Start]
    BY <1>4 DEF Begin
  <2>7. Linked(j, round'[t]) /\ \A u \in Threads \ {t} : round'[u] = round[u]
    BY <1>1, <2>2, <2>6 DEF Linked, Start, AtRest
  <2>8. job' = [job EXCEPT ![t] = j]
    BY <2>1
  <2> HIDE DEF j
  <2> QED
    BY <2>4, <2>5, <2>7, <2>8, JobMoves
<1>5. ASSUME NEW t \in Threads, Permanent(t) \/ Exhausted(t) \/ Unusable(t)
      PROVE  JobInv'
  <2>1. job' = job /\ round' = [round EXCEPT ![t] = Failed] /\ round[t].pc # "rest"
    BY <1>5 DEF Permanent, Exhausted, Unusable
  <2> QED
    BY <1>3, <2>1 DEF Failed, AtRest
<1>6. ASSUME NEW t \in Threads, StartCall(t), round[t].pc # "rest", job' = job
      PROVE  JobInv'
  <2> DEFINE r == [round[t] EXCEPT !.pc = "calling", !.waits = FALSE,
                                   !.called = @ \cup {Provider(t)}]
  <2>1. round' = [round EXCEPT ![t] = r]
    BY <1>6 DEF StartCall
  <2>2. r.pc # "rest"
    BY <1>1 DEF Rounds
  <2> HIDE DEF r
  <2> QED
    BY <1>3, <1>6, <2>1, <2>2
<1>7. ASSUME NEW t \in Threads, WaitIfBusy(t)
      PROVE  JobInv'
  <2>1. CASE cooled[Provider(t)] = {}
    BY <1>6, <1>7, <2>1 DEF WaitIfBusy
  <2>2. CASE cooled[Provider(t)] # {}
    <3> DEFINE r == [round[t] EXCEPT !.pc = "asleep", !.waits = TRUE]
    <3>1. round' = [round EXCEPT ![t] = r] /\ round[t].pc # "rest" /\ job' = job
      BY <1>7, <2>2 DEF WaitIfBusy
    <3>2. r.pc # "rest"
      BY <1>1 DEF Rounds
    <3> HIDE DEF r
    <3> QED
      BY <1>3, <3>1, <3>2
  <2> QED
    BY <2>1, <2>2
<1>8. ASSUME NEW t \in Threads, Wake(t)
      PROVE  JobInv'
  BY <1>6, <1>8 DEF Wake
<1>9. ASSUME NEW t \in Threads, NEW next \in {Retry(t), NextProvider(t)}, round[t].pc = "calling"
      PROVE  \A u \in Threads : next[u].pc = "rest" <=> round[u].pc = "rest"
  BY <1>1, <1>9 DEF Retry, NextTry, NextProvider, Rounds
<1>10. ASSUME NEW t \in Threads, Refusal(t) \/ GivesWay(t)
       PROVE  JobInv'
  BY <1>2, <1>9, <1>10 DEF Refusal, GivesWay
<1>11. ASSUME NEW p, NEW next, job' = job, round' = Released(p, next),
              \A u \in Threads : next[u] \in Rounds,
              \A u \in Threads : next[u].pc = "rest" <=> round[u].pc = "rest"
       PROVE  JobInv'
  BY <1>2, <1>11, ReleasedPcs
<1>12. ASSUME NEW t \in Threads, Overloaded(t)
       PROVE  JobInv'
  <2>1. /\ Good(Retry(t)) /\ round' = Released(Provider(t), Retry(t)) /\ job' = job
        /\ round[t].pc = "calling"
    BY <1>12, GoodRetry DEF Overloaded
  <2>2. \A u \in Threads : Retry(t)[u] \in Rounds
    BY <2>1 DEF Good
  <2> QED
    BY <1>9, <1>11, <2>1, <2>2
<1>13. ASSUME NEW t \in Threads, Text(t)
       PROVE  JobInv'
  <2> DEFINE next == [round EXCEPT ![t] = [AtRest EXCEPT !.pc = "text"]]
  <2>1. Good(next) /\ round' = Released(Provider(t), next) /\ job' = job
    BY <1>13, AtRestIsGood, GoodMove DEF RoundInv, Text
  <2>2. \A u \in Threads : next[u] \in Rounds
    BY <2>1 DEF Good
  <2>3. \A u \in Threads : next[u].pc = "rest" <=> round[u].pc = "rest"
    BY <1>1, <1>13 DEF AtRest, Text
  <2> HIDE DEF next
  <2> QED
    BY <1>11, <2>1, <2>2, <2>3
<1>14. ASSUME NEW p \in Providers, CooldownEnds(p)
       PROVE  JobInv'
  BY <1>1, <1>11, <1>14 DEF CooldownEnds
<1>15. ASSUME NEW t \in Threads, Parsed(t)
       PROVE  JobInv'
  BY <1>15, ParsedSettles, SettleGood
<1>16. ASSUME NEW t \in Threads, AttemptFailed(t)
       PROVE  JobInv'
  <2>1. ASSUME NEW j, j \in JobSet, JobGood(j), job' = [job EXCEPT ![t] = j],
               round' = [round EXCEPT ![t] = Start], Len(j.results) < j.size
        PROVE  JobInv'
    <3>1. Len(j.results) # j.size
      BY <2>1, LenProperties DEF JobSet
    <3>2. Linked(j, round'[t]) /\ \A u \in Threads \ {t} : round'[u] = round[u]
      BY <1>1, <2>1, <3>1 DEF Linked, Start, AtRest
    <3> QED
      BY <2>1, <3>2, JobMoves
  <2>2. /\ job[t].kind # "none" /\ Len(job[t].results) < job[t].size
        /\ job[t].attempt \in 0..MaxRetries
    BY <1>1, <1>16, InCall DEF AttemptFailed, JobSet
  <2>3. CASE job[t].attempt < MaxRetries /\ job[t].kind # "text"
    <3> DEFINE j == [job[t] EXCEPT !.attempt = @ + 1]
    <3>1. j \in JobSet
      <4>1. job[t].attempt + 1 \in 0..MaxRetries
        BY <2>2, <2>3, Bounds
      <4> QED
        BY <1>1, <4>1 DEF JobSet
    <3>2. JobGood(j) /\ Len(j.results) < j.size
      BY <1>1, <2>2 DEF JobGood, JobSet
    <3>3. job' = [job EXCEPT ![t] = j] /\ round' = [round EXCEPT ![t] = Start]
      BY <1>16, <2>3 DEF AttemptFailed
    <3> HIDE DEF j
    <3> QED
      BY <2>1, <3>1, <3>2, <3>3
  <2>4. CASE ~(job[t].attempt < MaxRetries /\ job[t].kind # "text") /\ job[t].whole
    <3> DEFINE j == [job[t] EXCEPT !.whole = FALSE, !.attempt = 1]
    <3>1. j \in JobSet
      <4>1. 1 \in 0..MaxRetries
        BY Bounds
      <4> QED
        BY <1>1, <4>1 DEF JobSet
    <3>2. JobGood(j) /\ Len(j.results) < j.size
      BY <1>1, <2>2 DEF JobGood, JobSet
    <3>3. job' = [job EXCEPT ![t] = j] /\ round' = [round EXCEPT ![t] = Start]
      BY <1>16, <2>4 DEF AttemptFailed
    <3> HIDE DEF j
    <3> QED
      BY <2>1, <3>1, <3>2, <3>3
  <2>5. CASE ~(job[t].attempt < MaxRetries /\ job[t].kind # "text") /\ ~job[t].whole
    <3>1. Settle(t, Append(job[t].results, Nothing)) /\ round[t].pc = "failed"
      BY <1>16, <2>5 DEF AttemptFailed
    <3> QED
      BY <2>5, <3>1, FailedSettles, SettleGood
  <2> QED
    BY <2>3, <2>4, <2>5
<1>17. ASSUME NEW t \in Threads, Return(t)
       PROVE  JobInv'
  <2>1. job' = [job EXCEPT ![t] = Idle] /\ round' = round /\ Len(job[t].results) = job[t].size
    BY <1>17 DEF Return
  <2>2. Len(Idle.results) = Idle.size
    BY EmptySeq DEF Idle
  <2>3. Linked(Idle, round'[t]) /\ \A u \in Threads \ {t} : round'[u] = round[u]
    BY <1>1, <2>1, <2>2 DEF Linked
  <2> QED
    BY <2>1, <2>3, IdleIsGood, JobMoves
<1>18. CASE UNCHANGED vars
  BY <1>2, <1>18 DEF vars
<1> QED
  BY <1>4, <1>5, <1>7, <1>8, <1>10, <1>12, <1>13, <1>14, <1>15, <1>16, <1>17, <1>18, NextCases

LEMMA JobInit == Init => JobInv
<1> SUFFICES ASSUME Init PROVE JobInv
  OBVIOUS
<1>1. Len(Idle.results) = Idle.size
  BY EmptySeq DEF Idle
<1>2. \A t \in Threads : Linked(job[t], round[t])
  BY <1>1 DEF Init, Linked, AtRest
<1> QED
  BY <1>2, IdleIsGood DEF Init, JobInv

LEMMA InvAlways == Spec => [](RoundInv /\ JobInv)
  BY RoundInit, RoundStep, JobInit, JobStep, PTL DEF Spec

\* Every variable of the client keeps its type; no call has more results than
\* messages, and no thread makes more tries than the limits allow.
THEOREM TypeCorrect == Spec => []TypeOK
  BY InvIsTyped, InvAlways, PTL

-----------------------------------------------------------------------------
(* The refinement: what a step does to the sizes and the results of the    *)
(* calls is a step of RefineContract, or nothing.                          *)

LEMMA InitRefines == Init => Contract!Init
  BY DEF Init, Contract!Init, Idle

\* The step leaves the size and the results of every call alone.
LEMMA Stutters ==
  ASSUME \A t \in Threads : job'[t].size = job[t].size /\ job'[t].results = job[t].results
  PROVE  UNCHANGED Contract!vars
  BY DEF Contract!vars

LEMMA SettleRefines ==
  ASSUME JobInv, NEW t \in Threads, NEW results, Settle(t, results), Extends(t, results)
  PROVE  Contract!Answer(t)
<1>1. job[t] \in JobSet /\ job \in [Threads -> JobSet]
  BY DEF JobInv
<1>2. /\ job'[t].size = job[t].size /\ job'[t].results = results
      /\ \A u \in Threads \ {t} : job'[u] = job[u]
  BY <1>1 DEF Settle, JobSet
<1>3. Len(results) \in Nat /\ results \in [1..Len(results) -> 0..BatchSize]
      /\ Len(job[t].results) \in Nat /\ DOMAIN results = 1..Len(results)
      /\ DOMAIN job[t].results = 1..Len(job[t].results) /\ job[t].size \in 0..BatchSize
  BY <1>1, LenProperties DEF Extends, JobSet
<1>4. results \in Contract!Lists(job[t].size)
  <2>1. Len(results) \in 0..job[t].size
    BY <1>3 DEF Extends
  <2> QED
    BY <1>3, <2>1 DEF Contract!Lists
<1>5. Contract!Aligned(results)
  BY <1>3 DEF Extends, Contract!Aligned, Contract!Nothing, Nothing
<1>6. /\ Len(job[t].results) < Len(results)
      /\ \A i \in DOMAIN job[t].results : results[i] = job[t].results[i]
  BY <1>3 DEF Extends
<1>7. [u \in Threads |-> job'[u].results] = [[u \in Threads |-> job[u].results] EXCEPT ![t] = results]
  BY <1>2
<1>8. [u \in Threads |-> job'[u].size] = [u \in Threads |-> job[u].size]
  BY <1>2
<1> QED
  BY <1>4, <1>5, <1>6, <1>7, <1>8 DEF Contract!Answer

LEMMA StepRefines == JobInv /\ [Next]_vars => [Contract!Next]_(Contract!vars)
<1> SUFFICES ASSUME JobInv, [Next]_vars PROVE Contract!Next \/ UNCHANGED Contract!vars
  OBVIOUS
<1>1. job \in [Threads -> JobSet] /\ \A t \in Threads : job[t] \in JobSet /\ JobGood(job[t])
  BY DEF JobInv
<1>2. ASSUME NEW t \in Threads, Begin(t)
      PROVE  Contract!Ask(t)
  <2>1. PICK kind \in Calls[t], n \in 1..BatchSize :
          job' = [job EXCEPT ![t] = [kind |-> kind, size |-> n, whole |-> kind = "batch",
                                     attempt |-> 1, results |-> <<>>]]
    BY <1>2 DEF Begin
  <2>2. job[t].size = 0 /\ job[t].results = <<>>
    BY <1>1, <1>2 DEF Begin, JobGood, Idle
  <2>3. /\ job'[t].size = n /\ job'[t].results = <<>>
        /\ \A u \in Threads \ {t} : job'[u] = job[u]
    BY <1>1, <2>1
  <2>4. [u \in Threads |-> job'[u].size] = [[u \in Threads |-> job[u].size] EXCEPT ![t] = n]
    BY <2>3
  <2>5. [u \in Threads |-> job'[u].results] = [u \in Threads |-> job[u].results]
    BY <2>2, <2>3
  <2> QED
    BY <2>2, <2>4, <2>5 DEF Contract!Ask
<1>3. ASSUME NEW t \in Threads, Return(t)
      PROVE  Contract!Return(t)
  <2>1. job[t].size > 0 /\ Len(job[t].results) = job[t].size
    BY <1>1, <1>3 DEF Return, JobGood
  <2>2. /\ job'[t].size = 0 /\ job'[t].results = <<>>
        /\ \A u \in Threads \ {t} : job'[u] = job[u]
    BY <1>1, <1>3 DEF Return, Idle
  <2>3. [u \in Threads |-> job'[u].size] = [[u \in Threads |-> job[u].size] EXCEPT ![t] = 0]
    BY <2>2
  <2>4. [u \in Threads |-> job'[u].results]
          = [[u \in Threads |-> job[u].results] EXCEPT ![t] = <<>>]
    BY <2>2
  <2> QED
    BY <2>1, <2>3, <2>4 DEF Contract!Return
<1>4. ASSUME NEW t \in Threads, Parsed(t)
      PROVE  Contract!Answer(t)
  BY <1>4, ParsedSettles, SettleRefines
<1>5. ASSUME NEW t \in Threads, AttemptFailed(t)
      PROVE  Contract!Answer(t) \/ UNCHANGED Contract!vars
  <2>1. CASE job[t].attempt < MaxRetries /\ job[t].kind # "text"
    <3>1. job' = [job EXCEPT ![t].attempt = @ + 1]
      BY <1>5, <2>1 DEF AttemptFailed
    <3>2. \A u \in Threads : job'[u].size = job[u].size /\ job'[u].results = job[u].results
      BY <1>1, <3>1 DEF JobSet
    <3> QED
      BY <3>2, Stutters
  <2>2. CASE ~(job[t].attempt < MaxRetries /\ job[t].kind # "text") /\ job[t].whole
    <3>1. job' = [job EXCEPT ![t] = [job[t] EXCEPT !.whole = FALSE, !.attempt = 1]]
      BY <1>5, <2>2 DEF AttemptFailed
    <3>2. \A u \in Threads : job'[u].size = job[u].size /\ job'[u].results = job[u].results
      BY <1>1, <3>1 DEF JobSet
    <3> QED
      BY <3>2, Stutters
  <2>3. CASE ~(job[t].attempt < MaxRetries /\ job[t].kind # "text") /\ ~job[t].whole
    <3>1. Settle(t, Append(job[t].results, Nothing)) /\ round[t].pc = "failed"
      BY <1>5, <2>3 DEF AttemptFailed
    <3> QED
      BY <2>3, <3>1, FailedSettles, SettleRefines
  <2> QED
    BY <2>1, <2>2, <2>3
<1>6. ASSUME job' = job
      PROVE  UNCHANGED Contract!vars
  BY <1>6, Stutters
<1>7. ASSUME NEW t \in Threads,
             WaitIfBusy(t) \/ Wake(t) \/ Refusal(t) \/ GivesWay(t) \/ Overloaded(t)
               \/ Permanent(t) \/ Text(t) \/ Exhausted(t) \/ Unusable(t)
      PROVE  job' = job
  BY <1>7 DEF WaitIfBusy, Wake, Refusal, GivesWay, Overloaded, Permanent, Text, Exhausted, Unusable
<1>8. ASSUME NEW p \in Providers, CooldownEnds(p)
      PROVE  job' = job
  BY <1>8 DEF CooldownEnds
<1>9. CASE UNCHANGED vars
  BY <1>6, <1>9 DEF vars
<1> QED
  BY <1>2, <1>3, <1>4, <1>5, <1>6, <1>7, <1>8, <1>9, NextCases DEF Contract!Next

\* The client does nothing that its contract does not allow: the answers of a
\* call are one per message at most, in the order of the messages, each nothing
\* or about that very message, and an answer once settled stays.
THEOREM RefinesContract == Spec => Contract!Safety
<1>1. JobInv /\ [Next]_vars => [Contract!Next]_(Contract!vars)
  BY StepRefines
<1> QED
  BY <1>1, InitRefines, InvAlways, PTL DEF Spec, Contract!Safety

-----------------------------------------------------------------------------
(* The proxy that may stand between the client and its upstream: theorems  *)
(* about RefusalProxy for any requests, models and MAX_RETRIES. It runs in *)
(* a process of its own and shares no state with the client.               *)

Places   == {"idle", "body", "loop", "cooling", "upstream", "flowing", "refused", "complete",
             "lost", "done"}
ReqType  == [pc : Places, kind : Kinds, attempt : 1..MAX_RETRIES,
             streamHeadersSent : BOOLEAN]
FlowType == [sent : BOOLEAN, valid : BOOLEAN, text : {"undecided", "clean", "refusal"}]
ResType  == [state : {"open", "ended", "destroyed"}, head : 0..MAX_RETRIES,
             body : SUBSET (1..MAX_RETRIES)]

\* While an attempt flows or is judged, headers that it has sent are its own.
Sends(q) ==
  req[q].pc \in {"upstream", "flowing", "refused", "complete"} /\ flow[q].sent
    => res[q].head = req[q].attempt

\* Before its first attempt a request has no headers and no timer.
Fresh(q) == req[q].pc \in {"idle", "body"} => res[q].head = 0 /\ timers[q] = {}

Fits(q) == /\ req[q] \in ReqType /\ flow[q] \in FlowType /\ res[q] \in ResType
           /\ res[q].body \subseteq {res[q].head}
           /\ Sends(q) /\ Fresh(q)

ProxyInv == ProxyTypeOK /\ \A q \in Requests : Fits(q)

-----------------------------------------------------------------------------
LEMMA ProxyInvInit == ProxyInit => ProxyInv
<1> SUFFICES ASSUME ProxyInit PROVE ProxyInv
  OBVIOUS
<1>1. 1 \in 1..MAX_RETRIES /\ 0 \in 0..MAX_RETRIES
  BY ProxyAssumption
<1>2. ProxyTypeOK
  BY <1>1 DEF ProxyInit, ProxyTypeOK, Kinds, NewFlow
<1>3. \A q \in Requests : Fits(q)
  BY <1>1 DEF ProxyInit, Fits, Sends, Fresh, ReqType, Places, FlowType, ResType,
            Kinds, NewFlow
<1> QED BY <1>2, <1>3 DEF ProxyInv

\* What a step may do to the request r and to its response.
Moves(r) ==
  \E q \in ReqType, f \in FlowType, s \in ResType, t \in SUBSET (1..MAX_RETRIES) :
    /\ req' = [req EXCEPT ![r] = q]
    /\ flow' = [flow EXCEPT ![r] = f]
    /\ res' = [res EXCEPT ![r] = s]
    /\ timers' = [timers EXCEPT ![r] = t]
    /\ s.body \subseteq {s.head}
    /\ q.pc \in {"upstream", "flowing", "refused", "complete"} /\ f.sent => s.head = q.attempt
    /\ q.pc \in {"idle", "body"} => s.head = 0 /\ t = {}

LEMMA MoveIsSound ==
  ASSUME ProxyInv, NEW r \in Requests, Moves(r),
         waits' \subseteq waits \/ (waits' = waits \cup {r} /\ req'[r].pc = "cooling"),
         r \in waits' => req'[r].pc = "cooling",
         gone' \subseteq Requests, broken' \subseteq Requests,
         busy' \in [Models -> SUBSET Requests]
  PROVE  ProxyInv'
<1>1. PICK q \in ReqType, f \in FlowType, s \in ResType, t \in SUBSET (1..MAX_RETRIES) :
        /\ req' = [req EXCEPT ![r] = q]
        /\ flow' = [flow EXCEPT ![r] = f]
        /\ res' = [res EXCEPT ![r] = s]
        /\ timers' = [timers EXCEPT ![r] = t]
        /\ s.body \subseteq {s.head}
        /\ q.pc \in {"upstream", "flowing", "refused", "complete"} /\ f.sent => s.head = q.attempt
        /\ q.pc \in {"idle", "body"} => s.head = 0 /\ t = {}
  BY DEF Moves
<1>2. /\ req \in [Requests -> ReqType] /\ flow \in [Requests -> FlowType]
      /\ res \in [Requests -> ResType] /\ timers \in [Requests -> SUBSET (1..MAX_RETRIES)]
  BY DEF ProxyInv, ProxyTypeOK, ReqType, Places, FlowType, ResType
<1>3. /\ req' \in [Requests -> ReqType] /\ flow' \in [Requests -> FlowType]
      /\ res' \in [Requests -> ResType] /\ timers' \in [Requests -> SUBSET (1..MAX_RETRIES)]
  BY <1>1, <1>2
<1>4. waits' \subseteq {p \in Requests : req'[p].pc = "cooling"}
  BY <1>1, <1>2 DEF ProxyInv, ProxyTypeOK
<1>5. ProxyTypeOK'
  BY <1>3, <1>4 DEF ProxyTypeOK, ReqType, Places, FlowType, ResType
<1>6. ASSUME NEW p \in Requests PROVE Fits(p)'
  <2>1. CASE p = r
    BY <1>1, <1>2, <2>1 DEF Fits, Sends, Fresh
  <2>2. CASE p # r
    BY <1>1, <1>2, <2>2 DEF Fits, Sends, Fresh, ProxyInv
  <2> QED BY <2>1, <2>2
<1> QED BY <1>5, <1>6 DEF ProxyInv

-----------------------------------------------------------------------------
(* What the helpers of handleRequest do                                    *)

LEMMA Fields ==
  ASSUME ProxyInv, NEW r \in Requests
  PROVE  /\ req[r] \in ReqType /\ flow[r] \in FlowType /\ res[r] \in ResType
         /\ req[r].attempt \in 1..MAX_RETRIES
         /\ req = [req EXCEPT ![r] = req[r]]
         /\ flow = [flow EXCEPT ![r] = flow[r]] /\ res = [res EXCEPT ![r] = res[r]]
         /\ timers = [timers EXCEPT ![r] = timers[r]] /\ timers[r] \in SUBSET (1..MAX_RETRIES)
         /\ res[r].body \subseteq {res[r].head} /\ Sends(r) /\ Fresh(r)
<1>1. /\ req[r] \in ReqType /\ flow[r] \in FlowType /\ res[r] \in ResType
      /\ res[r].body \subseteq {res[r].head} /\ Sends(r) /\ Fresh(r)
  BY DEF ProxyInv, Fits
<1>2. /\ req = [req EXCEPT ![r] = req[r]]
      /\ flow = [flow EXCEPT ![r] = flow[r]] /\ res = [res EXCEPT ![r] = res[r]]
      /\ timers = [timers EXCEPT ![r] = timers[r]] /\ timers[r] \in SUBSET (1..MAX_RETRIES)
  BY DEF ProxyInv, ProxyTypeOK
<1> QED BY <1>1, <1>2 DEF ReqType

LEMMA GotoMoves ==
  ASSUME ProxyInv, NEW r \in Requests, NEW pc \in Places, Goto(r, pc)
  PROVE  \E q \in ReqType : /\ req' = [req EXCEPT ![r] = q]
                            /\ q.pc = pc /\ q.attempt = req[r].attempt
<1> DEFINE q == [req[r] EXCEPT !.pc = pc]
<1>1. q \in ReqType /\ q.pc = pc /\ q.attempt = req[r].attempt
  BY Fields DEF ReqType
<1>2. req' = [req EXCEPT ![r] = q]
  BY DEF Goto
<1> QED BY <1>1, <1>2

LEMMA NextAttemptMoves ==
  ASSUME ProxyInv, NEW r \in Requests, NextAttempt(r), Attempt(r) < MAX_RETRIES
  PROVE  \E q \in ReqType : req' = [req EXCEPT ![r] = q] /\ q.pc = "loop"
<1> DEFINE q == [req[r] EXCEPT !.pc = "loop", !.attempt = Attempt(r) + 1]
<1>1. Attempt(r) + 1 \in 1..MAX_RETRIES
  BY Fields, ProxyAssumption DEF Attempt
<1>2. q \in ReqType /\ q.pc = "loop"
  BY <1>1, Fields DEF ReqType, Places
<1>3. req' = [req EXCEPT ![r] = q]
  BY DEF NextAttempt
<1> QED BY <1>2, <1>3

\* An attempt is settled: another one, or the end; whatever has been written to the
\* client is of one attempt.
Settles(r) ==
  /\ \E q \in ReqType : req' = [req EXCEPT ![r] = q] /\ q.pc \in {"loop", "done"}
  /\ \E s \in ResType : res' = [res EXCEPT ![r] = s] /\ s.body \subseteq {s.head}

\* Written is called with no headers out only, when nothing has been written.
LEMMA WrittenSettles ==
  ASSUME ProxyInv, NEW r \in Requests, NEW a \in 1..MAX_RETRIES,
         res[r].head = 0, Written(r, a)
  PROVE  \E s \in ResType : res' = [res EXCEPT ![r] = s] /\ s.body \subseteq {s.head}
<1> DEFINE s == [state |-> "ended", head |-> a, body |-> res[r].body \cup {a}]
<1>1. res[r].body = {}
  BY Fields, ProxyAssumption DEF ResType
<1>2. s \in ResType /\ s.body \subseteq {s.head}
  BY <1>1, ProxyAssumption DEF ResType
<1>3. res' = [res EXCEPT ![r] = s]
  BY DEF Written
<1> QED BY <1>2, <1>3

LEMMA EndSettles ==
  ASSUME ProxyInv, NEW r \in Requests, NEW state \in {"open", "ended", "destroyed"},
         res' = [res EXCEPT ![r].state = state]
  PROVE  \E s \in ResType : /\ res' = [res EXCEPT ![r] = s]
                            /\ s.body \subseteq {s.head} /\ s.head = res[r].head
<1> DEFINE s == [res[r] EXCEPT !.state = state]
<1>1. s \in ResType /\ s.body \subseteq {s.head} /\ s.head = res[r].head
  BY Fields DEF ResType
<1> QED BY <1>1

LEMMA Settled ==
  ASSUME ProxyInv, NEW r \in Requests
  PROVE  /\ Caught(r) => Settles(r)
         /\ Reply(r) => Settles(r)
         /\ RetryOrReply(r) => Settles(r)
<1>1. "done" \in Places /\ Attempt(r) \in 1..MAX_RETRIES
  BY Fields DEF Places, Attempt
<1>2. Goto(r, "done")
        => \E q \in ReqType : req' = [req EXCEPT ![r] = q] /\ q.pc \in {"loop", "done"}
  BY <1>1, GotoMoves
<1>3. UNCHANGED res
        => \E s \in ResType : res' = [res EXCEPT ![r] = s] /\ s.body \subseteq {s.head}
  BY Fields
<1>4. res[r].head = 0 /\ Written(r, Attempt(r))
        => \E s \in ResType : res' = [res EXCEPT ![r] = s] /\ s.body \subseteq {s.head}
  BY <1>1, WrittenSettles
<1>5. Destroyed(r)
        => \E s \in ResType : res' = [res EXCEPT ![r] = s] /\ s.body \subseteq {s.head}
  BY EndSettles DEF Destroyed
<1>6. Caught(r) => Settles(r)
  BY <1>2, <1>3, <1>4, <1>5, NextAttemptMoves DEF Caught, Settles
<1>7. Reply(r) => Settles(r)
  BY <1>2, <1>4, <1>6 DEF Reply, Settles
<1>8. RetryOrReply(r) => Settles(r)
  BY <1>3, <1>7, NextAttemptMoves DEF RetryOrReply, Settles
<1> QED BY <1>6, <1>7, <1>8

\* A step that settles an attempt, and at most shortens what others wait for.
LEMMA SettlesIsSound ==
  ASSUME ProxyInv, NEW r \in Requests, Settles(r), req[r].pc # "cooling",
         UNCHANGED <<flow, timers, gone>>, waits' \subseteq waits,
         broken' = broken \/ broken' = broken \cup {r},
         busy' \in [Models -> SUBSET Requests]
  PROVE  ProxyInv'
<1>1. Moves(r)
  <2>1. PICK q \in ReqType : req' = [req EXCEPT ![r] = q] /\ q.pc \in {"loop", "done"}
    BY DEF Settles
  <2>2. PICK s \in ResType : res' = [res EXCEPT ![r] = s] /\ s.body \subseteq {s.head}
    BY DEF Settles
  <2>3. flow[r] \in FlowType /\ flow' = [flow EXCEPT ![r] = flow[r]]
    BY Fields
  <2>4. timers[r] \in SUBSET (1..MAX_RETRIES) /\ timers' = [timers EXCEPT ![r] = timers[r]]
    BY Fields
  <2> QED BY <2>1, <2>2, <2>3, <2>4 DEF Moves
<1>2. r \notin waits'
  BY DEF ProxyInv, ProxyTypeOK
<1>3. gone' \subseteq Requests /\ broken' \subseteq Requests
  BY DEF ProxyInv, ProxyTypeOK
<1> QED BY <1>1, <1>2, <1>3, MoveIsSound

-----------------------------------------------------------------------------
(* The steps                                                               *)

\* A request elsewhere in handleRequest: nothing of an attempt is judged there.
LEMMA AsideIsSound ==
  ASSUME ProxyInv, NEW r \in Requests,
         NEW q \in ReqType, req' = [req EXCEPT ![r] = q],
         NEW f \in FlowType, flow' = [flow EXCEPT ![r] = f],
         q.pc \notin {"flowing", "refused", "complete"}, q.pc = "upstream" => ~f.sent,
         NEW s \in ResType, res' = [res EXCEPT ![r] = s], s.body \subseteq {s.head},
         q.pc \in {"idle", "body"} => s.head = 0 /\ timers[r] = {},
         waits' \subseteq waits \/ (waits' = waits \cup {r} /\ q.pc = "cooling"),
         r \in waits' => q.pc = "cooling",
         UNCHANGED <<timers, busy, broken>>, gone' \subseteq Requests
  PROVE  ProxyInv'
<1>1. timers[r] \in SUBSET (1..MAX_RETRIES) /\ timers' = [timers EXCEPT ![r] = timers[r]]
  BY Fields
<1>2. Moves(r)
  BY <1>1 DEF Moves
<1>3. req'[r].pc = q.pc
  BY DEF ProxyInv, ProxyTypeOK
<1>4. broken' \subseteq Requests /\ busy' \in [Models -> SUBSET Requests]
  BY DEF ProxyInv, ProxyTypeOK
<1> QED BY <1>2, <1>3, <1>4, MoveIsSound

LEMMA ArriveIsSound ==
  ASSUME ProxyInv, NEW r \in Requests, Arrive(r)
  PROVE  ProxyInv'
<1>1. /\ UNCHANGED <<waits, flow, timers, gone, busy, broken>>
      /\ gone \subseteq Requests /\ r \notin waits
      /\ res[r].head = 0 /\ timers[r] = {}
  BY Fields DEF Arrive, ProxyInv, ProxyTypeOK, Fresh
<1>2. PICK kind \in Kinds :
        /\ req' = [req EXCEPT ![r].kind = kind, ![r].pc = IF kind = "head" THEN "done" ELSE "body"]
        /\ IF kind = "head" THEN Written(r, 1) ELSE UNCHANGED res
  BY DEF Arrive
<1> DEFINE pc == IF kind = "head" THEN "done" ELSE "body"
           q  == [req[r] EXCEPT !.kind = kind, !.pc = pc]
<1>3. q \in ReqType /\ q.pc = pc /\ pc \in {"done", "body"}
  BY Fields DEF ReqType, Places
<1>4. req' = [req EXCEPT ![r] = q]
  BY <1>2
<1>5. 1 \in 1..MAX_RETRIES
  BY ProxyAssumption
<1>6. PICK s \in ResType : /\ res' = [res EXCEPT ![r] = s] /\ s.body \subseteq {s.head}
                           /\ pc = "body" => s.head = 0
  <2>1. CASE kind = "head"
    BY <1>1, <1>2, <1>5, <2>1, WrittenSettles
  <2>2. CASE kind # "head"
    BY <1>1, <1>2, <2>2, Fields
  <2> QED BY <2>1, <2>2
<1>7. flow[r] \in FlowType /\ flow' = [flow EXCEPT ![r] = flow[r]]
  BY <1>1, Fields
<1> HIDE DEF q, pc
<1> QED BY <1>1, <1>3, <1>4, <1>6, <1>7, AsideIsSound

LEMMA BodyEndsIsSound ==
  ASSUME ProxyInv, NEW r \in Requests, BodyEnds(r)
  PROVE  ProxyInv'
<1>1. /\ UNCHANGED <<waits, flow, timers, gone, busy, broken>>
      /\ gone \subseteq Requests /\ r \notin waits /\ res[r].head = 0
  BY Fields DEF BodyEnds, ProxyInv, ProxyTypeOK, Fresh
<1>2. "loop" \in Places /\ "done" \in Places /\ 1 \in 1..MAX_RETRIES
  BY ProxyAssumption DEF Places
<1>3. \E pc \in {"loop", "done"} : Goto(r, pc)
  BY DEF BodyEnds
<1>4. PICK q \in ReqType : req' = [req EXCEPT ![r] = q] /\ q.pc \in {"loop", "done"}
  BY <1>2, <1>3, GotoMoves
<1>5. PICK s \in ResType : res' = [res EXCEPT ![r] = s] /\ s.body \subseteq {s.head}
  <2>1. CASE Written(r, 1)
    BY <1>1, <1>2, <2>1, WrittenSettles
  <2>2. CASE UNCHANGED res
    BY <2>2, Fields
  <2> QED BY <2>1, <2>2 DEF BodyEnds
<1>6. flow[r] \in FlowType /\ flow' = [flow EXCEPT ![r] = flow[r]]
  BY <1>1, Fields
<1> QED BY <1>1, <1>4, <1>5, <1>6, AsideIsSound

LEMMA ClientClosesIsSound ==
  ASSUME ProxyInv, NEW r \in Requests, ClientCloses(r)
  PROVE  ProxyInv'
<1>1. /\ UNCHANGED <<waits, flow, timers, res, busy, broken>> /\ gone' = gone \cup {r}
      /\ gone \subseteq Requests /\ waits \subseteq {p \in Requests : req[p].pc = "cooling"}
      /\ busy \in [Models -> SUBSET Requests] /\ broken \subseteq Requests
  BY DEF ClientCloses, ProxyInv, ProxyTypeOK
<1>2. /\ flow[r] \in FlowType /\ flow' = [flow EXCEPT ![r] = flow[r]]
      /\ res[r] \in ResType /\ res' = [res EXCEPT ![r] = res[r]]
      /\ timers[r] \in SUBSET (1..MAX_RETRIES) /\ timers' = [timers EXCEPT ![r] = timers[r]]
  BY <1>1, Fields
<1>3. PICK q \in ReqType : req' = [req EXCEPT ![r] = q] /\ (q = req[r] \/ q.pc = "done")
                           /\ (req[r].pc = "cooling" => q = req[r])
  <2>1. CASE req[r].pc \in {"upstream", "flowing", "lost"}
    <3>1. Goto(r, "done")
      BY <2>1 DEF ClientCloses, Goto
    <3> QED BY <2>1, <3>1, GotoMoves DEF Places
  <2>2. CASE ~(req[r].pc \in {"upstream", "flowing", "lost"})
    <3>1. req' = req
      BY <2>2 DEF ClientCloses
    <3> QED BY <3>1, Fields
  <2> QED BY <2>1, <2>2
<1>4. Moves(r)
  <2>1. /\ res[r].body \subseteq {res[r].head}
        /\ q.pc \in {"upstream", "flowing", "refused", "complete"} /\ flow[r].sent
             => res[r].head = q.attempt
        /\ q.pc \in {"idle", "body"} => res[r].head = 0 /\ timers[r] = {}
    BY <1>3, Fields DEF Sends, Fresh
  <2> QED BY <1>2, <1>3, <2>1 DEF Moves
<1>5. req'[r] = q
  BY <1>3 DEF ProxyInv, ProxyTypeOK
<1> QED BY <1>1, <1>3, <1>4, <1>5, MoveIsSound

LEMMA ForwardMoves ==
  ASSUME ProxyInv, NEW r \in Requests, Forward(r)
  PROVE  /\ \E q \in ReqType, f \in FlowType :
              /\ req' = [req EXCEPT ![r] = q] /\ flow' = [flow EXCEPT ![r] = f]
              /\ q.pc = "done" \/ (q.pc = "upstream" /\ ~f.sent)
         /\ \E s \in ResType : res' = [res EXCEPT ![r] = s] /\ s.body \subseteq {s.head}
<1>1. "upstream" \in Places /\ "done" \in Places /\ NewFlow \in FlowType /\ ~NewFlow.sent
  BY DEF Places, NewFlow, FlowType
<1>2. \/ Goto(r, "upstream") /\ flow' = [flow EXCEPT ![r] = NewFlow]
      \/ Goto(r, "done") /\ flow' = [flow EXCEPT ![r] = NewFlow]
      \/ Goto(r, "done") /\ UNCHANGED flow
  BY DEF Forward
<1>3. UNCHANGED res \/ res' = [res EXCEPT ![r].state = "destroyed"]
  BY DEF Forward, Destroyed
<1>4. \E s \in ResType : res' = [res EXCEPT ![r] = s] /\ s.body \subseteq {s.head}
  BY <1>3, EndSettles, Fields
<1>5. UNCHANGED flow => flow' = [flow EXCEPT ![r] = flow[r]] /\ flow[r] \in FlowType
  BY Fields
<1>6. PICK pc \in {"upstream", "done"}, f \in FlowType :
        /\ Goto(r, pc) /\ flow' = [flow EXCEPT ![r] = f]
        /\ pc = "upstream" => ~f.sent
  BY <1>1, <1>2, <1>5
<1>7. PICK q \in ReqType : req' = [req EXCEPT ![r] = q] /\ q.pc = pc
  BY <1>1, <1>6, GotoMoves
<1> QED BY <1>4, <1>6, <1>7

LEMMA LoopIsSound ==
  ASSUME ProxyInv, NEW r \in Requests, Loop(r) \/ WaitEnds(r)
  PROVE  ProxyInv'
<1>1. UNCHANGED <<timers, gone, busy, broken>> /\ gone \subseteq Requests
  BY DEF Loop, WaitEnds, ProxyInv, ProxyTypeOK
<1>2. r \notin waits
  BY DEF Loop, WaitEnds, ProxyInv, ProxyTypeOK
<1>3. CASE Forward(r) /\ UNCHANGED waits
  <2>1. PICK q \in ReqType, f \in FlowType :
          /\ req' = [req EXCEPT ![r] = q] /\ flow' = [flow EXCEPT ![r] = f]
          /\ q.pc = "done" \/ (q.pc = "upstream" /\ ~f.sent)
    BY <1>3, ForwardMoves
  <2>3. PICK s \in ResType : res' = [res EXCEPT ![r] = s] /\ s.body \subseteq {s.head}
    BY <1>3, ForwardMoves
  <2> QED BY <1>1, <1>2, <1>3, <2>1, <2>3, AsideIsSound
<1>4. CASE ~(Forward(r) /\ UNCHANGED waits)
  <2>1. /\ UNCHANGED <<flow, res>>
        /\ \/ Goto(r, "done") /\ UNCHANGED waits
           \/ Goto(r, "cooling") /\ waits' = waits \cup {r}
    BY <1>4 DEF Loop, WaitEnds
  <2>2. PICK q \in ReqType : /\ req' = [req EXCEPT ![r] = q]
                             /\ \/ q.pc = "done" /\ UNCHANGED waits
                                \/ q.pc = "cooling" /\ waits' = waits \cup {r}
    BY <2>1, GotoMoves DEF Places
  <2>3. /\ flow[r] \in FlowType /\ flow' = [flow EXCEPT ![r] = flow[r]]
        /\ res[r] \in ResType /\ res' = [res EXCEPT ![r] = res[r]]
        /\ res[r].body \subseteq {res[r].head}
    BY <2>1, Fields
  <2> QED BY <1>1, <1>2, <2>2, <2>3, AsideIsSound
<1> QED BY <1>3, <1>4

LEMMA CoolsType ==
  ASSUME ProxyInv, NEW m \in Models, NEW who \in SUBSET Requests, Cools(m, who)
  PROVE  busy' \in [Models -> SUBSET Requests] /\ waits' \subseteq waits
BY DEF Cools, ProxyInv, ProxyTypeOK

\* Every way in which an attempt ends before a stream has begun, or by breaking off.
LEMMA UpstreamIsSound ==
  ASSUME ProxyInv, NEW r \in Requests,
         \/ UpstreamError(r) \/ UpstreamFails(r) \/ PlainRefusal(r)
         \/ PlainAnswer(r) \/ StreamBreaks(r)
  PROVE  ProxyInv'
<1>1. /\ UNCHANGED <<flow, timers, gone>> /\ req[r].pc # "cooling"
      /\ broken' = broken \/ broken' = broken \cup {r}
  BY DEF UpstreamError, UpstreamFails, PlainRefusal, PlainAnswer,
         StreamBreaks, Is
<1>2. Settles(r)
  BY Settled DEF UpstreamError, UpstreamFails, PlainRefusal, PlainAnswer,
         StreamBreaks
<1>3. \/ UNCHANGED <<busy, waits>>
      \/ Cools(ModelOf[r], {r})
      \/ Cools(ModelOf[r], {})
  BY DEF UpstreamError, UpstreamFails, PlainRefusal, PlainAnswer,
         StreamBreaks
<1>4. ModelOf[r] \in Models /\ {r} \in SUBSET Requests /\ {} \in SUBSET Requests
  BY ProxyAssumption
<1>5. busy' \in [Models -> SUBSET Requests] /\ waits' \subseteq waits
  BY <1>3, <1>4, CoolsType DEF ProxyInv, ProxyTypeOK
<1> QED BY <1>1, <1>2, <1>5, SettlesIsSound

LEMMA PlainBreaksIsSound ==
  ASSUME ProxyInv, NEW r \in Requests, PlainBreaks(r)
  PROVE  ProxyInv'
<1>1. /\ UNCHANGED <<waits, flow, timers, res, gone, busy>> /\ broken' = broken \cup {r}
      /\ r \notin waits /\ gone' \subseteq Requests /\ broken' \subseteq Requests
      /\ busy' \in [Models -> SUBSET Requests]
  BY DEF PlainBreaks, Is, ProxyInv, ProxyTypeOK
<1>2. PICK q \in ReqType : req' = [req EXCEPT ![r] = q] /\ q.pc = "lost"
  BY GotoMoves DEF PlainBreaks, Places
<1>3. /\ flow[r] \in FlowType /\ flow' = [flow EXCEPT ![r] = flow[r]]
      /\ res[r] \in ResType /\ res' = [res EXCEPT ![r] = res[r]]
      /\ timers[r] \in SUBSET (1..MAX_RETRIES) /\ timers' = [timers EXCEPT ![r] = timers[r]]
      /\ res[r].body \subseteq {res[r].head}
  BY <1>1, Fields
<1>4. Moves(r)
  BY <1>2, <1>3 DEF Moves
<1> QED BY <1>1, <1>4, MoveIsSound

LEMMA CooldownEndsIsSound ==
  ASSUME ProxyInv, NEW m \in Models, BusyEnds(m)
  PROVE  ProxyInv'
<1>1. /\ UNCHANGED <<req, flow, timers, res, gone, broken>>
      /\ busy' \in [Models -> SUBSET Requests] /\ waits' \subseteq waits
  BY CoolsType DEF BusyEnds
<1> QED BY <1>1 DEF ProxyInv, ProxyTypeOK, Fits, Sends, Fresh

-----------------------------------------------------------------------------
(* Streams                                                                 *)

\* A step of a stream: the flow and the response change together.
LEMMA StreamIsSound ==
  ASSUME ProxyInv, NEW r \in Requests, req[r].pc # "cooling",
         NEW q \in ReqType, req' = [req EXCEPT ![r] = q], q.pc \notin {"idle", "body"},
         NEW f \in FlowType, flow' = [flow EXCEPT ![r] = f],
         NEW s \in ResType, res' = [res EXCEPT ![r] = s], s.body \subseteq {s.head},
         q.pc \in {"upstream", "flowing", "refused", "complete"} /\ f.sent => s.head = q.attempt,
         NEW t \in SUBSET (1..MAX_RETRIES), timers' = [timers EXCEPT ![r] = t],
         waits' \subseteq waits, UNCHANGED <<gone, broken>>,
         busy' \in [Models -> SUBSET Requests]
  PROVE  ProxyInv'
<1>1. Moves(r)
  BY DEF Moves
<1>2. r \notin waits' /\ gone' \subseteq Requests /\ broken' \subseteq Requests
  BY DEF ProxyInv, ProxyTypeOK
<1> QED BY <1>1, <1>2, MoveIsSound

LEMMA StreamBeginsIsSound ==
  ASSUME ProxyInv, NEW r \in Requests, StreamBegins(r)
  PROVE  ProxyInv'
<1>1. /\ UNCHANGED <<waits, flow, res, gone, busy, broken>>
      /\ busy \in [Models -> SUBSET Requests] /\ req[r].pc = "upstream"
      /\ Goto(r, "flowing")
  BY DEF StreamBegins, Is, ProxyInv, ProxyTypeOK
<1>2. PICK q \in ReqType : /\ req' = [req EXCEPT ![r] = q]
                           /\ q.pc = "flowing" /\ q.attempt = req[r].attempt
  BY <1>1, GotoMoves DEF Places
<1>3. /\ flow[r] \in FlowType /\ flow' = [flow EXCEPT ![r] = flow[r]]
      /\ res[r] \in ResType /\ res' = [res EXCEPT ![r] = res[r]]
      /\ res[r].body \subseteq {res[r].head}
      /\ flow[r].sent => res[r].head = q.attempt
  BY <1>1, <1>2, Fields DEF Sends
<1>4. timers[r] \cup {Attempt(r)} \in SUBSET (1..MAX_RETRIES)
  BY Fields DEF Attempt
<1>5. timers' = [timers EXCEPT ![r] = timers[r] \cup {Attempt(r)}]
  BY DEF StreamBegins
<1> QED BY <1>1, <1>2, <1>3, <1>4, <1>5, StreamIsSound

\* A timer that is left over writes headers too, but only where there are none.
LEMMA TimerFiresIsSound ==
  ASSUME ProxyInv, NEW r \in Requests, NEW a \in 1..MAX_RETRIES, TimerFires(r, a)
  PROVE  ProxyInv'
<1>1. /\ UNCHANGED <<req, waits, gone, busy, broken>>
      /\ busy \in [Models -> SUBSET Requests]
      /\ r \in waits => req'[r].pc = "cooling"
      /\ gone \subseteq Requests /\ broken \subseteq Requests
      /\ a \in timers[r]
  BY DEF TimerFires, ProxyInv, ProxyTypeOK
<1>2. /\ timers' = [timers EXCEPT ![r] = timers[r] \ {a}]
      /\ timers[r] \ {a} \in SUBSET (1..MAX_RETRIES)
      /\ req[r] \in ReqType /\ req' = [req EXCEPT ![r] = req[r]]
      /\ req[r].pc \notin {"idle", "body"}
  BY <1>1, Fields DEF TimerFires, Fresh
<1>3. CASE res[r].state = "open" /\ res[r].head = 0
  <2> DEFINE s == [res[r] EXCEPT !.head = a]
             own == a = Attempt(r) /\ req[r].pc = "flowing"
             f == IF own THEN [flow[r] EXCEPT !.sent = TRUE] ELSE flow[r]
  <2>1. res' = [res EXCEPT ![r] = s]
    BY <1>3 DEF TimerFires
  <2>2. res[r].body = {}
    BY <1>3, Fields, ProxyAssumption DEF ResType
  <2>3. s \in ResType /\ s.head = a /\ s.body \subseteq {s.head}
    BY <2>2, Fields, ProxyAssumption DEF ResType
  <2>4. f \in FlowType /\ (f.sent => own \/ flow[r].sent)
    BY Fields DEF FlowType
  <2>5. flow' = [flow EXCEPT ![r] = f]
    BY <1>3, Fields DEF TimerFires
  <2>6. req[r].pc \in {"upstream", "flowing", "refused", "complete"} => ~flow[r].sent
    BY <1>3, Fields, ProxyAssumption DEF Sends
  <2>7. req[r].pc \in {"upstream", "flowing", "refused", "complete"} /\ f.sent
          => s.head = req[r].attempt
    BY <2>3, <2>4, <2>6 DEF Attempt
  <2> HIDE DEF s, f, own
  <2>8. Moves(r)
    BY <1>2, <2>1, <2>3, <2>4, <2>5, <2>7 DEF Moves
  <2> QED BY <1>1, <2>8, MoveIsSound
<1>4. CASE ~(res[r].state = "open" /\ res[r].head = 0)
  <2>1. UNCHANGED <<res, flow>>
    BY <1>4 DEF TimerFires
  <2>2. /\ flow[r] \in FlowType /\ flow' = [flow EXCEPT ![r] = flow[r]]
        /\ res[r] \in ResType /\ res' = [res EXCEPT ![r] = res[r]]
        /\ res[r].body \subseteq {res[r].head} /\ Sends(r)
    BY <2>1, Fields
  <2>3. Moves(r)
    BY <1>2, <2>2 DEF Moves, Sends
  <2> QED BY <1>1, <2>3, MoveIsSound
<1> QED BY <1>3, <1>4

\* What an attempt that may write makes of the response is its own.
LEMMA OwnResponse ==
  ASSUME ProxyInv, NEW r \in Requests, ~HeadTaken(r), Is(r, "stream", "flowing")
  PROVE  /\ Headed(r) \in ResType /\ Headed(r).head = req[r].attempt
         /\ Headed(r).body \subseteq {Headed(r).head}
         /\ Passed(r) \in ResType /\ Passed(r).head = req[r].attempt
         /\ Passed(r).body \subseteq {Passed(r).head}
<1> DEFINE h == IF res[r].head = 0 THEN Attempt(r) ELSE res[r].head
<1>1. h = req[r].attempt /\ h \in 0..MAX_RETRIES /\ h \in 1..MAX_RETRIES
  BY Fields, ProxyAssumption DEF HeadTaken, Is, Sends, Attempt, ReqType
<1>2. res[r].body \subseteq {h}
  BY <1>1, Fields, ProxyAssumption DEF ResType
<1>3. /\ Headed(r) = [state |-> res[r].state, head |-> h, body |-> res[r].body]
      /\ Passed(r) = [state |-> res[r].state, head |-> h,
                      body |-> res[r].body \cup {req[r].attempt}]
  <2>1. res[r] = [state |-> res[r].state, head |-> res[r].head, body |-> res[r].body]
    BY Fields DEF ResType
  <2>2. Headed(r) = [res[r] EXCEPT !.head = h]
    BY DEF Headed
  <2>3. Passed(r) = [res[r] EXCEPT !.head = h, !.body = res[r].body \cup {req[r].attempt}]
    BY DEF Passed, Attempt
  <2> HIDE DEF h
  <2> QED BY <2>1, <2>2, <2>3
<1>4. res[r].state \in {"open", "ended", "destroyed"}
  BY Fields DEF ResType
<1> HIDE DEF h
<1> QED BY <1>1, <1>2, <1>3, <1>4 DEF ResType

LEMMA IdleChunkIsSound ==
  ASSUME ProxyInv, NEW r \in Requests, IdleChunk(r)
  PROVE  ProxyInv'
<1>1. /\ UNCHANGED <<req, waits, flow, timers, gone, busy, broken>>
      /\ busy \in [Models -> SUBSET Requests]
      /\ Is(r, "stream", "flowing") /\ ~HeadTaken(r)
      /\ res' = [res EXCEPT ![r] = Passed(r)]
  BY DEF IdleChunk, HeadTaken, ProxyInv, ProxyTypeOK
<1>2. /\ req[r] \in ReqType /\ req' = [req EXCEPT ![r] = req[r]] /\ req[r].pc = "flowing"
      /\ flow[r] \in FlowType /\ flow' = [flow EXCEPT ![r] = flow[r]]
      /\ timers[r] \in SUBSET (1..MAX_RETRIES) /\ timers' = [timers EXCEPT ![r] = timers[r]]
  BY <1>1, Fields DEF Is
<1> QED BY <1>1, <1>2, OwnResponse, StreamIsSound

LEMMA DisarmedMoves ==
  ASSUME ProxyInv, NEW r \in Requests, Disarmed(r)
  PROVE  \E t \in SUBSET (1..MAX_RETRIES) : timers' = [timers EXCEPT ![r] = t]
<1>1. timers[r] \ {Attempt(r)} \in SUBSET (1..MAX_RETRIES)
  BY Fields
<1> QED BY <1>1 DEF Disarmed

\* The two handlers that test the text: a throw, or a new flow and a response that
\* is the attempt's own.
LEMMA TestedIsSound ==
  ASSUME ProxyInv, NEW r \in Requests, Is(r, "stream", "flowing"), Disarmed(r),
         UNCHANGED <<waits, gone, busy, broken>>,
         \/ HeadTaken(r) /\ Thrown(r)
         \/ /\ ~HeadTaken(r)
            /\ \E f \in FlowType : flow' = [flow EXCEPT ![r] = f]
            /\ \E pc \in {"flowing", "refused", "complete"} : Goto(r, pc)
            /\ \E s \in {Headed(r), Passed(r)} : res' = [res EXCEPT ![r] = s]
  PROVE  ProxyInv'
<1>1. PICK t \in SUBSET (1..MAX_RETRIES) : timers' = [timers EXCEPT ![r] = t]
  BY DisarmedMoves
<1>2. req[r].pc # "cooling" /\ busy' \in [Models -> SUBSET Requests]
  BY DEF Is, ProxyInv, ProxyTypeOK
<1>3. CASE HeadTaken(r) /\ Thrown(r)
  <2>1. PICK q \in ReqType : req' = [req EXCEPT ![r] = q] /\ q.pc = "lost"
    BY <1>3, GotoMoves DEF Thrown, Places
  <2>2. /\ flow[r] \in FlowType /\ flow' = [flow EXCEPT ![r] = flow[r]]
        /\ res[r] \in ResType /\ res' = [res EXCEPT ![r] = res[r]]
        /\ res[r].body \subseteq {res[r].head}
    BY <1>3, Fields DEF Thrown
  <2> QED BY <1>1, <1>2, <2>1, <2>2, StreamIsSound
<1>4. CASE ~(HeadTaken(r) /\ Thrown(r))
  <2>1. PICK pc \in {"flowing", "refused", "complete"} : Goto(r, pc)
    BY <1>4
  <2>2. PICK q \in ReqType : /\ req' = [req EXCEPT ![r] = q]
                             /\ q.pc = pc /\ q.attempt = req[r].attempt
    BY <2>1, GotoMoves DEF Places
  <2>3. PICK f \in FlowType : flow' = [flow EXCEPT ![r] = f]
    BY <1>4
  <2>4. PICK s \in {Headed(r), Passed(r)} : res' = [res EXCEPT ![r] = s]
    BY <1>4
  <2>5. s \in ResType /\ s.head = q.attempt /\ s.body \subseteq {s.head}
    BY <1>4, <2>2, <2>4, OwnResponse
  <2> QED BY <1>1, <1>2, <2>2, <2>3, <2>4, <2>5, StreamIsSound
<1> QED BY <1>3, <1>4

LEMMA TextType ==
  ASSUME ProxyInv, NEW r \in Requests
  PROVE  /\ Becomes(flow[r].text) \subseteq {"undecided", "clean", "refusal"}
         /\ flow[r].valid \in BOOLEAN /\ flow[r].sent \in BOOLEAN
BY Fields DEF Becomes, FlowType

LEMMA ChunkIsSound ==
  ASSUME ProxyInv, NEW r \in Requests, Chunk(r)
  PROVE  ProxyInv'
<1>1. /\ Is(r, "stream", "flowing") /\ Disarmed(r)
      /\ UNCHANGED <<waits, gone, busy, broken>>
  BY DEF Chunk
<1>2. CASE HeadTaken(r)
  BY <1>1, <1>2, TestedIsSound DEF Chunk
<1>3. CASE ~HeadTaken(r)
  <2>1. PICK text \in Becomes(flow[r].text) :
          /\ flow' = [flow EXCEPT ![r] = [sent |-> TRUE, valid |-> TRUE, text |-> text]]
          /\ IF text = "refusal"
             THEN Goto(r, "refused") /\ res' = [res EXCEPT ![r] = Headed(r)]
             ELSE UNCHANGED req /\ res' = [res EXCEPT ![r] = Passed(r)]
    BY <1>3 DEF Chunk
  <2>2. [sent |-> TRUE, valid |-> TRUE, text |-> text] \in FlowType
    BY TextType DEF FlowType
  <2>3. UNCHANGED req => Goto(r, "flowing")
    <3>1. req[r] = [req[r] EXCEPT !.pc = "flowing"]
      BY <1>1, Fields DEF Is, ReqType
    <3> QED BY <3>1, Fields DEF Goto
  <2> QED BY <1>1, <1>3, <2>1, <2>2, <2>3, TestedIsSound
<1> QED BY <1>2, <1>3

LEMMA StreamEndsIsSound ==
  ASSUME ProxyInv, NEW r \in Requests, StreamEnds(r)
  PROVE  ProxyInv'
<1>1. /\ Is(r, "stream", "flowing") /\ Disarmed(r)
      /\ UNCHANGED <<waits, gone, busy, broken>>
  BY DEF StreamEnds
<1>2. CASE HeadTaken(r)
  BY <1>1, <1>2, TestedIsSound DEF StreamEnds
<1>3. CASE ~HeadTaken(r)
  <2>1. PICK text \in Becomes(flow[r].text), valid \in {flow[r].valid, TRUE} :
          /\ flow' = [flow EXCEPT ![r] = [sent |-> TRUE, valid |-> valid, text |-> text]]
          /\ res' = [res EXCEPT ![r] = Headed(r)]
          /\ Goto(r, IF text = "refusal" THEN "refused" ELSE "complete")
    BY <1>3 DEF StreamEnds
  <2>2. [sent |-> TRUE, valid |-> valid, text |-> text] \in FlowType
    BY TextType DEF FlowType
  <2>3. \E pc \in {"flowing", "refused", "complete"} : Goto(r, pc)
    BY <2>1
  <2> QED BY <1>1, <1>3, <2>1, <2>2, <2>3, TestedIsSound
<1> QED BY <1>2, <1>3

LEMMA ResolvedMoves ==
  ASSUME ProxyInv, NEW r \in Requests, Resolved(r)
  PROVE  \E q \in ReqType : req' = [req EXCEPT ![r] = q] /\ q.pc \in {"loop", "done"}
<1> DEFINE q == [req[r] EXCEPT !.pc = "done", !.streamHeadersSent = flow[r].sent]
<1>1. q \in ReqType /\ q.pc = "done"
  BY Fields, TextType DEF ReqType, Places
<1>2. req' = [req EXCEPT ![r] = q]
  BY DEF Resolved
<1> QED BY <1>1, <1>2

LEMMA JudgedIsSound ==
  ASSUME ProxyInv, NEW r \in Requests, Refused(r) \/ Complete(r)
  PROVE  ProxyInv'
<1>1. /\ UNCHANGED <<flow, timers, gone, broken>> /\ req[r].pc # "cooling"
      /\ ModelOf[r] \in Models /\ {} \in SUBSET Requests
  BY ProxyAssumption DEF Refused, Complete, Is
<1>2. busy' \in [Models -> SUBSET Requests] /\ waits' \subseteq waits
  BY <1>1, CoolsType DEF Refused, Complete, ProxyInv, ProxyTypeOK
<1>3. Settles(r)
  <2>1. CASE RetryOrReply(r)
    BY <2>1, Settled
  <2>2. CASE NextAttempt(r) /\ Attempt(r) < MAX_RETRIES /\ UNCHANGED res
    BY <2>2, NextAttemptMoves, Fields DEF Settles
  <2>3. CASE /\ Resolved(r)
             /\ \E state \in {"open", "ended", "destroyed"} :
                  res' = [res EXCEPT ![r].state = state]
    BY <2>3, ResolvedMoves, EndSettles DEF Settles
  <2> QED BY <2>1, <2>2, <2>3 DEF Refused, Complete, Destroyed
<1> QED BY <1>1, <1>2, <1>3, SettlesIsSound

-----------------------------------------------------------------------------
LEMMA ProxyInvStep == ProxyInv /\ [ProxyNext]_proxyVars => ProxyInv'
<1> SUFFICES ASSUME ProxyInv, [ProxyNext]_proxyVars PROVE ProxyInv'
  OBVIOUS
<1>1. ASSUME NEW r \in Requests, Proxy(r) PROVE ProxyInv'
  BY <1>1, LoopIsSound, JudgedIsSound DEF Proxy
<1>2. ASSUME NEW r \in Requests, Upstream(r) PROVE ProxyInv'
  BY <1>2, UpstreamIsSound, PlainBreaksIsSound, StreamBeginsIsSound, StreamEndsIsSound
     DEF Upstream
<1>3. ASSUME NEW r \in Requests,
             Arrive(r) \/ BodyEnds(r) \/ ClientCloses(r)
             \/ IdleChunk(r) \/ Chunk(r)
      PROVE  ProxyInv'
  BY <1>3, ArriveIsSound, BodyEndsIsSound, ClientClosesIsSound, IdleChunkIsSound, ChunkIsSound
<1>4. ASSUME NEW r \in Requests, NEW a \in 1..MAX_RETRIES, TimerFires(r, a) PROVE ProxyInv'
  BY <1>4, TimerFiresIsSound
<1>5. ASSUME NEW m \in Models, BusyEnds(m) PROVE ProxyInv'
  BY <1>5, CooldownEndsIsSound
<1>6. CASE UNCHANGED proxyVars
  BY <1>6 DEF proxyVars, ProxyInv, ProxyTypeOK, Fits, Sends, Fresh
<1> QED BY <1>1, <1>2, <1>3, <1>4, <1>5, <1>6 DEF ProxyNext

\* Every variable of the proxy keeps its type; no request makes an attempt too many.
THEOREM ProxyTypeCorrect == ProxySpec => []ProxyTypeOK
<1>1. ProxyInv => ProxyTypeOK
  BY DEF ProxyInv
<1>2. ProxyInit => ProxyInv
  BY ProxyInvInit
<1> QED BY <1>1, <1>2, ProxyInvStep, PTL DEF ProxySpec

\* What a client of the proxy gets, status line and data, is of one upstream answer,
\* whatever attempts broke off before and whichever of their timers still fire.
THEOREM NeverMixed == ProxySpec => []OneSource
<1>1. ProxyInv => OneSource
  BY DEF ProxyInv, Fits, OneSource
<1>2. ProxyInit => ProxyInv
  BY ProxyInvInit
<1> QED BY <1>1, <1>2, ProxyInvStep, PTL DEF ProxySpec

-----------------------------------------------------------------------------
(* What has been sent stays sent                                           *)

\* To an answer is only added: a status line is written once, data is never taken
\* back, and an answer that has ended, or was broken off, is left alone by the
\* attempts and timers that outlive it (handleRequest, forwardStreamAggressive).
AnswerIsFinal ==
  \A r \in Requests :
    /\ res[r].state # "open" => res'[r] = res[r]
    /\ res[r].head # 0 => res'[r].head = res[r].head
    /\ res[r].body \subseteq res'[r].body

\* handleRequest has left whoever has an answer to the end.
EndedIsDone == \A r \in Requests : res[r].state # "open" => req[r].pc = "done"

\* What a step of the request r does to answers.
Adds(r) ==
  /\ \A p \in Requests \ {r} : req'[p] = req[p] /\ res'[p] = res[p]
  /\ res'[r].state # res[r].state => req'[r].pc = "done"
  /\ res[r].head # 0 => res'[r].head = res[r].head
  /\ res[r].body \subseteq res'[r].body

LEMMA ProxyFunctions ==
  ASSUME ProxyInv
  PROVE  req \in [Requests -> ReqType] /\ res \in [Requests -> ResType]
  BY DEF ProxyInv, ProxyTypeOK, ReqType, Places, ResType

\* A step of a request that is not done, whose answer is therefore open.
LEMMA AddsIsFinal ==
  ASSUME EndedIsDone, NEW r \in Requests, Adds(r), req[r].pc # "done"
  PROVE  EndedIsDone' /\ AnswerIsFinal
  BY DEF EndedIsDone, Adds, AnswerIsFinal

\* A step that writes nothing; who was done stays so.
LEMMA SilentIsFinal ==
  ASSUME EndedIsDone, UNCHANGED res,
         \A r \in Requests : req'[r] = req[r] \/ req[r].pc # "done" \/ req'[r].pc = "done"
  PROVE  EndedIsDone' /\ AnswerIsFinal
  BY DEF EndedIsDone, AnswerIsFinal

LEMMA GotoDone ==
  ASSUME ProxyInv, NEW r \in Requests, NEW pc \in Places, Goto(r, pc)
  PROVE  /\ \A p \in Requests \ {r} : req'[p] = req[p]
         /\ req'[r].pc = pc
  BY ProxyFunctions, GotoMoves DEF Goto

LEMMA QuietAdds ==
  ASSUME ProxyInv, NEW r \in Requests, UNCHANGED res,
         \A p \in Requests \ {r} : req'[p] = req[p]
  PROVE  Adds(r)
  BY ProxyFunctions DEF Adds

LEMMA AgainAdds ==
  ASSUME ProxyInv, NEW r \in Requests, NextAttempt(r), UNCHANGED res
  PROVE  Adds(r)
<1>1. \A p \in Requests \ {r} : req'[p] = req[p]
  BY ProxyFunctions DEF NextAttempt
<1> QED BY <1>1, QuietAdds

LEMMA WrittenAdds ==
  ASSUME ProxyInv, NEW r \in Requests, NEW a \in 1..MAX_RETRIES, res[r].head = 0,
         Written(r, a), Goto(r, "done")
  PROVE  Adds(r)
<1>1. "done" \in Places
  BY DEF Places
<1>2. /\ \A p \in Requests \ {r} : req'[p] = req[p]
      /\ req'[r].pc = "done"
  BY <1>1, GotoDone
<1>3. /\ \A p \in Requests \ {r} : res'[p] = res[p]
      /\ res'[r].body = res[r].body \cup {a}
  BY ProxyFunctions DEF Written
<1> QED BY <1>2, <1>3 DEF Adds

LEMMA ClosedAdds ==
  ASSUME ProxyInv, NEW r \in Requests, NEW state,
         res' = [res EXCEPT ![r].state = state],
         \A p \in Requests \ {r} : req'[p] = req[p],
         req'[r].pc = "done"
  PROVE  Adds(r)
<1>1. res[r] \in ResType
  BY ProxyFunctions
<1>2. /\ \A p \in Requests \ {r} : res'[p] = res[p]
      /\ res'[r] = [res[r] EXCEPT !.state = state]
  BY ProxyFunctions
<1>3. res'[r].body = res[r].body /\ res'[r].head = res[r].head
  BY <1>1, <1>2 DEF ResType
<1> QED BY <1>2, <1>3 DEF Adds

LEMMA SettledAdds ==
  ASSUME ProxyInv, NEW r \in Requests
  PROVE  /\ Caught(r) => Adds(r)
         /\ Reply(r) => Adds(r)
         /\ RetryOrReply(r) => Adds(r)
<1>1. "done" \in Places /\ Attempt(r) \in 1..MAX_RETRIES
  BY Fields DEF Places, Attempt
<1>2. Goto(r, "done") => /\ \A p \in Requests \ {r} : req'[p] = req[p]
                         /\ req'[r].pc = "done"
  BY <1>1, GotoDone
<1>3. Destroyed(r) /\ Goto(r, "done") => Adds(r)
  BY <1>2, ClosedAdds DEF Destroyed
<1>4. NextAttempt(r) /\ UNCHANGED res => Adds(r)
  BY AgainAdds
<1>5. res[r].head = 0 /\ Written(r, Attempt(r)) /\ Goto(r, "done") => Adds(r)
  BY <1>1, WrittenAdds
<1>6. UNCHANGED res /\ Goto(r, "done") => Adds(r)
  BY <1>2, QuietAdds
<1>7. Caught(r) => Adds(r)
  BY <1>3, <1>4, <1>5, <1>6 DEF Caught
<1>8. Reply(r) => Adds(r)
  BY <1>5, <1>7 DEF Reply
<1>9. RetryOrReply(r) => Adds(r)
  BY <1>4, <1>8 DEF RetryOrReply
<1> QED BY <1>7, <1>8, <1>9

\* The answers that are written before any attempt.
LEMMA ArrivalAdds ==
  ASSUME ProxyInv, NEW r \in Requests, Arrive(r) \/ BodyEnds(r)
  PROVE  Adds(r) /\ req[r].pc # "done"
<1>1. 1 \in 1..MAX_RETRIES /\ {"done", "loop", "body"} \subseteq Places
  BY ProxyAssumption DEF Places
<1>2. req[r].pc \in {"idle", "body"} /\ res[r].head = 0
  BY Fields DEF Arrive, BodyEnds, Fresh
<1> SUFFICES Adds(r)
  BY <1>2
<1>3. CASE Arrive(r)
  <2>1. PICK kind \in Kinds :
          /\ req' = [req EXCEPT ![r].kind = kind,
                                ![r].pc = IF kind = "head" THEN "done" ELSE "body"]
          /\ IF kind = "head" THEN Written(r, 1) ELSE UNCHANGED res
    BY <1>3 DEF Arrive
  <2>2. \A p \in Requests \ {r} : req'[p] = req[p]
    BY <2>1, ProxyFunctions
  <2>3. CASE kind = "head"
    <3>1. req'[r].pc = "done"
      BY <2>1, <2>3, ProxyFunctions DEF ReqType
    <3>2. /\ \A p \in Requests \ {r} : res'[p] = res[p]
          /\ res'[r].body = res[r].body \cup {1}
      BY <2>1, <2>3, ProxyFunctions DEF Written
    <3> QED BY <1>2, <2>2, <3>1, <3>2 DEF Adds
  <2>4. CASE kind # "head"
    BY <2>1, <2>2, <2>4, QuietAdds
  <2> QED BY <1>2, <2>3, <2>4
<1>4. CASE BodyEnds(r)
  <2>1. CASE Goto(r, "loop") /\ UNCHANGED res
    BY <1>1, <2>1, GotoDone, QuietAdds
  <2>2. CASE Written(r, 1) /\ Goto(r, "done")
    BY <1>1, <1>2, <2>2, WrittenAdds
  <2>3. CASE Goto(r, "done") /\ UNCHANGED res
    BY <1>1, <2>3, GotoDone, QuietAdds
  <2> QED BY <1>2, <1>4, <2>1, <2>2, <2>3 DEF BodyEnds
<1> QED BY <1>3, <1>4

LEMMA ForwardAdds ==
  ASSUME ProxyInv, NEW r \in Requests, Forward(r)
  PROVE  Adds(r)
<1>1. {"done", "upstream"} \subseteq Places
  BY DEF Places
<1>2. CASE Destroyed(r) /\ Goto(r, "done")
  BY <1>1, <1>2, GotoDone, ClosedAdds DEF Destroyed
<1>3. CASE (Goto(r, "done") \/ Goto(r, "upstream")) /\ UNCHANGED res
  BY <1>1, <1>3, GotoDone, QuietAdds
<1> QED BY <1>2, <1>3 DEF Forward

LEMMA LoopAdds ==
  ASSUME ProxyInv, NEW r \in Requests, Loop(r) \/ WaitEnds(r)
  PROVE  Adds(r) /\ req[r].pc # "done"
<1>1. {"done", "cooling"} \subseteq Places
  BY DEF Places
<1>0. req[r].pc # "done"
  BY DEF Loop, WaitEnds
<1> SUFFICES Adds(r)
  BY <1>0
<1>2. CASE (Goto(r, "done") \/ Goto(r, "cooling")) /\ UNCHANGED res
  BY <1>1, <1>2, GotoDone, QuietAdds
<1>3. Forward(r) \/ ((Goto(r, "done") \/ Goto(r, "cooling")) /\ UNCHANGED res)
  BY DEF Loop, WaitEnds
<1> QED BY <1>2, <1>3, ForwardAdds

\* An attempt that settles, whatever upstream did, or is given up.
LEMMA UpstreamAdds ==
  ASSUME ProxyInv, NEW r \in Requests,
         UpstreamError(r) \/ UpstreamFails(r) \/ PlainRefusal(r) \/ PlainAnswer(r)
         \/ PlainBreaks(r) \/ StreamBegins(r) \/ StreamBreaks(r)
  PROVE  Adds(r) /\ req[r].pc # "done"
<1>1. {"lost", "flowing"} \subseteq Places
  BY DEF Places
<1>2. req[r].pc # "done"
  BY DEF UpstreamError, UpstreamFails, PlainRefusal, PlainAnswer, PlainBreaks, StreamBegins,
         StreamBreaks, Is
<1> SUFFICES Adds(r)
  BY <1>2
<1>3. CASE UpstreamError(r) \/ UpstreamFails(r) \/ PlainRefusal(r) \/ PlainAnswer(r)
           \/ StreamBreaks(r)
  BY <1>3, SettledAdds DEF UpstreamError, UpstreamFails, PlainRefusal, PlainAnswer, StreamBreaks
<1>4. CASE PlainBreaks(r)
  BY <1>1, <1>4, GotoDone, QuietAdds DEF PlainBreaks
<1>5. CASE StreamBegins(r)
  BY <1>1, <1>5, GotoDone, QuietAdds DEF StreamBegins
<1> QED BY <1>3, <1>4, <1>5

LEMMA ResolvedDone ==
  ASSUME ProxyInv, NEW r \in Requests, Resolved(r)
  PROVE  /\ \A p \in Requests \ {r} : req'[p] = req[p]
         /\ req'[r].pc = "done"
  BY ProxyFunctions DEF Resolved, ReqType

LEMMA JudgedAdds ==
  ASSUME ProxyInv, NEW r \in Requests, Refused(r) \/ Complete(r)
  PROVE  Adds(r) /\ req[r].pc # "done"
<1>0. req[r].pc # "done"
  BY DEF Refused, Complete, Is
<1> SUFFICES Adds(r)
  BY <1>0
<1>1. CASE /\ Resolved(r)
           /\ \E state \in {"ended", "destroyed"} : res' = [res EXCEPT ![r].state = state]
  BY <1>1, ResolvedDone, ClosedAdds
<1>2. CASE RetryOrReply(r)
  BY <1>2, SettledAdds
<1>3. CASE NextAttempt(r) /\ UNCHANGED res
  BY <1>3, AgainAdds
<1>4. \/ RetryOrReply(r) \/ (NextAttempt(r) /\ UNCHANGED res)
      \/ /\ Resolved(r)
         /\ \E state \in {"ended", "destroyed"} : res' = [res EXCEPT ![r].state = state]
  BY DEF Refused, Complete, Destroyed
<1> QED BY <1>1, <1>2, <1>3, <1>4

\* What is written of a stream that goes on is written in its attempt's name only
\* if there are no headers yet.
LEMMA StreamAdds ==
  ASSUME ProxyInv, NEW r \in Requests, IdleChunk(r) \/ Chunk(r) \/ StreamEnds(r)
  PROVE  Adds(r) /\ req[r].pc # "done"
<1>1. {"lost", "refused", "complete"} \subseteq Places
  BY DEF Places
<1>2. req[r].pc # "done"
  BY DEF IdleChunk, Chunk, StreamEnds, Is
<1> SUFFICES Adds(r)
  BY <1>2
<1>3. CASE Thrown(r)
  BY <1>1, <1>3, GotoDone, QuietAdds DEF Thrown
<1>4. CASE /\ UNCHANGED req \/ Goto(r, "refused") \/ Goto(r, "complete")
           /\ \/ res' = [res EXCEPT ![r] = Passed(r)]
              \/ res' = [res EXCEPT ![r] = Headed(r)]
  <2>1. \A p \in Requests \ {r} : req'[p] = req[p] /\ res'[p] = res[p]
    BY <1>1, <1>4, GotoDone, ProxyFunctions
  <2>2. res'[r] = Passed(r) \/ res'[r] = Headed(r)
    BY <1>4, ProxyFunctions
  <2>3. /\ res'[r].state = res[r].state
        /\ res[r].head # 0 => res'[r].head = res[r].head
        /\ res[r].body \subseteq res'[r].body
    BY <2>2, ProxyFunctions DEF Passed, Headed, ResType
  <2> QED BY <2>1, <2>3 DEF Adds
<1>5. CASE IdleChunk(r)
  BY <1>4, <1>5 DEF IdleChunk
<1>6. CASE Chunk(r)
  BY <1>3, <1>4, <1>6 DEF Chunk
<1>7. CASE StreamEnds(r)
  BY <1>3, <1>4, <1>7 DEF StreamEnds
<1> QED BY <1>5, <1>6, <1>7

\* A timer that outlives its attempt finds an answer that is open and without a
\* status line, or does nothing.
LEMMA TimerIsFinal ==
  ASSUME ProxyInv, EndedIsDone, NEW r \in Requests, NEW a \in 1..MAX_RETRIES, TimerFires(r, a)
  PROVE  EndedIsDone' /\ AnswerIsFinal
<1>1. CASE res' = [res EXCEPT ![r].head = a] /\ res[r].state = "open" /\ res[r].head = 0
  <2>1. /\ \A p \in Requests \ {r} : res'[p] = res[p]
        /\ res'[r].state = res[r].state /\ res'[r].body = res[r].body
    BY <1>1, ProxyFunctions DEF ResType
  <2>2. UNCHANGED req
    BY DEF TimerFires
  <2> QED BY <1>1, <2>1, <2>2 DEF EndedIsDone, AnswerIsFinal
<1>2. CASE UNCHANGED <<res, req>>
  BY <1>2, SilentIsFinal
<1> QED BY <1>1, <1>2 DEF TimerFires

LEMMA ClosesIsFinal ==
  ASSUME ProxyInv, EndedIsDone, NEW r \in Requests, ClientCloses(r)
  PROVE  EndedIsDone' /\ AnswerIsFinal
<1>1. \A p \in Requests : req'[p] = req[p] \/ req'[p].pc = "done"
  BY ProxyFunctions DEF ClientCloses, ReqType
<1> QED BY <1>1, SilentIsFinal DEF ClientCloses

LEMMA FinalStep ==
  ASSUME ProxyInv, EndedIsDone, [ProxyNext]_proxyVars
  PROVE  EndedIsDone' /\ (ProxyNext => AnswerIsFinal)
<1>1. ASSUME NEW r \in Requests, Arrive(r) \/ BodyEnds(r) \/ Proxy(r) \/ Upstream(r)
             \/ IdleChunk(r) \/ Chunk(r)
      PROVE  EndedIsDone' /\ AnswerIsFinal
  <2>1. Adds(r) /\ req[r].pc # "done"
    BY <1>1, ArrivalAdds, LoopAdds, UpstreamAdds, JudgedAdds, StreamAdds DEF Proxy, Upstream
  <2> QED BY <2>1, AddsIsFinal
<1>2. ASSUME NEW r \in Requests, NEW a \in 1..MAX_RETRIES, TimerFires(r, a)
      PROVE  EndedIsDone' /\ AnswerIsFinal
  BY <1>2, TimerIsFinal
<1>3. ASSUME NEW r \in Requests, ClientCloses(r)
      PROVE  EndedIsDone' /\ AnswerIsFinal
  BY <1>3, ClosesIsFinal
<1>4. ASSUME NEW m \in Models, BusyEnds(m)
      PROVE  EndedIsDone' /\ AnswerIsFinal
  <2>1. UNCHANGED <<req, res>>
    BY <1>4 DEF BusyEnds
  <2> QED BY <2>1, SilentIsFinal
<1>5. UNCHANGED proxyVars => EndedIsDone'
  BY DEF proxyVars, EndedIsDone
<1>6. ProxyNext => EndedIsDone' /\ AnswerIsFinal
  BY <1>1, <1>2, <1>3, <1>4 DEF ProxyNext
<1> QED BY <1>5, <1>6

\* Nothing that has reached a client of the proxy is ever changed or withdrawn, and
\* nothing follows the end of an answer: attempts given up and their timers included.
THEOREM AnswersAreFinal == ProxySpec => [][AnswerIsFinal]_proxyVars
<1>1. ProxyInit => EndedIsDone
  BY DEF ProxyInit, EndedIsDone
<1>2. ProxyInit => ProxyInv
  BY ProxyInvInit
<1>3. ProxyInv /\ EndedIsDone /\ [ProxyNext]_proxyVars
        => EndedIsDone' /\ [AnswerIsFinal]_proxyVars
  BY FinalStep
<1> QED BY <1>1, <1>2, <1>3, ProxyInvStep, PTL DEF ProxySpec
=============================================================================
