------------------------------ MODULE LLMClient ------------------------------
(***************************************************************************)
(* SignalLLMClient of signal_llm.py, shared by the threads of the batch    *)
(* service, the listener and the digest: the chain of providers with       *)
(* retries and cool-downs (_call_with_fallback), and above it the retries  *)
(* of refine and refine_batch, which falls back to one call per message.   *)
(*                                                                         *)
(* Time is abstracted: a cool-down or a sleep is over when a step says so; *)
(* the lengths of cool-downs and delays are left out. Of an answer the     *)
(* model keeps which messages it is about and whether it validates.        *)
(***************************************************************************)
EXTENDS Naturals, Sequences, FiniteSets, Functions

CONSTANTS
  Threads,      \* threads that call the client
  Calls,        \* which of its methods each thread calls
  Providers,
  RawConfigs,   \* the signal.llm sections the client may be built from
  BatchSize,    \* bound on the messages of one refine_batch
  InTries,      \* _IN_PROVIDER_RETRIES
  MaxRetries    \* config.max_retries

Methods == {"refine", "batch", "text"}

ASSUME LLMAssumption ==
  /\ Calls \in [Threads -> SUBSET Methods]
  /\ BatchSize \in Nat \ {0}
  /\ InTries \in Nat \ {0}
  /\ MaxRetries \in Nat \ {0}
  /\ RawConfigs \subseteq [provider : Providers, providers : SUBSET Providers,
                           legacy : BOOLEAN, given : BOOLEAN, fallback : Seq(Providers)]

VARIABLES
  chain,      \* fallback_order without the providers that have no client
  cooled,     \* per provider, who set the cool-down in force: one thread or none
  round,      \* per thread, its run through the chain
  job         \* per thread, the call it works on

vars == <<chain, cooled, round, job>>

-----------------------------------------------------------------------------
(* Construction                                                            *)

\* from_dict: the active provider needs credentials of its own or, in a
\* legacy config, at the top level; a fallback_order must name providers.
Accepted(raw) ==
  /\ raw.provider \in raw.providers \/ raw.legacy
  /\ raw.given => /\ raw.fallback # <<>>
                  /\ Range(raw.fallback) \subseteq raw.providers

FallbackOrder(raw) == IF raw.given THEN raw.fallback ELSE <<raw.provider>>

\* The pool: providers whose client cannot be built are left out, and a
\* client without any provider is refused.
Pool(raw) == (SUBSET Range(FallbackOrder(raw))) \ {{}}

\* The order without them: the members of pool, where and as often as it has them.
Kept(order, pool) ==
  LET places == {i \in DOMAIN order : order[i] \in pool}
  IN {c \in [1..Cardinality(places) -> pool] :
        \E place \in [DOMAIN c -> places] :
          /\ \A i \in DOMAIN c : c[i] = order[place[i]]
          /\ \A i, j \in DOMAIN c : i < j => place[i] < place[j]}

-----------------------------------------------------------------------------
(* What comes back                                                         *)

Nothing == 0

\* Fields of an item as _validate_response tells them apart.
Items == [symbols   : {"list", "none", "not strings"},
          scores    : {"in range", "missing or out of range"},
          halflife  : {"absent", "number", "below one", "not a number"},
          event     : {"valid", "other"},
          reasoning : {"text", "none"}]

\* The first check that fails decides; two of them raise something else than
\* LLMRefineError.
Validate(item) ==
  CASE item.symbols = "none"                                 -> "refused"
    [] item.symbols = "not strings"                          -> "raised"
    [] item.symbols = "list" /\ item.scores # "in range"     -> "refused"
    [] item.symbols = "list" /\ item.scores = "in range"
         /\ item.halflife = "not a number"                   -> "raised"
    [] OTHER -> IF item.halflife # "below one" /\ item.event = "valid" /\ item.reasoning = "text"
                THEN "valid" ELSE "refused"

Verdicts == {Validate(item) : item \in Items}

\* The items of a parsed batch answer, by their index; an item without an
\* index or with one of no message is dropped.
BatchAnswers(n) == UNION {[S -> Verdicts] : S \in SUBSET (1..n)}

\* Fault: the answers are listed as they came.
AssembledAsTheyCame(n, answer) ==
  LET good == {i \in DOMAIN answer : answer[i] = "valid"}
  IN [i \in 1..n |-> IF i <= Cardinality(good)
                     THEN CHOOSE j \in good : Cardinality({k \in good : k < j}) = i - 1
                     ELSE Nothing]

Assembled(n, answer) ==
  [i \in 1..n |-> IF i \in DOMAIN answer /\ answer[i] = "valid" THEN i ELSE Nothing]

-----------------------------------------------------------------------------
Idle     == [kind |-> "none", size |-> 0, whole |-> FALSE, attempt |-> 0, results |-> <<>>]
AtRest   == [pc |-> "rest", at |-> 1, try |-> 1, waits |-> FALSE, called |-> {}]
Start    == [AtRest EXCEPT !.pc = "ready"]
Failed   == [AtRest EXCEPT !.pc = "failed"]

Init ==
  /\ \E raw \in RawConfigs :
       /\ Accepted(raw)
       /\ \E pool \in Pool(raw) : chain \in Kept(FallbackOrder(raw), pool)
  /\ cooled = [p \in Providers |-> {}]
  /\ round = [t \in Threads |-> AtRest]
  /\ job = [t \in Threads |-> Idle]

Provider(t) == chain[round[t].at]

\* A call of refine (one message), of refine_batch, or of _call_llm for text.
Begin(t) ==
  /\ job[t].kind = "none"
  /\ \E kind \in Calls[t], n \in 1..BatchSize :
       /\ kind # "batch" => n = 1
       /\ job' = [job EXCEPT ![t] = [kind |-> kind, size |-> n, whole |-> kind = "batch",
                                     attempt |-> 1, results |-> <<>>]]
  /\ round' = [round EXCEPT ![t] = Start]
  /\ UNCHANGED <<chain, cooled>>

-----------------------------------------------------------------------------
(* _call_with_fallback                                                     *)

StartCall(t) ==
  round' = [round EXCEPT ![t] = [round[t] EXCEPT !.pc = "calling", !.waits = FALSE,
                                                 !.called = @ \cup {Provider(t)}]]

\* Fault: as in glm-proxy/proxy.mjs, but on the first attempt only.
WaitOnFirstTry(t) ==
  /\ round[t].pc = "ready"
  /\ IF cooled[Provider(t)] = {} \/ round[t].try > 1
     THEN StartCall(t)
     ELSE round' = [round EXCEPT ![t] = [round[t] EXCEPT !.pc = "asleep", !.waits = TRUE]]
  /\ UNCHANGED <<chain, cooled, job>>

\* _wait_if_busy: the deadline is read under the lock and slept away without it.
WaitIfBusy(t) ==
  /\ round[t].pc = "ready"
  /\ IF cooled[Provider(t)] = {}
     THEN StartCall(t)
     ELSE round' = [round EXCEPT ![t] = [round[t] EXCEPT !.pc = "asleep", !.waits = TRUE]]
  /\ UNCHANGED <<chain, cooled, job>>

\* The sleep is over; the call starts without another look at the cool-down.
Wake(t) ==
  /\ round[t].pc = "asleep"
  /\ ~round[t].waits
  /\ StartCall(t)
  /\ UNCHANGED <<chain, cooled, job>>

\* What sleepers on p wait for is no longer the deadline in force.
Released(p, r) ==
  [t \in Threads |-> IF r[t].pc = "asleep" /\ chain[r[t].at] = p
                     THEN [r[t] EXCEPT !.waits = FALSE] ELSE r[t]]

CooldownEnds(p) ==
  /\ cooled[p] # {}
  /\ cooled' = [cooled EXCEPT ![p] = {}]
  /\ round' = Released(p, round)
  /\ UNCHANGED <<chain, job>>

NextTry(t) ==
  [round EXCEPT ![t] = [round[t] EXCEPT !.pc = "ready", !.try = @ + 1]]

\* Fault: the last provider of the chain never has its turn.
NextProviderButLast(t) ==
  IF round[t].at + 1 < Len(chain)
  THEN [round EXCEPT ![t] = [round[t] EXCEPT !.pc = "ready", !.at = @ + 1, !.try = 1]]
  ELSE [round EXCEPT ![t].pc = "exhausted"]

NextProvider(t) ==
  IF round[t].at < Len(chain)
  THEN [round EXCEPT ![t] = [round[t] EXCEPT !.pc = "ready", !.at = @ + 1, !.try = 1]]
  ELSE [round EXCEPT ![t].pc = "exhausted"]

\* Fault: one try too many.
RetryOnceMore(t) == IF round[t].try <= InTries THEN NextTry(t) ELSE NextProvider(t)

Retry(t) == IF round[t].try < InTries THEN NextTry(t) ELSE NextProvider(t)

\* A refusal is text: the same provider again, then the next one.
Refusal(t) ==
  /\ round[t].pc = "calling"
  /\ round' = Retry(t)
  /\ UNCHANGED <<chain, cooled, job>>

\* Cut off by max_tokens, or a transient error that is no 503 and no 429.
GivesWay(t) ==
  /\ round[t].pc = "calling"
  /\ round' = NextProvider(t)
  /\ UNCHANGED <<chain, cooled, job>>

\* 503 or 429: _mark_busy, _mark_rate_limited. The new deadline is the later one.
Overloaded(t) ==
  /\ round[t].pc = "calling"
  /\ cooled' = [cooled EXCEPT ![Provider(t)] = {t}]
  /\ round' = Released(Provider(t), Retry(t))
  /\ UNCHANGED <<chain, job>>

\* 400, 401, 403, an answer without content, a 429 whose text is JSON that
\* speaks of authorization: raised at once.
Permanent(t) ==
  /\ round[t].pc = "calling"
  /\ round' = [round EXCEPT ![t] = Failed]
  /\ UNCHANGED <<chain, cooled, job>>

\* Every provider had its turn: the last error is raised, or RuntimeError.
Exhausted(t) ==
  /\ round[t].pc = "exhausted"
  /\ round' = [round EXCEPT ![t] = Failed]
  /\ UNCHANGED <<chain, cooled, job>>

\* _mark_ok: the cool-down goes, whoever set it, and the text is returned.
Text(t) ==
  /\ round[t].pc = "calling"
  /\ cooled' = [cooled EXCEPT ![Provider(t)] = {}]
  /\ round' = Released(Provider(t), [round EXCEPT ![t] = [AtRest EXCEPT !.pc = "text"]])
  /\ UNCHANGED <<chain, job>>

-----------------------------------------------------------------------------
(* refine and refine_batch                                                 *)

Settle(t, results) ==
  /\ job' = [job EXCEPT ![t] = [job[t] EXCEPT !.results = results, !.attempt = 1]]
  /\ round' = [round EXCEPT ![t] = IF Len(results) = job[t].size THEN AtRest ELSE Start]

\* The text is parsed and validated: refine takes a valid object, refine_batch
\* what validates of the items unless one of them raises.
Parsed(t) ==
  /\ round[t].pc = "text"
  /\ IF job[t].whole
     THEN \E answer \in BatchAnswers(job[t].size) :
            /\ \A i \in DOMAIN answer : answer[i] # "raised"
            /\ Settle(t, Assembled(job[t].size, answer))
     ELSE Settle(t, Append(job[t].results, Len(job[t].results) + 1))
  /\ UNCHANGED <<chain, cooled>>

\* No JSON, no array in it, an item that raises; for refine one that is refused.
Unusable(t) ==
  /\ round[t].pc = "text"
  /\ job[t].kind # "text"
  /\ round' = [round EXCEPT ![t] = Failed]
  /\ UNCHANGED <<chain, cooled, job>>

\* Again, if an attempt is left; then a batch turns to single calls, a single
\* call has no result. _call_llm alone makes one attempt.
AttemptFailed(t) ==
  /\ round[t].pc = "failed"
  /\ IF job[t].attempt < MaxRetries /\ job[t].kind # "text"
     THEN /\ job' = [job EXCEPT ![t].attempt = @ + 1]
          /\ round' = [round EXCEPT ![t] = Start]
     ELSE IF job[t].whole
          THEN /\ job' = [job EXCEPT ![t] = [job[t] EXCEPT !.whole = FALSE, !.attempt = 1]]
               /\ round' = [round EXCEPT ![t] = Start]
          ELSE Settle(t, Append(job[t].results, Nothing))
  /\ UNCHANGED <<chain, cooled>>

Return(t) ==
  /\ job[t].kind # "none"
  /\ Len(job[t].results) = job[t].size
  /\ job' = [job EXCEPT ![t] = Idle]
  /\ UNCHANGED <<chain, cooled, round>>

-----------------------------------------------------------------------------
Answered(t) == Refusal(t) \/ GivesWay(t) \/ Overloaded(t) \/ Permanent(t) \/ Text(t)
Works(t)    == \/ WaitIfBusy(t) \/ Wake(t) \/ Answered(t) \/ Exhausted(t)
               \/ Parsed(t) \/ Unusable(t) \/ AttemptFailed(t) \/ Return(t)

Next == \/ \E t \in Threads : Begin(t) \/ Works(t)
        \/ \E p \in Providers : CooldownEnds(p)

Spec == Init /\ [][Next]_vars

\* A thread in a call goes on: every request has a read timeout, every sleep
\* an end.
Fairness ==
  /\ \A t \in Threads : WF_vars(Works(t))
  /\ \A p \in Providers : WF_vars(CooldownEnds(p))

FairSpec == Spec /\ Fairness

-----------------------------------------------------------------------------
(* Properties                                                              *)

\* Type correctness of the client's state (signal_llm.py).
TypeOK ==
  /\ chain \in Seq(Providers) /\ chain # <<>>
  /\ cooled \in [Providers -> SUBSET Threads]
  /\ round \in [Threads ->
       [pc : {"rest", "ready", "asleep", "calling", "text", "exhausted", "failed"},
        at : DOMAIN chain, try : 1..InTries, waits : BOOLEAN, called : SUBSET Providers]]
  /\ \A t \in Threads :
       /\ job[t].kind \in Methods \cup {"none"}
       /\ job[t].size \in 0..BatchSize
       /\ job[t].attempt \in 0..MaxRetries
       /\ job[t].whole \in BOOLEAN
       /\ Len(job[t].results) <= job[t].size

\* _call_with_fallback gives up for want of an answer only after every provider
\* with a client was called in this very round, whatever mixture of refusals,
\* truncations, overloads and transient errors it met on the way.
GivesUpAfterAll ==
  \A t \in Threads : round[t].pc = "exhausted" => round[t].called = Range(chain)

\* A thread whose own 503 or 429 cooled a provider down does not call it again
\* before that cool-down ended or another thread's success lifted it
\* (_wait_if_busy before every try, the first one of a later call included).
\* What another thread sets during the sleep is not waited for.
OwnCooldownHonoured ==
  [][\A t \in Threads :
       round[t].pc # "calling" /\ round'[t].pc = "calling" => t \notin cooled[Provider(t)]]_vars

Contract == INSTANCE RefineContract WITH
  asked   <- [t \in Threads |-> job[t].size],
  answers <- [t \in Threads |-> job[t].results]

\* refine, refine_batch and _call_llm implement their contract: each call
\* returns, with one answer per message in the order of the messages, and an
\* answer once settled is not changed by a later attempt.
ImplementsContract == Contract!Spec
=============================================================================
