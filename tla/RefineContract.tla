--------------------------- MODULE RefineContract ---------------------------
(***************************************************************************)
(* What a caller of SignalLLMClient may rely on, whatever the providers    *)
(* do: refine, refine_batch and _call_llm return, and refine_batch returns *)
(* one answer per message, in the order of the messages, each either       *)
(* nothing or an answer about that very message (signal_llm.py, the        *)
(* docstring of refine_batch: "same length as input, aligned by index").   *)
(***************************************************************************)
EXTENDS Naturals, Sequences

CONSTANTS
  Threads,    \* callers
  BatchSize   \* bound on the messages of a batch

VARIABLES
  asked,      \* per thread, how many messages its call is about, 0 without a call
  answers     \* per thread, the answers its call has so far

vars == <<asked, answers>>

Nothing == 0
Aligned(s) == \A i \in DOMAIN s : s[i] \in {Nothing, i}
Lists(n)   == UNION {[1..k -> 0..BatchSize] : k \in 0..n}

Init ==
  /\ asked = [t \in Threads |-> 0]
  /\ answers = [t \in Threads |-> <<>>]

Ask(t) ==
  /\ asked[t] = 0
  /\ \E n \in 1..BatchSize : asked' = [asked EXCEPT ![t] = n]
  /\ UNCHANGED answers

Answer(t) ==
  /\ \E s \in Lists(asked[t]) :
       /\ Aligned(s)
       /\ Len(answers[t]) < Len(s)
       /\ \A i \in DOMAIN answers[t] : s[i] = answers[t][i]
       /\ answers' = [answers EXCEPT ![t] = s]
  /\ UNCHANGED asked

Return(t) ==
  /\ asked[t] > 0
  /\ Len(answers[t]) = asked[t]
  /\ asked' = [asked EXCEPT ![t] = 0]
  /\ answers' = [answers EXCEPT ![t] = <<>>]

Next == \E t \in Threads : Ask(t) \/ Answer(t) \/ Return(t)

\* What the answers are, and that there is one in the end.
Safety == Init /\ [][Next]_vars

Spec ==
  /\ Safety
  /\ \A t \in Threads : WF_vars(Answer(t)) /\ WF_vars(Return(t))
=============================================================================
