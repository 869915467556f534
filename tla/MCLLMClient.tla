---------------------------- MODULE MCLLMClient ----------------------------
(* Two providers, tried in either order or alone; the configs differ in what *)
(* fallback_order says, one names no second provider, one is a legacy one.   *)
EXTENDS LLMClient

CONSTANTS astron, anthropic, batch, other

\* The batch service's thread; a listener's thread, which may be the digest's.
MCCalls == [t \in {batch, other} |-> IF t = batch THEN {"batch"} ELSE {"refine", "text"}]

Raw(p, ps, legacy, given, order) ==
  [provider |-> p, providers |-> ps, legacy |-> legacy, given |-> given, fallback |-> order]

MCRawConfigs ==
  {Raw(astron, {astron, anthropic}, FALSE, TRUE, <<astron, anthropic>>),
   Raw(astron, {astron, anthropic}, FALSE, TRUE, <<anthropic>>),
   Raw(astron, {anthropic}, FALSE, FALSE, <<>>),
   Raw(astron, {}, TRUE, FALSE, <<>>)}
=============================================================================
