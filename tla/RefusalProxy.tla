---------------------------- MODULE RefusalProxy ----------------------------
(***************************************************************************)
(* glm-proxy/proxy.mjs: requests are forwarded to one upstream, retried on *)
(* errors, refusals and empty answers, and cooled down per model. One      *)
(* event loop runs everything; a step is what runs between two awaits or   *)
(* in one event handler.                                                   *)
(*                                                                         *)
(* writeHead on a response whose headers are out throws; thrown in a       *)
(* handler the exception is logged and the promise of the attempt stays    *)
(* unsettled ("lost"). Delays are abstracted: a timer fires when a step    *)
(* says so. Texts are abstracted to what the refusal test tells apart.     *)
(***************************************************************************)
EXTENDS Naturals, FiniteSets

CONSTANTS
  Requests,
  Models,
  ModelOf,      \* the model a request names
  MAX_RETRIES

ASSUME ProxyAssumption ==
  /\ ModelOf \in [Requests -> Models]
  /\ MAX_RETRIES \in Nat \ {0}

VARIABLES
  req,      \* where handleRequest is for each request
  waits,    \* requests asleep until the cool-down in force ends
  flow,     \* the streaming attempt of each request
  timers,   \* per request, the attempts whose headers timer is armed
  res,      \* the response to the client
  gone,     \* requests whose client closed the connection
  busy    \* per model, who set the cool-down in force: one request or none

\* History: requests one of whose answers broke off after it had begun.
VARIABLE broken

proxyVars == <<req, waits, flow, timers, res, gone, busy, broken>>

Kinds == {"head", "count", "plain", "stream"}
NewFlow == [sent |-> FALSE, valid |-> FALSE, text |-> "undecided"]

ProxyInit ==
  /\ req = [r \in Requests |-> [pc |-> "idle", kind |-> "head", attempt |-> 1,
                                streamHeadersSent |-> FALSE]]
  /\ waits = {}
  /\ flow = [r \in Requests |-> NewFlow]
  /\ timers = [r \in Requests |-> {}]
  /\ res = [r \in Requests |-> [state |-> "open", head |-> 0, body |-> {}]]
  /\ gone = {}
  /\ busy = [m \in Models |-> {}]
  /\ broken = {}

Goto(r, pc)     == req' = [req EXCEPT ![r].pc = pc]
Is(r, kind, pc) == req[r].kind = kind /\ req[r].pc = pc
Attempt(r)      == req[r].attempt

-----------------------------------------------------------------------------
(* The response: head and body remember the attempt they come from         *)

Written(r, a) ==
  res' = [res EXCEPT ![r] = [state |-> "ended", head |-> a, body |-> res[r].body \cup {a}]]
Destroyed(r)  == res' = [res EXCEPT ![r].state = "destroyed"]

NextAttempt(r) == req' = [req EXCEPT ![r].pc = "loop", ![r].attempt = Attempt(r) + 1]

\* The catch clause. Its own writeHead(502) can throw: then nobody ends the response.
Caught(r) ==
  CASE req[r].kind = "stream" /\ req[r].streamHeadersSent -> Destroyed(r) /\ Goto(r, "done")
    [] ~(req[r].kind = "stream" /\ req[r].streamHeadersSent) /\ Attempt(r) < MAX_RETRIES ->
         NextAttempt(r) /\ UNCHANGED res
    [] OTHER -> /\ IF res[r].head = 0 THEN Written(r, Attempt(r)) ELSE UNCHANGED res
                /\ Goto(r, "done")

\* writeHead and end with what upstream said; a throw leads to the catch clause.
Reply(r) ==
  IF res[r].head = 0 THEN Written(r, Attempt(r)) /\ Goto(r, "done") ELSE Caught(r)

\* Fault: one attempt too many.
AttemptOnceMore(r) ==
  IF Attempt(r) <= MAX_RETRIES THEN NextAttempt(r) /\ UNCHANGED res ELSE Reply(r)

\* Fault: after the last attempt nobody answers.
RetryOrNothing(r) ==
  IF Attempt(r) < MAX_RETRIES THEN NextAttempt(r) /\ UNCHANGED res
  ELSE Goto(r, "done") /\ UNCHANGED res

RetryOrReply(r) ==
  IF Attempt(r) < MAX_RETRIES THEN NextAttempt(r) /\ UNCHANGED res ELSE Reply(r)

-----------------------------------------------------------------------------
(* Arrival                                                                 *)

\* HEAD is answered at once; the others first read the body.
Arrive(r) ==
  /\ req[r].pc = "idle"
  /\ \E kind \in Kinds :
       /\ req' = [req EXCEPT ![r].kind = kind, ![r].pc = IF kind = "head" THEN "done" ELSE "body"]
       /\ IF kind = "head" THEN Written(r, 1) ELSE UNCHANGED res
  /\ UNCHANGED <<waits, flow, timers, gone, busy, broken>>

\* count_tokens is answered here, as is a body that is no JSON.
BodyEnds(r) ==
  /\ req[r].pc = "body"
  /\ \/ req[r].kind # "count" /\ r \notin gone /\ Goto(r, "loop") /\ UNCHANGED res
     \/ r \notin gone /\ Written(r, 1) /\ Goto(r, "done")
     \/ r \in gone /\ Goto(r, "done") /\ UNCHANGED res
  /\ UNCHANGED <<waits, flow, timers, gone, busy, broken>>

\* Fault: only an attempt that is still flowing is given up.
ClosesQuietly(r) ==
  /\ req[r].pc # "idle" /\ res[r].state = "open" /\ r \notin gone
  /\ gone' = gone \cup {r}
  /\ req' = IF req[r].pc = "flowing" THEN [req EXCEPT ![r].pc = "done"] ELSE req
  /\ UNCHANGED <<waits, flow, timers, res, busy, broken>>

\* onClientClose aborts the attempt under way, whose promise is rejected.
ClientCloses(r) ==
  /\ req[r].pc # "idle" /\ res[r].state = "open" /\ r \notin gone
  /\ gone' = gone \cup {r}
  /\ req' = IF req[r].pc \in {"upstream", "flowing", "lost"}
            THEN [req EXCEPT ![r].pc = "done"] ELSE req
  /\ UNCHANGED <<waits, flow, timers, res, busy, broken>>

-----------------------------------------------------------------------------
(* The loop of attempts                                                    *)

\* The start of an attempt. A client that closed during the cool-down is seen here.
Forward(r) ==
  IF req[r].kind = "stream" /\ req[r].streamHeadersSent
  THEN Destroyed(r) /\ Goto(r, "done") /\ UNCHANGED flow
  ELSE /\ IF r \in gone THEN Goto(r, "done") ELSE Goto(r, "upstream")
       /\ flow' = [flow EXCEPT ![r] = NewFlow]
       /\ UNCHANGED res

\* waitIfBusy, from the second attempt on.
Busy(r) == Attempt(r) > 1 /\ busy[ModelOf[r]] # {}

Loop(r) ==
  /\ req[r].pc = "loop"
  /\ CASE r \in gone -> Goto(r, "done") /\ UNCHANGED <<waits, flow, res>>
       [] r \notin gone /\ Busy(r) -> Goto(r, "cooling") /\ waits' = waits \cup {r}
                                       /\ UNCHANGED <<flow, res>>
       [] OTHER -> Forward(r) /\ UNCHANGED waits
  /\ UNCHANGED <<timers, gone, busy, broken>>

WaitEnds(r) ==
  /\ req[r].pc = "cooling" /\ r \notin waits
  /\ Forward(r)
  /\ UNCHANGED <<waits, timers, gone, busy, broken>>

\* A new deadline, or none: it is no longer the one that sleepers wait for.
Cools(m, who) ==
  /\ busy' = [busy EXCEPT ![m] = who]
  /\ waits' = {r \in waits : ModelOf[r] # m}

BusyEnds(m) ==
  /\ busy[m] # {}
  /\ Cools(m, {})
  /\ UNCHANGED <<req, flow, timers, res, gone, broken>>

-----------------------------------------------------------------------------
(* What upstream answers, in both modes                                    *)

\* A status of 400 and above, classified by parseUpstreamError: 503 and a 429
\* for load cool the model down and are retried, as are 500, 502, 504; other
\* codes and a 429 for authorization are handed to the client at once.
UpstreamError(r) ==
  /\ req[r].pc = "upstream"
  /\ \/ Cools(ModelOf[r], {r}) /\ RetryOrReply(r)
     \/ UNCHANGED <<busy, waits>> /\ RetryOrReply(r)
     \/ UNCHANGED <<busy, waits>> /\ Reply(r)
  /\ UNCHANGED <<flow, timers, gone, broken>>

\* No connection, or none that lasts to the response.
UpstreamFails(r) ==
  /\ req[r].pc = "upstream"
  /\ Caught(r)
  /\ UNCHANGED <<waits, flow, timers, gone, busy, broken>>

-----------------------------------------------------------------------------
(* Requests that are not streamed                                          *)

\* A refusal, or neither text nor tool use: again, on the last attempt returned.
PlainRefusal(r) ==
  /\ Is(r, "plain", "upstream")
  /\ RetryOrReply(r)
  /\ UNCHANGED <<waits, flow, timers, gone, busy, broken>>

\* An answer, which lifts the cool-down, or a body that is no JSON.
PlainAnswer(r) ==
  /\ Is(r, "plain", "upstream")
  /\ Reply(r)
  /\ Cools(ModelOf[r], {}) \/ UNCHANGED <<waits, busy>>
  /\ UNCHANGED <<flow, timers, gone, broken>>

\* forwardNonStream listens to data and end only: a body that breaks off
\* settles nothing.
PlainBreaks(r) ==
  /\ Is(r, "plain", "upstream")
  /\ Goto(r, "lost")
  /\ broken' = broken \cup {r}
  /\ UNCHANGED <<waits, flow, timers, res, gone, busy>>

-----------------------------------------------------------------------------
(* Streams                                                                 *)

Disarmed(r) == timers' = [timers EXCEPT ![r] = @ \ {Attempt(r)}]

\* The status is good: the headers are held back until valid data, or the timer.
StreamBegins(r) ==
  /\ Is(r, "stream", "upstream")
  /\ Goto(r, "flowing")
  /\ timers' = [timers EXCEPT ![r] = @ \cup {Attempt(r)}]
  /\ UNCHANGED <<waits, flow, res, gone, busy, broken>>

\* The timer of an attempt, be it the current one or one that broke off; the
\* flag it sets belongs to its own attempt.
TimerFires(r, a) ==
  /\ a \in timers[r]
  /\ timers' = [timers EXCEPT ![r] = @ \ {a}]
  /\ IF res[r].state = "open" /\ res[r].head = 0
     THEN /\ res' = [res EXCEPT ![r].head = a]
          /\ flow' = IF a = Attempt(r) /\ req[r].pc = "flowing"
                     THEN [flow EXCEPT ![r].sent = TRUE] ELSE flow
     ELSE UNCHANGED <<res, flow>>
  /\ UNCHANGED <<req, waits, gone, busy, broken>>

\* Fault: headers that are out are taken for one's own.
HeadNeverTaken(r) == FALSE

\* sendHeaders would throw: another attempt's headers are out.
HeadTaken(r) == ~flow[r].sent /\ res[r].head # 0

Thrown(r) == Goto(r, "lost") /\ UNCHANGED <<flow, res>>

\* checkRefusalPrefix on the text with one more token: a refusal is known by its
\* beginning, so a text that departs from all patterns stays clean.
Becomes(text) == IF text = "undecided" THEN {"undecided", "clean", "refusal"} ELSE {text}

\* The response as sendHeaders and the pass-through of the chunk leave it.
Passed(r) == [res[r] EXCEPT !.head = IF @ = 0 THEN Attempt(r) ELSE @,
                            !.body = @ \cup {Attempt(r)}]
Headed(r) == [res[r] EXCEPT !.head = IF @ = 0 THEN Attempt(r) ELSE @]

\* A chunk whose lines hold nothing valid is passed on if headers are out.
IdleChunk(r) ==
  /\ Is(r, "stream", "flowing")
  /\ flow[r].sent
  /\ res' = [res EXCEPT ![r] = Passed(r)]
  /\ UNCHANGED <<req, waits, flow, timers, gone, busy, broken>>

\* A chunk with valid lines: headers first, then the test of the text so far.
Chunk(r) ==
  /\ Is(r, "stream", "flowing")
  /\ Disarmed(r)
  /\ IF HeadTaken(r)
     THEN Thrown(r)
     ELSE \E text \in Becomes(flow[r].text) :
            /\ flow' = [flow EXCEPT ![r] = [sent |-> TRUE, valid |-> TRUE, text |-> text]]
            /\ IF text = "refusal"
               THEN Goto(r, "refused") /\ res' = [res EXCEPT ![r] = Headed(r)]
               ELSE UNCHANGED req /\ res' = [res EXCEPT ![r] = Passed(r)]
  /\ UNCHANGED <<waits, gone, busy, broken>>

\* The end of the stream, with or without a last line that lacks its newline.
StreamEnds(r) ==
  /\ Is(r, "stream", "flowing")
  /\ Disarmed(r)
  /\ IF HeadTaken(r)
     THEN Thrown(r)
     ELSE \E text \in Becomes(flow[r].text), valid \in {flow[r].valid, TRUE} :
            /\ text # flow[r].text => valid
            /\ flow' = [flow EXCEPT ![r] = [sent |-> TRUE, valid |-> valid, text |-> text]]
            /\ res' = [res EXCEPT ![r] = Headed(r)]
            /\ Goto(r, IF text = "refusal" THEN "refused" ELSE "complete")
  /\ UNCHANGED <<waits, gone, busy, broken>>

\* The error of the response; its timer stays armed.
StreamBreaks(r) ==
  /\ Is(r, "stream", "flowing")
  /\ Caught(r)
  /\ broken' = broken \cup {r}
  /\ UNCHANGED <<waits, flow, timers, gone, busy>>

Resolved(r) ==
  req' = [req EXCEPT ![r].pc = "done", ![r].streamHeadersSent = flow[r].sent]

\* A refused stream: broken off if headers are out, else tried again.
Refused(r) ==
  /\ Is(r, "stream", "refused")
  /\ IF flow[r].sent THEN Destroyed(r) /\ Resolved(r) ELSE RetryOrReply(r)
  /\ UNCHANGED <<waits, flow, timers, gone, busy, broken>>

\* A complete stream; an empty one would be tried again if no headers were out.
Complete(r) ==
  /\ Is(r, "stream", "complete")
  /\ IF flow[r].valid
     THEN Cools(ModelOf[r], {}) ELSE UNCHANGED <<waits, busy>>
  /\ IF ~flow[r].valid /\ Attempt(r) < MAX_RETRIES /\ ~flow[r].sent
     THEN NextAttempt(r) /\ UNCHANGED res
     ELSE res' = [res EXCEPT ![r].state = "ended"] /\ Resolved(r)
  /\ UNCHANGED <<flow, timers, gone, broken>>

-----------------------------------------------------------------------------
Proxy(r) == Loop(r) \/ WaitEnds(r) \/ Refused(r) \/ Complete(r)

Upstream(r) == \/ UpstreamError(r) \/ UpstreamFails(r) \/ PlainRefusal(r) \/ PlainAnswer(r)
               \/ PlainBreaks(r) \/ StreamBegins(r) \/ StreamEnds(r) \/ StreamBreaks(r)

ProxyNext ==
  \/ \E r \in Requests : \/ Arrive(r) \/ BodyEnds(r) \/ ClientCloses(r) \/ Proxy(r)
                          \/ Upstream(r) \/ IdleChunk(r) \/ Chunk(r)
                          \/ \E a \in 1..MAX_RETRIES : TimerFires(r, a)
  \/ \E m \in Models : BusyEnds(m)

ProxySpec == ProxyInit /\ [][ProxyNext]_proxyVars

\* The event loop goes on; clients send their bodies; upstream does not stay
\* silent for ever: an answer, its end, or an error.
ProxyFairness ==
  /\ \A r \in Requests : /\ WF_proxyVars(BodyEnds(r))
                         /\ WF_proxyVars(Proxy(r))
                         /\ WF_proxyVars(Upstream(r))
  /\ \A m \in Models : WF_proxyVars(BusyEnds(m))

ProxyFairSpec == ProxySpec /\ ProxyFairness

-----------------------------------------------------------------------------
(* Properties                                                              *)

\* Type correctness of a request's state in handleRequest.
ProxyTypeOK ==
  /\ req \in [Requests ->
       [pc : {"idle", "body", "loop", "cooling", "upstream", "flowing", "refused", "complete",
              "lost", "done"},
        kind : Kinds, attempt : 1..MAX_RETRIES, streamHeadersSent : BOOLEAN]]
  /\ waits \subseteq {r \in Requests : req[r].pc = "cooling"}
  /\ flow \in [Requests -> [sent : BOOLEAN, valid : BOOLEAN,
                            text : {"undecided", "clean", "refusal"}]]
  /\ timers \in [Requests -> SUBSET (1..MAX_RETRIES)]
  /\ res \in [Requests -> [state : {"open", "ended", "destroyed"}, head : 0..MAX_RETRIES,
                           body : SUBSET (1..MAX_RETRIES)]]
  /\ gone \subseteq Requests /\ broken \subseteq Requests
  /\ busy \in [Models -> SUBSET Requests]

\* A client never sees two attempts mixed: all it gets of a response, status
\* line and data, is of one upstream answer, although attempts that broke off
\* leave a timer behind that writes headers (forwardStreamAggressive).
OneSource == \A r \in Requests : res[r].body \subseteq {res[r].head}

\* Every request is answered to its end, or cut off, unless its client leaves or
\* one of its upstream answers broke off in the middle (handleRequest).
EveryRequestEnds ==
  \A r \in Requests :
    req[r].pc # "idle" ~> res[r].state # "open" \/ r \in gone \/ r \in broken

\* Nothing goes on for a client that left, in whatever state of an attempt it
\* left (onClientClose, the abort listeners of both forward functions).
GoneClientIsReleased == \A r \in Requests : r \in gone ~> req[r].pc = "done"
=============================================================================
