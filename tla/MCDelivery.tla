----------------------------- MODULE MCDelivery -----------------------------
EXTENDS Delivery, TLC

CONSTANTS s1, s2, s3, c1, c2, story

\* s1 is forwarded as s3; s2 reports the same story more confidently.
MCKeyOf      == [s \in Signals |-> story]
MCConfidence == [s \in Signals |-> IF s = s2 THEN 2 ELSE 1]

\* c1 does not want the event type of s2, and nothing scores high enough for c2.
MCWants == [c \in Chats |-> IF c = c1 THEN {s1, s3} ELSE {}]

\* A row that ends, and one on the plan that does not.
MCRows ==
  {[on |-> TRUE, status |-> "active", expires |-> 1, planned |-> FALSE],
   [on |-> TRUE, status |-> "active", expires |-> Horizon + 1, planned |-> TRUE]}

\* Pushing to subscribers only, and switched off with a static chat.
MCBotConfigs ==
  {[enabled |-> TRUE, chats |-> {}], [enabled |-> FALSE, chats |-> {c2}]}
=============================================================================
