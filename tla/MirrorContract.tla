--------------------------- MODULE MirrorContract ---------------------------
(***************************************************************************)
(* What a reader of the messages table may rely on, however crawls, the    *)
(* listener's handlers, wipes and retention interleave: a row is about a   *)
(* message of the chat, its text is one that the message has had, and only *)
(* a message that was deleted in Telegram is marked, for as long as the    *)
(* row exists (the table of storage/schema.py as message_repo.py writes    *)
(* it). The table may lag behind Telegram by any amount.                   *)
(***************************************************************************)
EXTENDS Naturals

CONSTANTS
  MaxId,      \* bound on the messages of the chat
  MaxVersion  \* bound on the edits of a message

VARIABLES
  posted,     \* the newest message of the chat
  version,    \* the version of each message's text
  removed,    \* the messages deleted in Telegram
  table       \* the chat's rows

telegram == <<posted, version, removed>>
vars     == <<posted, version, removed, table>>

Ids    == 1..MaxId
Absent == [text |-> 0, deleted |-> TRUE, stored |-> FALSE]
Row(v) == [text |-> v, deleted |-> FALSE, stored |-> TRUE]
Alive  == 1..posted \ removed

Init ==
  /\ posted = 0
  /\ version = [m \in Ids |-> 0]
  /\ removed = {}
  /\ table = [m \in Ids |-> Absent]

Post ==
  /\ posted < MaxId
  /\ posted' = posted + 1
  /\ UNCHANGED <<version, removed, table>>

Edit(m) ==
  /\ m \in Alive
  /\ version[m] < MaxVersion
  /\ version' = [version EXCEPT ![m] = @ + 1]
  /\ UNCHANGED <<posted, removed, table>>

Remove(m) ==
  /\ m \in Alive
  /\ removed' = removed \cup {m}
  /\ UNCHANGED <<posted, version, table>>

\* Messages get the text that each has, or once had; a mark stays.
Save(S) ==
  /\ S \subseteq 1..posted
  /\ \E t \in [S -> 0..MaxVersion] :
       /\ \A m \in S : t[m] <= version[m]
       /\ table' = [m \in Ids |->
            CASE m \notin S -> table[m]
              [] m \in S /\ table[m].stored -> [table[m] EXCEPT !.text = t[m]]
              [] OTHER -> Row(t[m])]
  /\ UNCHANGED telegram

Mark(m) ==
  /\ m \in removed
  /\ table[m].stored
  /\ table' = [table EXCEPT ![m].deleted = TRUE]
  /\ UNCHANGED telegram

Drop(S) ==
  /\ table' = [m \in Ids |-> IF m \in S THEN Absent ELSE table[m]]
  /\ UNCHANGED telegram

Next ==
  \/ Post
  \/ \E m \in Ids : Edit(m) \/ Remove(m) \/ Mark(m)
  \/ \E S \in SUBSET Ids : Save(S) \/ Drop(S)

Spec == Init /\ [][Next]_vars

-----------------------------------------------------------------------------
\* A row is about a message that was posted, has a text that the message has had,
\* and is marked only if the message was deleted.
NothingInvented ==
  \A m \in Ids : table[m].stored =>
    /\ m <= posted
    /\ table[m].text <= version[m]
    /\ table[m].deleted => m \in removed
=============================================================================
