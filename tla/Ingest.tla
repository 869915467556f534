------------------------------- MODULE Ingest -------------------------------
(***************************************************************************)
(* How the messages of one chat reach the messages table: the crawl of     *)
(* web/crawl_service.py (_crawl, _fetch_with_stop_check), the handlers of  *)
(* listener.py, insert_messages, update_edited_message,                    *)
(* mark_message_deleted and delete_chat_data of                            *)
(* storage/repositories/message_repo.py, and the retention pass of         *)
(* compliance.py.                                                          *)
(*                                                                         *)
(* Crawl and handlers are coroutines of one event loop and none awaits     *)
(* inside a save, so a save is one step; the fetch awaits at each message. *)
(* Of a message the model keeps the version of its text, and whether it is *)
(* blank, with neither text nor media (service messages: a member joined). *)
(* Senders and chat titles are abstracted away.                            *)
(***************************************************************************)
EXTENDS Naturals, FiniteSets

CONSTANTS
  MaxId,       \* bound on the messages posted in the chat
  MaxVersion,  \* bound on the edits of a message
  Limit,       \* crawl limit: messages that iter_messages yields in one pass
  IdCases,     \* how the chat may be named, see ids below
  MaxUpsets    \* bound on failures, stops, users' crawls, wipes, retention

Ids    == 1..MaxId
Forms  == {"bare", "marked", "username"}

ASSUME IngestAssumption ==
  /\ MaxId \in Nat /\ MaxVersion \in Nat /\ MaxUpsets \in Nat
  /\ Limit \in Nat \ {0}
  /\ IdCases \subseteq [config : Forms, entity : Forms, event : Forms]

VARIABLES
  ids,        \* the chat's name in the config, in entities, in events
  posted,     \* the newest message of the chat
  blank,      \* messages without text and media: never stored, never edited
  version,    \* the version of each message's text in Telegram
  removed,    \* messages deleted in Telegram
  listening,  \* the handlers are registered
  updates,    \* updates handed to the handlers and not handled yet
  table,      \* the chat's rows in the messages table
  crawl,      \* the crawl of this chat
  upsets

\* History: messages that lie below a newer one for a reason named below.
VARIABLE passedOver

telegram == <<posted, blank, version, removed>>
vars     == <<ids, posted, blank, version, removed, listening, updates, table, crawl,
              upsets, passedOver>>

Absent  == [text |-> 0, deleted |-> TRUE, stored |-> FALSE]
Row(v)  == [text |-> v, deleted |-> FALSE, stored |-> TRUE]
Rows    == [text : 0..MaxVersion, deleted : BOOLEAN, stored : {TRUE}]
Updates == [kind : {"new", "edit", "delete"}, id : Ids, text : 0..MaxVersion]

\* Nothing fetched yet: a batch is a function from message ids to versions.
Batches   == UNION {[S -> 0..MaxVersion] : S \in SUBSET Ids}
NoBatch   == [m \in {} |-> 0]
IdleCrawl == [mode |-> "none", from |-> 0, at |-> 0, seen |-> 0, batch |-> NoBatch]

Init ==
  /\ ids \in IdCases
  /\ posted = 0
  /\ blank = {}
  /\ version = [m \in Ids |-> 0]
  /\ removed = {}
  /\ listening = FALSE
  /\ updates = {}
  /\ table = [m \in Ids |-> Absent]
  /\ crawl = IdleCrawl
  /\ upsets = 0
  /\ passedOver = {}

Stored == {m \in Ids : table[m].stored}
Alive  == 1..posted \ removed
Wanted == Alive \ blank
Upset  == upsets < MaxUpsets /\ upsets' = upsets + 1

-----------------------------------------------------------------------------
(* Telegram: messages are posted, edited, deleted; each is an update, but  *)
(* that no NewMessage event tells of a blank one                           *)

Notify(u) == updates' = IF listening THEN updates \cup {u} ELSE updates

Post ==
  /\ posted < MaxId
  /\ posted' = posted + 1
  /\ \/ /\ Notify([kind |-> "new", id |-> posted + 1, text |-> 0])
        /\ UNCHANGED blank
     \/ /\ blank' = blank \cup {posted + 1}
        /\ UNCHANGED updates
  /\ UNCHANGED <<ids, version, removed, listening, table, crawl, upsets, passedOver>>

Edit(m) ==
  /\ m \in Wanted
  /\ version[m] < MaxVersion
  /\ version' = [version EXCEPT ![m] = @ + 1]
  /\ Notify([kind |-> "edit", id |-> m, text |-> version[m] + 1])
  /\ UNCHANGED <<ids, posted, blank, removed, listening, table, crawl, upsets, passedOver>>

\* Outside channels the update does not name the chat; the handler ignores it.
Remove(m) ==
  /\ m \in Alive
  /\ removed' = removed \cup {m}
  /\ \/ Notify([kind |-> "delete", id |-> m, text |-> 0])
     \/ UNCHANGED updates
  /\ UNCHANGED <<ids, posted, blank, version, listening, table, crawl, upsets, passedOver>>

-----------------------------------------------------------------------------
(* insert_messages                                                         *)

\* Fault: an existing row is written anew, and committed without a new one.
InsertedAnew(batch) ==
  [m \in Ids |-> IF m \in DOMAIN batch THEN Row(batch[m]) ELSE table[m]]

\* New rows are added and texts that differ are replaced; without a new row
\* there is no commit.
Inserted(batch) ==
  IF DOMAIN batch \subseteq Stored THEN table
  ELSE [m \in Ids |->
         CASE m \notin DOMAIN batch -> table[m]
           [] m \in DOMAIN batch /\ table[m].stored -> [table[m] EXCEPT !.text = batch[m]]
           [] OTHER -> Row(batch[m])]

Shown == {m \in Ids : table[m].stored /\ ~table[m].deleted}

\* get_last_message_id, with 0 for None
IsLastId(n) == IF Shown = {} THEN n = 0 ELSE n \in Shown /\ \A m \in Shown : m <= n

-----------------------------------------------------------------------------
(* The crawl                                                               *)

Begin(mode, n) ==
  crawl' = [mode |-> mode, from |-> n, at |-> n, seen |-> 0, batch |-> NoBatch]

\* Fault: the limit is taken for progress.
CrawlBeginsAfterLimit ==
  /\ crawl.mode = "none"
  /\ \E n \in 0..posted : IsLastId(n) /\ Begin("incremental", IF n = 0 THEN 0 ELSE n + Limit)
  /\ UNCHANGED <<ids, telegram, listening, updates, table, upsets, passedOver>>

\* min_id: the last id found under the name that the config has for the chat.
CrawlBegins ==
  /\ crawl.mode = "none"
  /\ IF ids.config = ids.entity
     THEN \E n \in 0..posted : IsLastId(n) /\ Begin("incremental", n)
     ELSE Begin("incremental", 0)
  /\ UNCHANGED <<ids, telegram, listening, updates, table, upsets, passedOver>>

\* full starts at the first message, date_range and catchup where a date says.
OtherCrawlBegins ==
  /\ crawl.mode = "none"
  /\ Upset
  /\ \E n \in 0..posted : Begin("other", n)
  /\ UNCHANGED <<ids, telegram, listening, updates, table, passedOver>>

Unfetched == {m \in Alive : m > crawl.at}

\* "if msg.text is None and msg.media is None: continue"
Skip(m) == crawl' = [crawl EXCEPT !.at = m, !.seen = @ + 1]

Fetch(m) ==
  crawl' = [crawl EXCEPT !.at = m, !.seen = @ + 1,
    !.batch = [n \in DOMAIN crawl.batch \cup {m} |->
                 IF n = m THEN version[m] ELSE crawl.batch[n]]]

\* Fault: newest first.
FetchNewestFirst ==
  /\ crawl.mode # "none"
  /\ crawl.seen < Limit
  /\ \E m \in Unfetched \ DOMAIN crawl.batch :
       /\ \A n \in Unfetched \ DOMAIN crawl.batch : n <= m
       /\ IF m \in blank THEN Skip(m) ELSE Fetch(m)
  /\ UNCHANGED <<ids, telegram, listening, updates, table, upsets, passedOver>>

\* iter_messages(reverse=True) yields the next message, oldest first. A blank one
\* is passed over, but it counts against the limit.
FetchNext ==
  /\ crawl.mode # "none"
  /\ crawl.seen < Limit
  /\ \E m \in Unfetched :
       /\ \A n \in Unfetched : m <= n
       /\ IF m \in blank THEN Skip(m) ELSE Fetch(m)
  /\ UNCHANGED <<ids, telegram, listening, updates, table, upsets, passedOver>>

FetchedAll == crawl.seen = Limit \/ Unfetched = {}

\* The fetch is over, or a stop cuts it short, and what there is is saved.
SaveBatch ==
  /\ crawl.mode # "none"
  /\ \/ FetchedAll /\ UNCHANGED upsets
     \/ ~FetchedAll /\ Upset
  /\ table' = Inserted(crawl.batch)
  /\ passedOver' = IF crawl.mode = "other"
                   THEN passedOver \cup (1..crawl.from \ Stored) ELSE passedOver
  /\ crawl' = IdleCrawl
  /\ UNCHANGED <<ids, telegram, listening, updates>>

\* The fetch raises, or three attempts to save fail: the batch is dropped.
BatchLost ==
  /\ crawl.mode # "none"
  /\ Upset
  /\ crawl' = IdleCrawl
  /\ UNCHANGED <<ids, telegram, listening, updates, table, passedOver>>

-----------------------------------------------------------------------------
(* The listener's handlers; Telegram's updates are handled in any order    *)

ToggleListening ==
  /\ listening' = ~listening
  /\ updates' = {}
  /\ UNCHANGED <<ids, telegram, table, crawl, upsets, passedOver>>

\* "if chat_id not in chat_ids: return"
Heard == ids.event = ids.config

HandleNew(u) ==
  /\ u \in updates /\ u.kind = "new"
  /\ updates' = updates \ {u}
  /\ \/ /\ Heard
        /\ table' = Inserted([m \in {u.id} |-> u.text])
        /\ passedOver' = passedOver \cup (1..u.id - 1 \ Stored)
        /\ UNCHANGED upsets
     \/ /\ ~Heard
        /\ UNCHANGED <<table, passedOver, upsets>>
     \/ /\ Upset  \* the save fails three times
        /\ UNCHANGED <<table, passedOver>>
  /\ UNCHANGED <<ids, telegram, listening, crawl>>

\* A handler looks for the row under the event's name of the chat.
FindsRow(m) == Heard /\ ids.event = ids.entity /\ table[m].stored

HandleEdit(u) ==
  /\ u \in updates /\ u.kind = "edit"
  /\ updates' = updates \ {u}
  /\ \/ /\ table' = IF FindsRow(u.id) THEN [table EXCEPT ![u.id].text = u.text] ELSE table
        /\ UNCHANGED upsets
     \/ Upset /\ UNCHANGED table  \* the database is locked: no second attempt
  /\ UNCHANGED <<ids, telegram, listening, crawl, passedOver>>

HandleDelete(u) ==
  /\ u \in updates /\ u.kind = "delete"
  /\ updates' = updates \ {u}
  /\ \/ /\ table' = IF FindsRow(u.id) THEN [table EXCEPT ![u.id].deleted = TRUE] ELSE table
        /\ UNCHANGED upsets
     \/ Upset /\ UNCHANGED table
  /\ UNCHANGED <<ids, telegram, listening, crawl, passedOver>>

-----------------------------------------------------------------------------
(* What other threads do to the table                                      *)

\* DELETE /config/groups/<id> and POST /data/purge; a crawl under way goes on.
Wipe ==
  /\ Upset
  /\ table' = [m \in Ids |-> Absent]
  /\ passedOver' = passedOver \cup 1..crawl.from
  /\ UNCHANGED <<ids, telegram, listening, updates, crawl>>

\* run_once deletes the rows of messages dated before the cutoff.
Retain(k) ==
  /\ Upset
  /\ table' = [m \in Ids |-> IF m <= k THEN Absent ELSE table[m]]
  /\ passedOver' = passedOver \cup 1..k
  /\ UNCHANGED <<ids, telegram, listening, updates, crawl>>

-----------------------------------------------------------------------------
TelegramStep == Post \/ \E m \in Ids : Edit(m) \/ Remove(m)

CrawlStep == CrawlBegins \/ OtherCrawlBegins \/ FetchNext \/ SaveBatch \/ BatchLost

ListenerStep ==
  \/ ToggleListening
  \/ \E u \in updates : HandleNew(u) \/ HandleEdit(u) \/ HandleDelete(u)

TableStep == Wipe \/ \E k \in 1..posted : Retain(k)

Next == TelegramStep \/ CrawlStep \/ ListenerStep \/ TableStep

Spec == Init /\ [][Next]_vars

\* The auto-poll daemon starts crawls and the loop runs them. Nobody has to post
\* or listen; the upsets are bounded.
FairSpec == Spec /\ WF_vars(CrawlBegins) /\ WF_vars(FetchNext) /\ WF_vars(SaveBatch)

-----------------------------------------------------------------------------
TypeOK ==
  /\ ids \in IdCases
  /\ posted \in 0..MaxId
  /\ blank \subseteq 1..posted
  /\ version \in [Ids -> 0..MaxVersion]
  /\ removed \subseteq 1..posted
  /\ listening \in BOOLEAN
  /\ updates \subseteq Updates
  /\ table \in [Ids -> Rows \cup {Absent}]
  /\ crawl \in [mode : {"none", "incremental", "other"}, from : 0..posted, at : 0..posted,
               seen : 0..Limit, batch : Batches]
  /\ crawl.from <= crawl.at
  /\ upsets \in 0..MaxUpsets
  /\ passedOver \subseteq Ids

\* Below the newest stored message, where no incremental crawl looks again, every
\* message of the chat that is not blank is stored, unless the listener or a dated
\* crawl stored a newer one first, a wipe came in the middle of a crawl, or
\* retention deleted it. Limits, stops and failures leave no gap.
GapsAreAccounted ==
  \A m \in Wanted \ passedOver, n \in Stored : m < n => m \in Stored

\* A message marked as deleted is not shown again by a batch that was fetched
\* before the deletion and is saved after it, nor by a late edit.
DeletedStaysDeleted ==
  [][\A m \in Stored : table[m].deleted /\ table'[m].stored => table'[m].deleted]_vars

\* Unless edit events find their rows too (then one may be overwritten by a batch
\* that was fetched before it), a stored text never goes back to an older version,
\* though the listener may save a message's first text after a crawl has saved a
\* later one.
TextNeverGoesBack ==
  [][ids.event # ids.entity => \A m \in Stored :
       table'[m].stored => table'[m].text >= table[m].text]_vars

\* The next Limit messages after the last id are all blank: a crawl that begins
\* now uses its limit up on them, and leaves the last id where it is.
BlankRun ==
  \E n \in 0..posted :
    /\ IsLastId(n)
    /\ Cardinality({b \in Alive : b > n /\ \A m \in Wanted : m > n => b < m}) >= Limit

\* "Incremental" crawling brings in every message that none of the reasons of
\* GapsAreAccounted holds back, if the config names the chat as its entity does,
\* unless it meets as many blank messages in a row as its limit.
IncrementalCatchesUp ==
  \A m \in Ids :
    m \in Wanted \ passedOver /\ ids.config = ids.entity
      ~> m \in Stored \cup removed \cup passedOver \/ BlankRun
=============================================================================
