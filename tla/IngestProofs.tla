---------------------------- MODULE IngestProofs ----------------------------
(***************************************************************************)
(* Ingest never leaves an unexplained gap below the newest stored message, *)
(* never shows a deleted message again and never takes a text back to an   *)
(* older version, and implements MirrorContract, for any number of         *)
(* messages, edits and upsets, any limit and naming.                       *)
(***************************************************************************)
EXTENDS Ingest, TLAPS

\* Nothing is stored, fetched or announced that was not posted.
WithinPosted ==
  /\ Stored \subseteq 1..posted
  /\ \A u \in updates : u.id <= posted

\* What a crawl has fetched is all there is above its start; below the start of
\* an incremental crawl there is nothing left to fetch.
FetchIsContiguous ==
  crawl.mode # "none" =>
    /\ DOMAIN crawl.batch \subseteq crawl.from + 1 .. crawl.at
    /\ \A m \in Wanted : crawl.from < m /\ m <= crawl.at => m \in DOMAIN crawl.batch
    /\ crawl.mode = "incremental" =>
         \A m \in Wanted \ passedOver : m <= crawl.from => m \in Stored

IInv == TypeOK /\ WithinPosted /\ FetchIsContiguous /\ GapsAreAccounted

-----------------------------------------------------------------------------
LEMMA PrefixOfIds ==
  ASSUME NEW k \in 0..MaxId
  PROVE  1..k \subseteq Ids
BY IngestAssumption DEF Ids

LEMMA BatchType ==
  ASSUME TypeOK
  PROVE  /\ DOMAIN crawl.batch \subseteq Ids
         /\ \A m \in DOMAIN crawl.batch : crawl.batch[m] \in 0..MaxVersion
<1>1. PICK S \in SUBSET Ids : crawl.batch \in [S -> 0..MaxVersion]
  BY DEF TypeOK, Batches
<1> QED BY <1>1

LEMMA IsBatch ==
  ASSUME NEW S \in SUBSET Ids, NEW b \in [S -> 0..MaxVersion]
  PROVE  b \in Batches
BY DEF Batches

CrawlType(n) == [mode : {"none", "incremental", "other"}, from : 0..n, at : 0..n,
                 seen : 0..Limit, batch : Batches]

LEMMA NoBatchType == NoBatch \in Batches /\ DOMAIN NoBatch = {}
<1>1. NoBatch \in [{} -> 0..MaxVersion] /\ {} \in SUBSET Ids
  BY DEF NoBatch
<1> QED BY <1>1, IsBatch

LEMMA IdleCrawlType ==
  ASSUME NEW n \in Nat
  PROVE  /\ IdleCrawl \in CrawlType(n)
         /\ IdleCrawl.mode = "none" /\ IdleCrawl.from <= IdleCrawl.at
BY NoBatchType, IngestAssumption DEF IdleCrawl, CrawlType

\* What a save makes of the table: rows for the batch, and the rest as it was.
LEMMA InsertedRows ==
  ASSUME TypeOK, NEW b, DOMAIN b \subseteq Ids,
         \A m \in DOMAIN b : b[m] \in 0..MaxVersion
  PROVE  /\ Inserted(b) \in [Ids -> Rows \cup {Absent}]
         /\ {m \in Ids : Inserted(b)[m].stored} = Stored \cup DOMAIN b
<1>1. CASE DOMAIN b \subseteq Stored
  BY <1>1 DEF Inserted, TypeOK, Stored
<1>2. CASE ~(DOMAIN b \subseteq Stored)
  <2> DEFINE row(m) == CASE m \notin DOMAIN b -> table[m]
                         [] m \in DOMAIN b /\ table[m].stored -> [table[m] EXCEPT !.text = b[m]]
                         [] OTHER -> Row(b[m])
  <2>1. Inserted(b) = [m \in Ids |-> row(m)]
    BY <1>2 DEF Inserted
  <2>2. ASSUME NEW m \in Ids
        PROVE  row(m) \in Rows \cup {Absent} /\ (row(m).stored <=> m \in Stored \cup DOMAIN b)
    <3>0. table[m] \in Rows \cup {Absent}
      BY DEF TypeOK
    <3>1. CASE m \notin DOMAIN b
      BY <3>0, <3>1 DEF Stored
    <3>2. CASE m \in DOMAIN b /\ table[m].stored
      <4>1. table[m] \in Rows /\ b[m] \in 0..MaxVersion
        BY <3>0, <3>2 DEF Absent
      <4>2. [table[m] EXCEPT !.text = b[m]] \in Rows
        BY <4>1 DEF Rows
      <4>3. row(m) = [table[m] EXCEPT !.text = b[m]]
        BY <3>2
      <4> QED BY <3>2, <4>2, <4>3 DEF Rows, Stored
    <3>3. CASE m \in DOMAIN b /\ ~table[m].stored
      BY <3>0, <3>3 DEF Row, Rows
    <3> QED BY <3>1, <3>2, <3>3
  <2>3. Stored \subseteq Ids
    BY DEF Stored
  <2> HIDE DEF row
  <2>4. \A m \in Ids : Inserted(b)[m] = row(m)
    BY <2>1
  <2>5. Inserted(b) \in [Ids -> Rows \cup {Absent}]
    BY <2>1, <2>2
  <2> QED BY <2>2, <2>3, <2>4, <2>5
<1> QED BY <1>1, <1>2

\* What one message more does to the crawl under way.
LEMMA FetchedOne ==
  ASSUME TypeOK, NEW m, Skip(m) \/ Fetch(m)
  PROVE  /\ crawl'.mode = crawl.mode /\ crawl'.from = crawl.from
         /\ crawl'.at = m /\ crawl'.seen = crawl.seen + 1
         /\ crawl' = [crawl EXCEPT !.at = m, !.seen = crawl'.seen, !.batch = crawl'.batch]
         /\ \/ Skip(m) /\ crawl'.batch = crawl.batch
            \/ /\ Fetch(m)
               /\ crawl'.batch = [n \in DOMAIN crawl.batch \cup {m} |->
                                    IF n = m THEN version[m] ELSE crawl.batch[n]]
<1>0. crawl \in CrawlType(posted)
  BY DEF TypeOK, CrawlType
<1>1. CASE Skip(m)
  <2>1. crawl' = [crawl EXCEPT !.at = m, !.seen = crawl.seen + 1]
    BY <1>1 DEF Skip
  <2> QED BY <1>0, <1>1, <2>1 DEF CrawlType
<1>2. CASE Fetch(m)
  <2> DEFINE b == [n \in DOMAIN crawl.batch \cup {m} |->
                    IF n = m THEN version[m] ELSE crawl.batch[n]]
  <2>1. crawl' = [crawl EXCEPT !.at = m, !.seen = crawl.seen + 1, !.batch = b]
    BY <1>2 DEF Fetch
  <2> HIDE DEF b
  <2>2. /\ crawl'.mode = crawl.mode /\ crawl'.from = crawl.from
        /\ crawl'.at = m /\ crawl'.seen = crawl.seen + 1 /\ crawl'.batch = b
    BY <1>0, <2>1 DEF CrawlType
  <2> QED BY <1>0, <1>2, <2>1, <2>2 DEF CrawlType, b
<1> QED BY <1>1, <1>2

\* A handler or retention changes rows in these two ways only.
LEMMA RowsKeptOrDropped ==
  ASSUME TypeOK, NEW k \in Nat
  PROVE  LET kept == [m \in Ids |-> IF m <= k THEN Absent ELSE table[m]]
         IN  /\ kept \in [Ids -> Rows \cup {Absent}]
             /\ {m \in Ids : kept[m].stored} = Stored \ 1..k
<1> DEFINE kept == [m \in Ids |-> IF m <= k THEN Absent ELSE table[m]]
<1>1. kept \in [Ids -> Rows \cup {Absent}]
  BY DEF TypeOK
<1>2. ASSUME NEW m \in Ids
      PROVE  kept[m].stored <=> m \in Stored \ 1..k
  BY IngestAssumption DEF Absent, Stored, Ids
<1> QED BY <1>1, <1>2 DEF Stored

-----------------------------------------------------------------------------
LEMMA InitIInv == Init => IInv
<1> SUFFICES ASSUME Init PROVE IInv
  OBVIOUS
<1>1. TypeOK
  <2>1. crawl \in CrawlType(posted) /\ crawl.from <= crawl.at
    BY IdleCrawlType DEF Init
  <2>2. /\ posted \in 0..MaxId /\ upsets \in 0..MaxUpsets
        /\ version \in [Ids -> 0..MaxVersion]
    BY IngestAssumption DEF Init
  <2>3. table \in [Ids -> Rows \cup {Absent}]
    BY DEF Init
  <2>4. blank = {} /\ removed = {} /\ updates = {} /\ passedOver = {} /\ ids \in IdCases /\ listening = FALSE
    BY DEF Init
  <2> QED BY <2>1, <2>2, <2>3, <2>4 DEF TypeOK, CrawlType
<1>2. Stored = {}
  BY DEF Init, Stored, Absent
<1>3. WithinPosted /\ FetchIsContiguous /\ GapsAreAccounted
  BY <1>2 DEF Init, WithinPosted, FetchIsContiguous, GapsAreAccounted, IdleCrawl
<1> QED BY <1>1, <1>3 DEF IInv

LEMMA TelegramStepIInv == IInv /\ TelegramStep => IInv'
<1> SUFFICES ASSUME IInv, TelegramStep PROVE IInv'
  OBVIOUS
<1> USE IngestAssumption DEF IInv
<1>0. /\ UNCHANGED <<table, crawl, upsets, passedOver, ids, listening>> /\ Stored' = Stored
      /\ posted' \in Nat /\ posted <= posted' /\ posted' <= MaxId
  <2>1. posted \in Nat /\ posted <= MaxId
    BY DEF TypeOK
  <2>2. posted' = posted \/ (posted < MaxId /\ posted' = posted + 1)
    <3>1. CASE Post
      BY <3>1 DEF Post
    <3>2. CASE \E m \in Ids : Edit(m) \/ Remove(m)
      <4>1. \A m \in Ids : Edit(m) => posted' = posted
        BY DEF Edit
      <4>2. \A m \in Ids : Remove(m) => posted' = posted
        BY DEF Remove
      <4> QED BY <3>2, <4>1, <4>2
    <3> QED BY <3>1, <3>2 DEF TelegramStep
  <2>3. UNCHANGED <<table, crawl, upsets, passedOver, ids, listening>>
    BY DEF TelegramStep, Post, Edit, Remove
  <2> QED BY <2>1, <2>2, <2>3 DEF Stored
<1>1. CASE Post
  <2>1. /\ posted' = posted + 1 /\ UNCHANGED <<removed, version>>
        /\ blank' \subseteq 1..posted' /\ Wanted' \subseteq Wanted \cup {posted + 1}
    <3>1. /\ posted' = posted + 1 /\ UNCHANGED <<removed, version>> /\ posted \in Nat
          /\ blank' \in {blank, blank \cup {posted + 1}} /\ blank \subseteq 1..posted
      BY <1>1 DEF Post, TypeOK
    <3> QED BY <3>1 DEF Alive, Wanted
  <2>2. \A u \in updates' : u \in Updates /\ u.id <= posted'
    BY <1>1, <2>1 DEF Post, Notify, TypeOK, WithinPosted, Updates, Ids
  <2>3. TypeOK'
    BY <1>0, <2>1, <2>2 DEF TypeOK
  <2>4. WithinPosted'
    BY <1>0, <2>2 DEF WithinPosted, TypeOK
  <2>5. FetchIsContiguous'
    BY <1>0, <2>1 DEF FetchIsContiguous, TypeOK
  <2>6. GapsAreAccounted'
    BY <1>0, <2>1 DEF GapsAreAccounted, WithinPosted, TypeOK
  <2> QED BY <2>3, <2>4, <2>5, <2>6
<1>2. ASSUME NEW m \in Ids, Edit(m) PROVE IInv'
  <2>1. UNCHANGED <<posted, blank, removed>> /\ Wanted' = Wanted /\ version' \in [Ids -> 0..MaxVersion]
    BY <1>2 DEF Edit, Alive, Wanted, TypeOK
  <2>2. \A u \in updates' : u \in Updates /\ u.id <= posted'
    BY <1>2, <2>1 DEF Edit, Notify, TypeOK, WithinPosted, Updates, Alive, Wanted
  <2> QED BY <1>0, <2>1, <2>2 DEF TypeOK, WithinPosted, FetchIsContiguous, GapsAreAccounted
<1>3. ASSUME NEW m \in Ids, Remove(m) PROVE IInv'
  <2>1. /\ UNCHANGED <<posted, blank, version>> /\ Wanted' = Wanted \ {m} /\ removed' \subseteq 1..posted
    BY <1>3 DEF Remove, Alive, Wanted, TypeOK
  <2>2. \A u \in updates' : u \in Updates /\ u.id <= posted'
    BY <1>3, <2>1 DEF Remove, Notify, TypeOK, WithinPosted, Updates, Alive, Wanted
  <2> QED BY <1>0, <2>1, <2>2 DEF TypeOK, WithinPosted, FetchIsContiguous, GapsAreAccounted
<1> QED BY <1>1, <1>2, <1>3 DEF TelegramStep

\* A crawl that begins at n: nothing is fetched, and below n an incremental one
\* has nothing to fetch.
LEMMA BeginIInv ==
  ASSUME IInv, NEW n \in 0..posted, NEW mode \in {"incremental", "other"}, Begin(mode, n),
         UNCHANGED <<ids, telegram, listening, updates, table, passedOver>>,
         upsets' \in 0..MaxUpsets,
         mode = "incremental" => n = 0 \/ n \in Stored
  PROVE  IInv'
<1> USE IngestAssumption DEF IInv
<1>1. /\ crawl' = [mode |-> mode, from |-> n, at |-> n, seen |-> 0, batch |-> NoBatch]
      /\ NoBatch \in Batches /\ DOMAIN NoBatch = {}
  BY NoBatchType DEF Begin
<1>2. Stored' = Stored /\ Wanted' = Wanted /\ UNCHANGED <<posted, blank, version, removed>>
  BY DEF Stored, Alive, Wanted, telegram
<1>3. TypeOK'
  BY <1>1, <1>2 DEF TypeOK
<1>4. WithinPosted' /\ GapsAreAccounted'
  BY <1>2 DEF WithinPosted, GapsAreAccounted
<1>5. ASSUME mode = "incremental", NEW m \in Wanted \ passedOver, m <= n PROVE m \in Stored
  BY <1>5 DEF GapsAreAccounted, Alive, Wanted, TypeOK
<1>6. FetchIsContiguous'
  BY <1>1, <1>2, <1>5 DEF FetchIsContiguous, Alive, Wanted, TypeOK
<1> QED BY <1>3, <1>4, <1>6

LEMMA CrawlStepIInv == IInv /\ CrawlStep => IInv'
<1> SUFFICES ASSUME IInv, CrawlStep PROVE IInv'
  OBVIOUS
<1> USE IngestAssumption DEF IInv
<1>1. CASE CrawlBegins
  <2>1. PICK n \in 0..posted : Begin("incremental", n) /\ (n = 0 \/ n \in Stored)
    BY <1>1 DEF CrawlBegins, IsLastId, Shown, Stored, TypeOK
  <2> QED BY <1>1, <2>1, BeginIInv DEF CrawlBegins, TypeOK
<1>2. CASE OtherCrawlBegins
  BY <1>2, BeginIInv DEF OtherCrawlBegins, Upset, TypeOK
<1>3. CASE FetchNext
  <2>1. PICK m \in Unfetched : /\ \A n \in Unfetched : m <= n
                               /\ IF m \in blank THEN Skip(m) ELSE Fetch(m)
    BY <1>3 DEF FetchNext
  <2>2. /\ crawl'.mode = crawl.mode /\ crawl'.from = crawl.from /\ crawl'.at = m
        /\ crawl'.seen = crawl.seen + 1 /\ crawl.seen + 1 \in 0..Limit
        /\ DOMAIN crawl'.batch = DOMAIN crawl.batch \cup ({m} \ blank)
        /\ crawl'.mode # "none"
    <3>1. crawl.seen \in Nat /\ crawl.seen < Limit /\ crawl.mode # "none"
      BY <1>3 DEF FetchNext, TypeOK
    <3>2. crawl.seen + 1 \in 0..Limit
      BY <3>1
    <3>3. DOMAIN crawl'.batch = DOMAIN crawl.batch \cup ({m} \ blank)
      <4>1. CASE m \in blank
        <5>1. crawl'.batch = crawl.batch
          BY <2>1, <4>1 DEF Skip, TypeOK
        <5> QED BY <4>1, <5>1
      <4>2. CASE m \notin blank
        <5>1. Fetch(m)
          BY <2>1, <4>2
        <5>2. crawl'.batch = [n \in DOMAIN crawl.batch \cup {m} |->
                               IF n = m THEN version[m] ELSE crawl.batch[n]]
          BY <5>1 DEF Fetch, TypeOK
        <5> QED BY <4>2, <5>2
      <4> QED BY <4>1, <4>2
    <3> QED BY <2>1, <3>1, <3>2, <3>3, FetchedOne
  <2>3. /\ m \in Alive /\ m > crawl.at /\ m \in Ids
        /\ \A n \in Wanted : n > crawl.at => m <= n
    BY <2>1 DEF Unfetched, Alive, Wanted, Ids, TypeOK
  <2>4. /\ UNCHANGED <<ids, posted, blank, version, removed, listening, updates, table, upsets, passedOver>>
        /\ Stored' = Stored /\ Wanted' = Wanted
    BY <1>3 DEF FetchNext, telegram, Stored, Alive, Wanted
  <2>5. TypeOK'
    <3>1. DOMAIN crawl.batch \cup {m} \in SUBSET Ids
      BY <2>3, BatchType
    <3>2. version[m] \in 0..MaxVersion
      BY <2>3 DEF TypeOK
    <3>3. crawl'.batch \in Batches
      BY <2>1, <3>1, <3>2, BatchType, IsBatch DEF Fetch, Skip, TypeOK
    <3>4. crawl \in CrawlType(posted) /\ m \in 0..posted
      BY <2>3 DEF TypeOK, CrawlType, Alive
    <3>6. crawl' \in CrawlType(posted)
      <4> DEFINE b == crawl'.batch
                 k == crawl.seen + 1
      <4>1. crawl' = [crawl EXCEPT !.at = m, !.seen = k, !.batch = b]
        BY <2>1, FetchedOne
      <4>2. b \in Batches /\ k \in 0..Limit
        BY <2>2, <3>3
      <4> HIDE DEF b, k
      <4> QED BY <3>4, <4>1, <4>2 DEF CrawlType
    <3>5. crawl'.from <= crawl'.at
      BY <2>2, <2>3 DEF TypeOK, Ids
    <3> QED BY <2>4, <3>5, <3>6 DEF TypeOK, CrawlType
  <2>6. WithinPosted' /\ GapsAreAccounted'
    BY <2>4 DEF WithinPosted, GapsAreAccounted
  <2>7. FetchIsContiguous'
    BY <2>2, <2>3, <2>4 DEF FetchIsContiguous, Alive, Wanted, TypeOK
  <2> QED BY <2>5, <2>6, <2>7
<1>4. CASE SaveBatch
  <2>1. /\ crawl' = IdleCrawl /\ crawl.mode # "none"
        /\ upsets' \in 0..MaxUpsets
        /\ UNCHANGED <<ids, posted, blank, version, removed, listening, updates>> /\ Wanted' = Wanted
        /\ passedOver \subseteq passedOver' /\ passedOver' \subseteq Ids
        /\ crawl.mode = "other" => 1..crawl.from \ Stored \subseteq passedOver'
    BY <1>4, PrefixOfIds DEF SaveBatch, Upset, telegram, Alive, Wanted, TypeOK
  <2>2. /\ table' \in [Ids -> Rows \cup {Absent}]
        /\ Stored' = Stored \cup DOMAIN crawl.batch
    BY <1>4, InsertedRows, BatchType DEF SaveBatch, Stored
  <2>3. TypeOK'
    BY <2>1, <2>2, IdleCrawlType DEF TypeOK, CrawlType
  <2>4. WithinPosted'
    <3>1. DOMAIN crawl.batch \subseteq 1..posted
      BY <2>1 DEF FetchIsContiguous, TypeOK
    <3> QED BY <2>1, <2>2, <3>1 DEF WithinPosted
  <2>5. FetchIsContiguous'
    BY <2>1 DEF FetchIsContiguous, IdleCrawl
  <2>6. ASSUME NEW m \in Wanted \ passedOver', NEW n \in Stored', m < n
        PROVE  m \in Stored'
    <3>1. CASE n \in Stored
      BY <2>1, <2>2, <2>6, <3>1 DEF GapsAreAccounted
    <3>2. CASE n \in DOMAIN crawl.batch /\ crawl.from < m
      BY <2>1, <2>2, <2>6, <3>2 DEF FetchIsContiguous, TypeOK, Alive, Wanted
    <3>3. CASE n \in DOMAIN crawl.batch /\ m <= crawl.from
      BY <2>1, <2>2, <2>6, <3>3 DEF FetchIsContiguous, TypeOK, Alive, Wanted
    <3> QED BY <2>2, <3>1, <3>2, <3>3 DEF TypeOK, Alive, Wanted
  <2>7. GapsAreAccounted'
    BY <2>1, <2>6 DEF GapsAreAccounted
  <2> QED BY <2>3, <2>4, <2>5, <2>7
<1>5. CASE BatchLost
  <2>1. /\ crawl' = IdleCrawl /\ upsets' \in 0..MaxUpsets
        /\ UNCHANGED <<ids, posted, blank, version, removed, listening, updates, table, passedOver>>
        /\ Stored' = Stored /\ Wanted' = Wanted
    BY <1>5 DEF BatchLost, Upset, telegram, Stored, Alive, Wanted, TypeOK
  <2>2. TypeOK'
    BY <2>1, IdleCrawlType DEF TypeOK, CrawlType
  <2>3. crawl'.mode = "none"
    BY <2>1 DEF IdleCrawl
  <2> QED BY <2>1, <2>2, <2>3 DEF WithinPosted, FetchIsContiguous, GapsAreAccounted
<1> QED BY <1>1, <1>2, <1>3, <1>4, <1>5 DEF CrawlStep

LEMMA ListenerStepIInv == IInv /\ ListenerStep => IInv'
<1> SUFFICES ASSUME IInv, ListenerStep PROVE IInv'
  OBVIOUS
<1> USE IngestAssumption DEF IInv
<1>1. CASE ToggleListening
  BY <1>1 DEF ToggleListening, telegram, TypeOK, WithinPosted, FetchIsContiguous,
              GapsAreAccounted, Stored, Alive, Wanted
<1>2. ASSUME NEW u \in updates, HandleNew(u) PROVE IInv'
  <2>0. /\ UNCHANGED <<ids, posted, blank, version, removed, listening, crawl>> /\ Wanted' = Wanted
        /\ updates' \subseteq updates /\ upsets' \in 0..MaxUpsets
        /\ u.id \in Ids /\ u.id <= posted /\ u.text \in 0..MaxVersion
    BY <1>2 DEF HandleNew, Upset, telegram, Alive, Wanted, TypeOK, WithinPosted, Updates
  <2>1. CASE UNCHANGED <<table, passedOver>>
    BY <2>0, <2>1 DEF TypeOK, WithinPosted, FetchIsContiguous, GapsAreAccounted, Stored
  <2>2. CASE /\ table' = Inserted([m \in {u.id} |-> u.text])
             /\ passedOver' = passedOver \cup (1..u.id - 1 \ Stored)
    <3> DEFINE b == [m \in {u.id} |-> u.text]
    <3>1. DOMAIN b = {u.id} /\ b[u.id] \in 0..MaxVersion
      BY <2>0
    <3>2. table' \in [Ids -> Rows \cup {Absent}] /\ Stored' = Stored \cup {u.id}
      BY <2>0, <2>2, <3>1, InsertedRows DEF Stored
    <3>3. passedOver' \subseteq Ids /\ passedOver \subseteq passedOver'
      <4>1. u.id - 1 \in 0..MaxId
        BY <2>0 DEF Ids
      <4> QED BY <2>2, <4>1, PrefixOfIds DEF TypeOK
    <3>4. TypeOK'
      BY <2>0, <3>2, <3>3 DEF TypeOK
    <3>5. WithinPosted'
      <4>1. posted \in Nat /\ u.id \in 1..posted
        BY <2>0 DEF Ids, TypeOK
      <4> QED BY <2>0, <3>2, <4>1 DEF WithinPosted
    <3>6. FetchIsContiguous'
      BY <2>0, <3>2, <3>3 DEF FetchIsContiguous
    <3>7. ASSUME NEW m \in Wanted \ passedOver', NEW n \in Stored', m < n
          PROVE  m \in Stored'
      <4>1. CASE n \in Stored
        BY <3>2, <3>3, <3>7, <4>1 DEF GapsAreAccounted
      <4>2. CASE n = u.id
        BY <2>0, <2>2, <3>2, <3>7, <4>2 DEF Alive, Wanted, TypeOK, Ids
      <4> QED BY <3>2, <4>1, <4>2
    <3>8. GapsAreAccounted'
      BY <2>0, <3>7 DEF GapsAreAccounted
    <3> QED BY <3>4, <3>5, <3>6, <3>8
  <2> QED BY <1>2, <2>1, <2>2 DEF HandleNew
<1>3. ASSUME NEW u \in updates, HandleEdit(u) \/ HandleDelete(u) PROVE IInv'
  <2>1. /\ UNCHANGED <<ids, posted, blank, version, removed, listening, crawl, passedOver>>
        /\ Wanted' = Wanted
        /\ updates' \subseteq updates /\ upsets' \in 0..MaxUpsets
        /\ u.id \in Ids /\ u.text \in 0..MaxVersion
    BY <1>3 DEF HandleEdit, HandleDelete, Upset, telegram, Alive, Wanted, TypeOK, Updates
  <2>2. \/ UNCHANGED table
        \/ table[u.id].stored /\ table' = [table EXCEPT ![u.id].text = u.text]
        \/ table[u.id].stored /\ table' = [table EXCEPT ![u.id].deleted = TRUE]
    BY <1>3 DEF HandleEdit, HandleDelete, FindsRow
  <2>3. table[u.id].stored => table[u.id] \in Rows
    BY <2>1 DEF TypeOK, Absent
  <2>4. table' \in [Ids -> Rows \cup {Absent}] /\ \A m \in Ids : table'[m].stored <=> table[m].stored
    <3>1. CASE UNCHANGED table
      BY <3>1 DEF TypeOK
    <3>2. CASE table[u.id].stored /\ table' = [table EXCEPT ![u.id].text = u.text]
      <4>1. [table[u.id] EXCEPT !.text = u.text] \in Rows
        BY <2>1, <2>3, <3>2 DEF Rows
      <4> QED BY <2>1, <3>2, <4>1 DEF TypeOK, Rows
    <3>3. CASE table[u.id].stored /\ table' = [table EXCEPT ![u.id].deleted = TRUE]
      <4>1. [table[u.id] EXCEPT !.deleted = TRUE] \in Rows
        BY <2>1, <2>3, <3>3 DEF Rows
      <4> QED BY <2>1, <3>3, <4>1 DEF TypeOK, Rows
    <3> QED BY <2>2, <3>1, <3>2, <3>3
  <2>5. Stored' = Stored
    BY <2>4 DEF Stored
  <2> QED BY <2>1, <2>4, <2>5 DEF TypeOK, WithinPosted, FetchIsContiguous, GapsAreAccounted
<1> QED BY <1>1, <1>2, <1>3 DEF ListenerStep

LEMMA TableStepIInv == IInv /\ TableStep => IInv'
<1> SUFFICES ASSUME IInv, TableStep PROVE IInv'
  OBVIOUS
<1> USE IngestAssumption DEF IInv
<1>0. /\ UNCHANGED <<ids, posted, blank, version, removed, listening, updates, crawl>> /\ Wanted' = Wanted
      /\ upsets' \in 0..MaxUpsets
  BY DEF TableStep, Wipe, Retain, Upset, telegram, Alive, Wanted, TypeOK
<1>1. CASE Wipe
  <2>1. table' \in [Ids -> Rows \cup {Absent}] /\ Stored' = {}
    BY <1>1 DEF Wipe, Stored, Absent
  <2>2. passedOver' = passedOver \cup 1..crawl.from /\ passedOver' \subseteq Ids
    BY <1>1, PrefixOfIds DEF Wipe, TypeOK
  <2>3. TypeOK' /\ WithinPosted' /\ GapsAreAccounted'
    BY <1>0, <2>1, <2>2 DEF TypeOK, WithinPosted, GapsAreAccounted
  <2>4. FetchIsContiguous'
    BY <1>0, <2>1, <2>2 DEF FetchIsContiguous, Alive, Wanted, TypeOK
  <2> QED BY <2>3, <2>4
<1>2. ASSUME NEW k \in 1..posted, Retain(k) PROVE IInv'
  <2>1. table' \in [Ids -> Rows \cup {Absent}] /\ Stored' = Stored \ 1..k
    <3>1. k \in Nat
      BY DEF TypeOK
    <3> QED BY <1>2, <3>1, RowsKeptOrDropped DEF Retain, Stored
  <2>2. passedOver' = passedOver \cup 1..k /\ passedOver' \subseteq Ids
    BY <1>2, PrefixOfIds DEF Retain, TypeOK
  <2>3. TypeOK' /\ WithinPosted' /\ GapsAreAccounted'
    BY <1>0, <2>1, <2>2 DEF TypeOK, WithinPosted, GapsAreAccounted
  <2>4. FetchIsContiguous'
    BY <1>0, <2>1, <2>2 DEF FetchIsContiguous
  <2> QED BY <2>3, <2>4
<1> QED BY <1>1, <1>2 DEF TableStep

\* The strengthened invariant holds in every reachable state.
THEOREM IngestInvariant == Spec => []IInv
<1>1. IInv /\ UNCHANGED vars => IInv'
  BY DEF IInv, vars, TypeOK, WithinPosted, FetchIsContiguous, GapsAreAccounted, Stored, Alive, Wanted
<1>2. IInv /\ [Next]_vars => IInv'
  BY <1>1, TelegramStepIInv, CrawlStepIInv, ListenerStepIInv, TableStepIInv DEF Next
<1> QED BY <1>2, InitIInv, PTL DEF Spec

\* Every variable of the message store stays in its type.
THEOREM TypeCorrect == Spec => []TypeOK
<1>1. IInv => TypeOK
  BY DEF IInv
<1> QED BY <1>1, IngestInvariant, PTL

\* Crawl limits, stops, lost batches and failed saves, interleaved with the
\* listener in any way, leave no gap that is not accounted for.
THEOREM NoUnexplainedGap == Spec => []GapsAreAccounted
<1>1. IInv => GapsAreAccounted
  BY DEF IInv
<1> QED BY <1>1, IngestInvariant, PTL

-----------------------------------------------------------------------------
(* How rows change                                                         *)

\* The row of a message after a save: its mark is as it was, and a text that
\* changed is the batch's, from a batch that also had a message without a row.
LEMMA InsertedRow ==
  ASSUME TypeOK, NEW b, NEW m \in Ids
  PROVE  /\ table[m].stored => Inserted(b)[m].deleted = table[m].deleted
         /\ \/ Inserted(b)[m] = table[m]
            \/ /\ m \in DOMAIN b /\ ~(DOMAIN b \subseteq Stored)
               /\ Inserted(b)[m].text = b[m]
<1>0. table[m] \in Rows \cup {Absent}
  BY DEF TypeOK
<1>1. CASE DOMAIN b \subseteq Stored
  BY <1>1 DEF Inserted
<1>2. CASE ~(DOMAIN b \subseteq Stored)
  <2>1. CASE m \notin DOMAIN b
    BY <1>2, <2>1 DEF Inserted
  <2>2. CASE m \in DOMAIN b /\ table[m].stored
    <3>1. Inserted(b)[m] = [table[m] EXCEPT !.text = b[m]]
      BY <1>2, <2>2 DEF Inserted
    <3> QED BY <1>0, <1>2, <2>2, <3>1 DEF Rows, Absent
  <2>3. CASE m \in DOMAIN b /\ ~table[m].stored
    <3>1. Inserted(b)[m] = Row(b[m])
      BY <1>2, <2>3 DEF Inserted
    <3>2. Inserted(b)[m].text = b[m]
      BY <3>1 DEF Row
    <3> QED BY <1>2, <2>3, <3>2
  <2> QED BY <2>1, <2>2, <2>3
<1> QED BY <1>1, <1>2

\* All that a step may do to the row of a message and leave it stored.
RowStep(m) ==
  \/ table'[m] = table[m]
  \/ /\ crawl.mode # "none"
     /\ table' = Inserted(crawl.batch)
  \/ \E u \in updates : /\ u.kind = "new"
                        /\ table' = Inserted([n \in {u.id} |-> u.text])
  \/ /\ ids.event = ids.entity
     /\ table'[m].deleted = table[m].deleted
  \/ /\ table'[m].deleted = TRUE
     /\ table'[m].text = table[m].text

LEMMA StepOfRow ==
  ASSUME TypeOK, [Next]_vars, NEW m \in Ids, table'[m].stored
  PROVE  RowStep(m)
<1>0. table \in [Ids -> Rows \cup {Absent}]
  BY DEF TypeOK
<1>1. CASE UNCHANGED table
  BY <1>1 DEF RowStep
<1>2. CASE SaveBatch
  BY <1>2 DEF SaveBatch, RowStep
<1>3. ASSUME NEW u \in updates, HandleNew(u) PROVE RowStep(m)
  BY <1>3 DEF HandleNew, RowStep
<1>4. ASSUME NEW u \in updates, HandleEdit(u) PROVE RowStep(m)
  <2>1. CASE UNCHANGED table
    BY <2>1 DEF RowStep
  <2>2. CASE FindsRow(u.id) /\ table' = [table EXCEPT ![u.id].text = u.text]
    <3>1. table[u.id] \in Rows \/ u.id # m
      BY <1>0, <2>2 DEF FindsRow, Absent
    <3>2. table'[m].deleted = table[m].deleted
      BY <1>0, <2>2, <3>1 DEF Rows
    <3> QED BY <2>2, <3>2 DEF FindsRow, RowStep
  <2> QED BY <1>4, <2>1, <2>2 DEF HandleEdit
<1>5. ASSUME NEW u \in updates, HandleDelete(u) PROVE RowStep(m)
  <2>1. CASE UNCHANGED table
    BY <2>1 DEF RowStep
  <2>2. CASE FindsRow(u.id) /\ table' = [table EXCEPT ![u.id].deleted = TRUE]
    <3>1. CASE u.id # m
      BY <1>0, <2>2, <3>1 DEF RowStep
    <3>2. CASE u.id = m
      <4>1. table[m] \in Rows
        BY <1>0, <2>2, <3>2 DEF FindsRow, Absent
      <4>2. table'[m].deleted = TRUE /\ table'[m].text = table[m].text
        BY <1>0, <2>2, <3>2, <4>1 DEF Rows
      <4> QED BY <4>2 DEF RowStep
    <3> QED BY <3>1, <3>2
  <2> QED BY <1>5, <2>1, <2>2 DEF HandleDelete
<1>6. CASE Wipe
  BY <1>6 DEF Wipe, Absent
<1>7. ASSUME NEW k \in 1..posted, Retain(k) PROVE RowStep(m)
  BY <1>7 DEF Retain, Absent, RowStep
<1>8. TelegramStep => UNCHANGED table
  BY DEF TelegramStep, Post, Edit, Remove
<1>9. CrawlBegins \/ OtherCrawlBegins \/ FetchNext \/ BatchLost \/ ToggleListening
        => UNCHANGED table
  BY DEF CrawlBegins, OtherCrawlBegins, FetchNext, BatchLost, ToggleListening
<1>10. UNCHANGED vars => UNCHANGED table
  BY DEF vars
<1> QED BY <1>1, <1>2, <1>3, <1>4, <1>5, <1>6, <1>7, <1>8, <1>9, <1>10
        DEF Next, CrawlStep, ListenerStep, TableStep

\* Neither a batch fetched before the deletion nor a late edit shows a message
\* again that is marked as deleted.
THEOREM MarksAreFinal == Spec => DeletedStaysDeleted
<1>1. ASSUME TypeOK, [Next]_vars, NEW m \in Stored, table[m].deleted, table'[m].stored
      PROVE  table'[m].deleted
  <2>1. m \in Ids /\ table[m].stored
    BY DEF Stored
  <2>2. RowStep(m)
    BY <1>1, <2>1, StepOfRow
  <2> QED BY <1>1, <2>1, <2>2, InsertedRow DEF RowStep
<1>2. TypeOK /\ [Next]_vars
        => [\A m \in Stored : table[m].deleted /\ table'[m].stored => table'[m].deleted]_vars
  BY <1>1
<1> QED BY <1>2, TypeCorrect, PTL DEF Spec, DeletedStaysDeleted

-----------------------------------------------------------------------------
(* Why texts do not go back                                                *)

\* As long as edit events do not find their rows, what is stored is no newer
\* than the message, and no newer than what a crawl under way has fetched of it.
NeverAhead ==
  /\ \A u \in updates : u.kind = "new" => u.text = 0
  /\ ids.event # ids.entity =>
       /\ \A m \in Stored : table[m].text <= version[m]
       /\ \A m \in DOMAIN crawl.batch : crawl.batch[m] <= version[m]
       /\ \A m \in DOMAIN crawl.batch \cap Stored : table[m].text <= crawl.batch[m]

LEMMA StoredRow ==
  ASSUME TypeOK, NEW m \in Stored
  PROVE  m \in Ids /\ table[m].stored /\ table[m].text \in Nat
<1>1. m \in Ids /\ table[m].stored
  BY DEF Stored
<1>2. table[m] \in Rows
  BY <1>1 DEF TypeOK, Absent
<1>3. table[m].text \in 0..MaxVersion /\ MaxVersion \in Nat
  BY <1>2, IngestAssumption DEF Rows
<1> QED BY <1>1, <1>3

LEMMA InitNeverAhead == Init => NeverAhead
<1> SUFFICES ASSUME Init PROVE NeverAhead
  OBVIOUS
<1>1. Stored = {} /\ updates = {} /\ DOMAIN crawl.batch = {}
  BY NoBatchType DEF Init, Stored, Absent, IdleCrawl
<1> QED BY <1>1 DEF NeverAhead

\* Telegram's side: only a version grows, and a new message's text is version 0.
LEMMA TelegramStepNeverAhead ==
  ASSUME TypeOK, NeverAhead, TelegramStep
  PROVE  NeverAhead'
<1>1. UNCHANGED <<ids, table, crawl>> /\ Stored' = Stored
  BY DEF TelegramStep, Post, Edit, Remove, Stored
<1>2. \A u \in updates' : u \in updates \/ u.kind # "new" \/ u.text = 0
  BY DEF TelegramStep, Post, Edit, Remove, Notify
<1>3. ASSUME NEW m \in Ids PROVE /\ version[m] \in Nat /\ version'[m] \in Nat
                                   /\ version[m] <= version'[m]
  <2>1. version \in [Ids -> Nat] /\ version[m] \in Nat
    BY <1>3, IngestAssumption DEF TypeOK
  <2>2. CASE UNCHANGED version
    BY <2>1, <2>2
  <2>3. CASE \E n \in Ids : version' = [version EXCEPT ![n] = version[n] + 1]
    BY <1>3, <2>1, <2>3
  <2> QED BY <2>2, <2>3 DEF TelegramStep, Post, Edit, Remove
<1>4. ASSUME NEW m \in DOMAIN crawl.batch PROVE m \in Ids /\ crawl.batch[m] \in Nat
  BY <1>4, BatchType, IngestAssumption
<1> QED BY <1>1, <1>2, <1>3, <1>4, StoredRow DEF NeverAhead

\* A step that leaves the table, Telegram and what is fetched alone.
LEMMA NothingStoredNeverAhead ==
  ASSUME NeverAhead, UNCHANGED <<ids, version, table>>, updates' \subseteq updates,
         crawl'.batch = crawl.batch \/ DOMAIN crawl'.batch = {}
  PROVE  NeverAhead'
BY DEF NeverAhead, Stored

LEMMA FetchNextNeverAhead ==
  ASSUME TypeOK, NeverAhead, FetchNext
  PROVE  NeverAhead'
<1>1. PICK m \in Unfetched : Skip(m) \/ Fetch(m)
  BY DEF FetchNext
<1>2. UNCHANGED <<ids, version, updates, table>> /\ Stored' = Stored
  BY DEF FetchNext, telegram, Stored
<1>3. \/ crawl'.batch = crawl.batch
      \/ /\ DOMAIN crawl'.batch = DOMAIN crawl.batch \cup {m}
         /\ \A n \in DOMAIN crawl'.batch :
              crawl'.batch[n] = IF n = m THEN version[m] ELSE crawl.batch[n]
  <2>1. \/ crawl'.batch = crawl.batch
        \/ crawl'.batch = [n \in DOMAIN crawl.batch \cup {m} |->
                            IF n = m THEN version[m] ELSE crawl.batch[n]]
    <3>1. TypeOK
      OBVIOUS
    <3> QED BY <1>1, <3>1, FetchedOne
  <2> QED BY <2>1
<1>4. m \in Ids /\ version[m] \in Nat
  BY <1>1, IngestAssumption DEF Unfetched, Alive, Wanted, Ids, TypeOK
<1> QED BY <1>2, <1>3, <1>4 DEF NeverAhead

LEMMA SaveNeverAhead ==
  ASSUME TypeOK, NeverAhead, SaveBatch
  PROVE  NeverAhead'
<1>1. /\ UNCHANGED <<ids, version, updates>> /\ DOMAIN crawl'.batch = {}
      /\ table' = Inserted(crawl.batch)
  BY NoBatchType DEF SaveBatch, telegram, IdleCrawl
<1>2. ASSUME ids.event # ids.entity, NEW m \in Stored'
      PROVE  table'[m].text <= version[m]
  <2>1. m \in Ids /\ table'[m].stored
    BY <1>2 DEF Stored
  <2>2. CASE table'[m] = table[m]
    BY <1>2, <2>1, <2>2 DEF NeverAhead, Stored
  <2>3. CASE m \in DOMAIN crawl.batch /\ table'[m].text = crawl.batch[m]
    BY <1>2, <2>3 DEF NeverAhead
  <2> QED BY <1>1, <2>1, <2>2, <2>3, InsertedRow
<1> QED BY <1>1, <1>2 DEF NeverAhead

LEMMA HandleNewNeverAhead ==
  ASSUME TypeOK, NeverAhead, NEW u \in updates, HandleNew(u)
  PROVE  NeverAhead'
<1>1. UNCHANGED <<ids, version, crawl>> /\ updates' \subseteq updates
  BY DEF HandleNew, telegram
<1>2. CASE UNCHANGED table
  BY <1>1, <1>2, NothingStoredNeverAhead
<1>3. CASE table' = Inserted([n \in {u.id} |-> u.text])
  <2>1. u.text = 0
    BY DEF HandleNew, NeverAhead
  <2>2. ASSUME NEW m \in Stored'
        PROVE  m \in Ids /\ (table'[m].text = 0 \/ (m \in Stored /\ table'[m] = table[m]))
    <3>1. m \in Ids /\ table'[m].stored
      BY <2>2 DEF Stored
    <3> DEFINE b == [n \in {u.id} |-> u.text]
    <3>2. DOMAIN b = {u.id} /\ \A n \in DOMAIN b : b[n] = 0
      BY <2>1
    <3>3. table' = Inserted(b)
      BY <1>3
    <3> HIDE DEF b
    <3> QED BY <3>1, <3>2, <3>3, InsertedRow DEF Stored
  <2>3. \A m \in Ids : 0 <= version[m]
    BY IngestAssumption DEF TypeOK
  <2>4. \A m \in DOMAIN crawl.batch : 0 <= crawl.batch[m]
    BY BatchType, IngestAssumption
  <2> QED BY <1>1, <2>2, <2>3, <2>4 DEF NeverAhead
<1> QED BY <1>2, <1>3 DEF HandleNew

LEMMA StepNeverAhead ==
  ASSUME TypeOK, NeverAhead, [Next]_vars
  PROVE  NeverAhead'
<1>1. CASE TelegramStep
  BY <1>1, TelegramStepNeverAhead
<1>2. CASE CrawlBegins \/ OtherCrawlBegins \/ BatchLost
  <2>1. UNCHANGED <<ids, version, table, updates>>
    BY <1>2 DEF CrawlBegins, OtherCrawlBegins, BatchLost, telegram
  <2>2. crawl'.batch = NoBatch
    BY <1>2 DEF CrawlBegins, OtherCrawlBegins, BatchLost, Begin, IdleCrawl
  <2> QED BY <2>1, <2>2, NoBatchType, NothingStoredNeverAhead
<1>3. CASE FetchNext
  BY <1>3, FetchNextNeverAhead
<1>4. CASE SaveBatch
  BY <1>4, SaveNeverAhead
<1>5. CASE ToggleListening
  BY <1>5, NothingStoredNeverAhead DEF ToggleListening, telegram
<1>6. ASSUME NEW u \in updates, HandleNew(u) PROVE NeverAhead'
  BY <1>6, HandleNewNeverAhead
<1>7. ASSUME NEW u \in updates, HandleEdit(u) \/ HandleDelete(u) PROVE NeverAhead'
  <2>1. UNCHANGED <<ids, version, crawl>> /\ updates' \subseteq updates
    BY <1>7 DEF HandleEdit, HandleDelete, telegram
  <2>2. ids.event # ids.entity => UNCHANGED table
    BY <1>7 DEF HandleEdit, HandleDelete, FindsRow
  <2> QED BY <2>1, <2>2 DEF NeverAhead, Stored
<1>8. CASE TableStep
  <2>1. UNCHANGED <<ids, version, updates, crawl>>
    BY <1>8 DEF TableStep, Wipe, Retain, telegram
  <2>2. \A m \in Stored' : m \in Stored /\ table'[m] = table[m]
    BY <1>8 DEF TableStep, Wipe, Retain, Stored, Absent
  <2> QED BY <2>1, <2>2 DEF NeverAhead
<1>9. CASE UNCHANGED vars
  BY <1>9, NothingStoredNeverAhead DEF vars
<1> QED BY <1>1, <1>2, <1>3, <1>4, <1>5, <1>6, <1>7, <1>8, <1>9
        DEF Next, CrawlStep, ListenerStep

\* Unless edit events find their rows, no order of crawls, saves and handlers
\* replaces a stored text by an older one.
THEOREM TextsOnlyGrow == Spec => TextNeverGoesBack
<1>1. TypeOK /\ NeverAhead /\ [Next]_vars => NeverAhead'
  BY StepNeverAhead
<1>2. Spec => []NeverAhead
  BY <1>1, InitNeverAhead, TypeCorrect, PTL DEF Spec
<1>3. ASSUME TypeOK, NeverAhead, [Next]_vars, ids.event # ids.entity,
             NEW m \in Stored, table'[m].stored
      PROVE  table'[m].text >= table[m].text
  <2>1. m \in Ids /\ table[m].stored /\ table[m].text \in Nat
    BY <1>3, StoredRow
  <2>2. CASE table'[m].text = table[m].text
    BY <2>1, <2>2
  <2>3. CASE table' = Inserted(crawl.batch)
    <3>1. CASE table'[m] = table[m]
      BY <2>1, <3>1
    <3>2. CASE m \in DOMAIN crawl.batch /\ table'[m].text = crawl.batch[m]
      <4>1. crawl.batch[m] \in Nat
        BY <3>2, BatchType, <1>3
      <4> QED BY <1>3, <2>1, <3>2, <4>1 DEF NeverAhead
    <3> QED BY <1>3, <2>1, <2>3, <3>1, <3>2, InsertedRow
  <2>4. ASSUME NEW u \in updates, table' = Inserted([n \in {u.id} |-> u.text])
        PROVE  table'[m] = table[m]
    <3> DEFINE b == [n \in {u.id} |-> u.text]
    <3>1. DOMAIN b = {u.id}
      OBVIOUS
    <3>2. table' = Inserted(b)
      BY <2>4
    <3> HIDE DEF b
    <3> QED BY <1>3, <2>1, <3>1, <3>2, InsertedRow
  <2> QED BY <1>3, <2>1, <2>2, <2>3, <2>4, StepOfRow DEF RowStep
<1>4. TypeOK /\ NeverAhead /\ [Next]_vars
        => [ids.event # ids.entity => \A m \in Stored :
              table'[m].stored => table'[m].text >= table[m].text]_vars
  BY <1>3
<1> QED BY <1>2, <1>4, TypeCorrect, PTL DEF Spec, TextNeverGoesBack

-----------------------------------------------------------------------------
(* The table as a mirror of Telegram. What is on its way to the table, in  *)
(* a batch or in an update, is about a message that exists, as it is now   *)
(* or was once; hence so is what gets there, whatever order it comes in.   *)

Mirror == INSTANCE MirrorContract

Truthful ==
  /\ \A u \in updates : u.kind # "delete" => u.text <= version[u.id]
  /\ \A u \in updates : u.kind = "delete" => u.id \in removed
  /\ \A m \in DOMAIN crawl.batch : m <= posted /\ crawl.batch[m] <= version[m]

\* A step that hands out nothing and takes nothing from Telegram.
LEMMA TruthfulKept ==
  ASSUME Truthful, UNCHANGED telegram, updates' \subseteq updates,
         crawl'.batch = crawl.batch \/ DOMAIN crawl'.batch = {}
  PROVE  Truthful'
BY DEF Truthful, telegram

LEMMA TruthfulTelegram ==
  ASSUME IInv, Truthful, TelegramStep
  PROVE  Truthful'
<1> USE DEF IInv
<1>1. UNCHANGED crawl /\ posted \in Nat /\ posted' \in Nat /\ posted <= posted'
  <2>1. posted \in Nat
    BY IngestAssumption DEF TypeOK
  <2>2. posted' \in {posted, posted + 1} /\ UNCHANGED crawl
    BY DEF TelegramStep, Post, Edit, Remove
  <2> QED BY <2>1, <2>2
<1>2. ASSUME NEW m \in Ids PROVE /\ version[m] \in Nat /\ version'[m] \in Nat
                                   /\ version[m] <= version'[m]
  <2>1. version \in [Ids -> Nat] /\ version[m] \in Nat
    BY <1>2, IngestAssumption DEF TypeOK
  <2>2. CASE UNCHANGED version
    BY <2>1, <2>2
  <2>3. CASE \E n \in Ids : version' = [version EXCEPT ![n] = version[n] + 1]
    BY <1>2, <2>1, <2>3
  <2> QED BY <2>2, <2>3 DEF TelegramStep, Post, Edit, Remove
<1>3. removed \subseteq removed'
  BY DEF TelegramStep, Post, Edit, Remove
<1>4. \A u \in updates : u.id \in Ids /\ u.text \in Nat
  BY IngestAssumption DEF TypeOK, Updates
<1>5. \A m \in DOMAIN crawl.batch : m \in Ids /\ crawl.batch[m] \in Nat
  BY BatchType, IngestAssumption
<1>6. ASSUME NEW u \in updates', u \notin updates
      PROVE  /\ u.kind # "delete" => u.text <= version'[u.id]
             /\ u.kind = "delete" => u.id \in removed'
  <2>1. CASE Post
    <3>1. u = [kind |-> "new", id |-> posted + 1, text |-> 0] /\ posted + 1 \in Ids
      BY <1>1, <1>6, <2>1, IngestAssumption DEF Post, Notify, Ids
    <3> QED BY <1>2, <3>1
  <2>2. ASSUME NEW m \in Ids, Edit(m)
        PROVE  u.kind # "delete" /\ u.text <= version'[u.id]
    <3>1. u = [kind |-> "edit", id |-> m, text |-> version[m] + 1]
      BY <1>6, <2>2 DEF Edit, Notify
    <3>2. version'[m] = version[m] + 1
      BY <2>2 DEF Edit, TypeOK
    <3> QED BY <1>2, <3>1, <3>2
  <2>3. ASSUME NEW m \in Ids, Remove(m) PROVE u.kind = "delete" /\ u.id \in removed'
    BY <1>6, <2>3 DEF Remove, Notify
  <2> QED BY <2>1, <2>2, <2>3 DEF TelegramStep
<1>7. ASSUME NEW u \in updates
      PROVE  /\ u.kind # "delete" => u.text <= version'[u.id]
             /\ u.kind = "delete" => u.id \in removed'
  <2>1. /\ u.id \in Ids /\ u.text \in Nat
        /\ version[u.id] \in Nat /\ version'[u.id] \in Nat /\ version[u.id] <= version'[u.id]
    BY <1>2, <1>4
  <2> QED BY <1>3, <2>1 DEF Truthful
<1>8. ASSUME NEW m \in DOMAIN crawl.batch
      PROVE  m <= posted' /\ crawl.batch[m] <= version'[m]
  <2>1. /\ m \in Nat /\ crawl.batch[m] \in Nat
        /\ version[m] \in Nat /\ version'[m] \in Nat /\ version[m] <= version'[m]
    BY <1>2, <1>5 DEF Ids
  <2> QED BY <1>1, <2>1 DEF Truthful
<1> QED BY <1>1, <1>6, <1>7, <1>8 DEF Truthful

LEMMA TruthfulFetch ==
  ASSUME IInv, Truthful, FetchNext
  PROVE  Truthful'
<1> USE DEF IInv
<1>1. PICK m \in Unfetched : Skip(m) \/ Fetch(m)
  BY DEF FetchNext
<1>2. UNCHANGED <<posted, version, removed, updates>>
  BY DEF FetchNext, telegram
<1>3. \/ crawl'.batch = crawl.batch
      \/ /\ DOMAIN crawl'.batch = DOMAIN crawl.batch \cup {m}
         /\ \A n \in DOMAIN crawl'.batch :
              crawl'.batch[n] = IF n = m THEN version[m] ELSE crawl.batch[n]
  <2>1. \/ crawl'.batch = crawl.batch
        \/ crawl'.batch = [n \in DOMAIN crawl.batch \cup {m} |->
                            IF n = m THEN version[m] ELSE crawl.batch[n]]
    <3>1. TypeOK
      OBVIOUS
    <3> QED BY <1>1, <3>1, FetchedOne
  <2> QED BY <2>1
<1>4. m \in 1..posted /\ posted \in 0..MaxId /\ m \in Ids
  BY <1>1, IngestAssumption DEF Unfetched, Alive, Wanted, Ids, TypeOK
<1>5. version[m] \in Nat
  BY <1>4, IngestAssumption DEF TypeOK
<1> QED BY <1>2, <1>3, <1>4, <1>5 DEF Truthful

LEMMA TruthfulStep ==
  ASSUME IInv, Truthful, [Next]_vars
  PROVE  Truthful'
<1>1. CASE TelegramStep
  BY <1>1, TruthfulTelegram
<1>2. CASE FetchNext
  BY <1>2, TruthfulFetch
<1>3. CASE CrawlBegins \/ OtherCrawlBegins \/ SaveBatch \/ BatchLost
  <2>1. UNCHANGED <<telegram, updates>>
    BY <1>3 DEF CrawlBegins, OtherCrawlBegins, SaveBatch, BatchLost
  <2>2. crawl'.batch = NoBatch
    BY <1>3 DEF CrawlBegins, OtherCrawlBegins, SaveBatch, BatchLost, Begin, IdleCrawl
  <2> QED BY <2>1, <2>2, NoBatchType, TruthfulKept
<1>4. CASE ListenerStep
  <2>1. UNCHANGED <<telegram, crawl>> /\ updates' \subseteq updates
    BY <1>4 DEF ListenerStep, ToggleListening, HandleNew, HandleEdit, HandleDelete
  <2> QED BY <2>1, TruthfulKept
<1>5. CASE TableStep
  <2>1. UNCHANGED <<telegram, updates, crawl>>
    BY <1>5 DEF TableStep, Wipe, Retain
  <2> QED BY <2>1, TruthfulKept
<1>6. CASE UNCHANGED vars
  BY <1>6, TruthfulKept DEF vars, telegram
<1> QED BY <1>1, <1>2, <1>3, <1>4, <1>5, <1>6 DEF Next, CrawlStep

LEMMA TruthfulInit == Init => Truthful
<1> SUFFICES ASSUME Init PROVE Truthful
  OBVIOUS
<1>1. updates = {} /\ DOMAIN crawl.batch = {}
  BY NoBatchType DEF Init, IdleCrawl
<1> QED BY <1>1 DEF Truthful

-----------------------------------------------------------------------------
\* A save of truthful texts is a save of the contract, or changes nothing.
LEMMA SaveIsFaithful ==
  ASSUME TypeOK, NEW b, b \in Batches, UNCHANGED telegram,
         \A m \in DOMAIN b : m \in Ids /\ m <= posted /\ b[m] <= version[m],
         table' = Inserted(b)
  PROVE  [Mirror!Next]_(Mirror!vars)
<1>1. CASE DOMAIN b \subseteq Stored
  <2>1. UNCHANGED table
    BY <1>1 DEF Inserted
  <2> QED BY <2>1 DEF telegram, Mirror!vars
<1>2. CASE ~(DOMAIN b \subseteq Stored)
  <2>1. PICK S \in SUBSET Ids : b \in [S -> 0..MaxVersion]
    BY DEF Batches
  <2>2. DOMAIN b = S /\ S \subseteq 1..posted /\ \A m \in S : b[m] <= version[m]
    <3>1. posted \in Nat
      BY IngestAssumption DEF TypeOK
    <3> QED BY <2>1, <3>1 DEF Ids
  <2>3. table' = [m \in Ids |->
                   CASE m \notin S -> table[m]
                     [] m \in S /\ table[m].stored -> [table[m] EXCEPT !.text = b[m]]
                     [] OTHER -> Row(b[m])]
    BY <1>2, <2>2 DEF Inserted
  <2>4. Mirror!Save(S)
    BY <2>1, <2>2, <2>3 DEF Mirror!Save, Mirror!Ids, Mirror!Row, Mirror!telegram, Ids, Row, telegram
  <2>5. S \in SUBSET Mirror!Ids
    BY <2>1 DEF Ids, Mirror!Ids
  <2> QED BY <2>4, <2>5 DEF Mirror!Next
<1> QED BY <1>1, <1>2

\* An edit of one row is a save of one message.
LEMMA OneRow ==
  ASSUME NEW f, NEW V, f \in [Ids -> V], NEW i \in Ids, f[i].stored, NEW v
  PROVE  [f EXCEPT ![i].text = v]
           = [m \in Ids |->
               CASE m \notin {i} -> f[m]
                 [] m \in {i} /\ f[m].stored -> [f[m] EXCEPT !.text = [n \in {i} |-> v][m]]
                 [] OTHER -> Row([n \in {i} |-> v][m])]
OBVIOUS

LEMMA HandleNewIsFaithful ==
  ASSUME IInv, Truthful, NEW u \in updates, HandleNew(u)
  PROVE  [Mirror!Next]_(Mirror!vars)
<1> USE DEF IInv
<1>1. UNCHANGED telegram /\ u.kind = "new"
  BY DEF HandleNew
<1>2. CASE UNCHANGED table
  BY <1>1, <1>2 DEF telegram, Mirror!vars
<1>3. CASE table' = Inserted([m \in {u.id} |-> u.text])
  <2>1. /\ u.id \in Ids /\ u.text \in 0..MaxVersion
        /\ u.id <= posted /\ u.text <= version[u.id]
    BY <1>1 DEF TypeOK, Updates, WithinPosted, Truthful
  <2> DEFINE b == [m \in {u.id} |-> u.text]
  <2>2. b \in [{u.id} -> 0..MaxVersion] /\ {u.id} \in SUBSET Ids
    BY <2>1
  <2>3. b \in Batches
    BY <2>2, IsBatch
  <2>4. \A m \in DOMAIN b : m \in Ids /\ m <= posted /\ b[m] <= version[m]
    BY <2>1
  <2>5. table' = Inserted(b)
    BY <1>3
  <2> HIDE DEF b
  <2> QED BY <1>1, <2>3, <2>4, <2>5, SaveIsFaithful
<1> QED BY <1>2, <1>3 DEF HandleNew

LEMMA HandleEditIsFaithful ==
  ASSUME IInv, Truthful, NEW u \in updates, HandleEdit(u)
  PROVE  [Mirror!Next]_(Mirror!vars)
<1> USE DEF IInv
<1>1. UNCHANGED telegram /\ u.kind = "edit"
  BY DEF HandleEdit
<1>2. CASE UNCHANGED table
  BY <1>1, <1>2 DEF telegram, Mirror!vars
<1>3. CASE FindsRow(u.id) /\ table' = [table EXCEPT ![u.id].text = u.text]
  <2>1. /\ u.id \in Ids /\ u.text \in 0..MaxVersion /\ table[u.id].stored
        /\ u.id <= posted /\ u.text <= version[u.id] /\ posted \in Nat
    BY <1>1, <1>3, IngestAssumption DEF TypeOK, Updates, WithinPosted, Truthful, FindsRow
  <2> DEFINE S == {u.id}
             t == [m \in S |-> u.text]
  <2>2. S \subseteq 1..posted /\ t \in [S -> 0..MaxVersion] /\ \A m \in S : t[m] <= version[m]
    BY <2>1 DEF Ids
  <2>3. table' = [m \in Ids |->
                   CASE m \notin S -> table[m]
                     [] m \in S /\ table[m].stored -> [table[m] EXCEPT !.text = t[m]]
                     [] OTHER -> Row(t[m])]
    <3>1. table \in [Ids -> Rows \cup {Absent}]
      BY DEF TypeOK
    <3> QED BY <1>3, <2>1, <3>1, OneRow
  <2>4. Mirror!Save(S)
    <3> HIDE DEF S, t
    <3> QED BY <1>1, <2>2, <2>3 DEF Mirror!Save, Mirror!Ids, Mirror!Row, Mirror!telegram, Ids, Row, telegram
  <2>5. S \in SUBSET Mirror!Ids
    BY <2>1 DEF Ids, Mirror!Ids
  <2> QED BY <2>4, <2>5 DEF Mirror!Next
<1> QED BY <1>2, <1>3 DEF HandleEdit

LEMMA HandleDeleteIsFaithful ==
  ASSUME IInv, Truthful, NEW u \in updates, HandleDelete(u)
  PROVE  [Mirror!Next]_(Mirror!vars)
<1>1. UNCHANGED telegram /\ u.id \in removed /\ u.id \in Mirror!Ids
  BY DEF HandleDelete, Truthful, IInv, TypeOK, Updates, Ids, Mirror!Ids
<1>2. CASE UNCHANGED table
  BY <1>1, <1>2 DEF telegram, Mirror!vars
<1>3. CASE FindsRow(u.id) /\ table' = [table EXCEPT ![u.id].deleted = TRUE]
  <2>1. Mirror!Mark(u.id)
    BY <1>1, <1>3 DEF FindsRow, Mirror!Mark, Mirror!telegram, telegram
  <2> QED BY <1>1, <2>1 DEF Mirror!Next
<1> QED BY <1>2, <1>3 DEF HandleDelete

LEMMA TelegramIsFaithful ==
  ASSUME TelegramStep
  PROVE  Mirror!Next
<1>1. CASE Post
  <2>1. Mirror!Post
    BY <1>1 DEF Post, Mirror!Post
  <2> QED BY <2>1 DEF Mirror!Next
<1>2. ASSUME NEW m \in Ids, Edit(m) PROVE Mirror!Next
  <2>1. Mirror!Edit(m) /\ m \in Mirror!Ids
    BY <1>2 DEF Edit, Alive, Wanted, Ids, Mirror!Edit, Mirror!Alive, Mirror!Ids
  <2> QED BY <2>1 DEF Mirror!Next
<1>3. ASSUME NEW m \in Ids, Remove(m) PROVE Mirror!Next
  <2>1. Mirror!Remove(m) /\ m \in Mirror!Ids
    BY <1>3 DEF Remove, Alive, Wanted, Ids, Mirror!Remove, Mirror!Alive, Mirror!Ids
  <2> QED BY <2>1 DEF Mirror!Next
<1> QED BY <1>1, <1>2, <1>3 DEF TelegramStep

LEMMA DropIsFaithful ==
  ASSUME IInv, TableStep
  PROVE  Mirror!Next
<1>1. ASSUME NEW S \in SUBSET Ids, UNCHANGED telegram,
             table' = [m \in Ids |-> IF m \in S THEN Absent ELSE table[m]]
      PROVE  Mirror!Next
  <2>1. Mirror!Drop(S) /\ S \in SUBSET Mirror!Ids
    BY <1>1 DEF Mirror!Drop, Mirror!Absent, Mirror!Ids, Mirror!telegram, Absent, Ids, telegram
  <2> QED BY <2>1 DEF Mirror!Next
<1>2. CASE Wipe
  <2>1. table' = [m \in Ids |-> IF m \in Ids THEN Absent ELSE table[m]] /\ UNCHANGED telegram
    BY <1>2 DEF Wipe
  <2> QED BY <1>1, <2>1
<1>3. ASSUME NEW k \in 1..posted, Retain(k) PROVE Mirror!Next
  <2> DEFINE S == {m \in Ids : m <= k}
  <2>1. table' = [m \in Ids |-> IF m \in S THEN Absent ELSE table[m]] /\ UNCHANGED telegram
    BY <1>3 DEF Retain
  <2>2. S \in SUBSET Ids
    OBVIOUS
  <2> HIDE DEF S
  <2> QED BY <1>1, <2>1, <2>2
<1> QED BY <1>2, <1>3 DEF TableStep

LEMMA MirrorStep == IInv /\ Truthful /\ [Next]_vars => [Mirror!Next]_(Mirror!vars)
<1> SUFFICES ASSUME IInv, Truthful, [Next]_vars PROVE [Mirror!Next]_(Mirror!vars)
  OBVIOUS
<1>1. CASE TelegramStep
  BY <1>1, TelegramIsFaithful
<1>2. CASE TableStep
  BY <1>2, DropIsFaithful
<1>3. CASE SaveBatch
  <2>1. UNCHANGED telegram /\ table' = Inserted(crawl.batch)
    BY <1>3 DEF SaveBatch, telegram
  <2>2. crawl.batch \in Batches
    BY DEF IInv, TypeOK
  <2>3. \A m \in DOMAIN crawl.batch : m \in Ids /\ m <= posted /\ crawl.batch[m] <= version[m]
    BY BatchType DEF IInv, Truthful
  <2> QED BY <2>1, <2>2, <2>3, SaveIsFaithful DEF IInv
<1>4. CASE CrawlBegins \/ OtherCrawlBegins \/ FetchNext \/ BatchLost \/ ToggleListening
  BY <1>4 DEF CrawlBegins, OtherCrawlBegins, FetchNext, BatchLost, ToggleListening, telegram,
       Mirror!vars
<1>5. CASE UNCHANGED vars
  BY <1>5 DEF vars, Mirror!vars
<1> QED BY <1>1, <1>2, <1>3, <1>4, <1>5, HandleNewIsFaithful, HandleEditIsFaithful,
        HandleDeleteIsFaithful DEF Next, CrawlStep, ListenerStep

\* However crawls, handlers, wipes and retention interleave, the table holds nothing that
\* the chat did not: Ingest implements MirrorContract, whose every write is of a text that
\* the message has had or a mark on a message that was deleted.
THEOREM TableMirrorsTelegram == Spec => Mirror!Spec
<1>1. Init => Mirror!Init
  BY DEF Init, Ids, Absent, Mirror!Init, Mirror!Ids, Mirror!Absent
<1>2. IInv /\ Truthful /\ [Next]_vars => Truthful'
  BY TruthfulStep
<1>3. Spec => []Truthful
  BY <1>2, TruthfulInit, IngestInvariant, PTL DEF Spec
<1> QED BY <1>1, <1>3, MirrorStep, IngestInvariant, PTL DEF Spec, Mirror!Spec

\* A step of the contract invents nothing: seen through it, the proof needs no crawl,
\* no update and no upset.
LEMMA NothingInventedStep ==
  ASSUME TypeOK, TypeOK', Mirror!NothingInvented, [Mirror!Next]_(Mirror!vars)
  PROVE  Mirror!NothingInvented'
<1>0. /\ table \in [Ids -> Rows \cup {Absent}] /\ posted \in Nat /\ version \in [Ids -> Nat]
      /\ posted' \in Nat /\ version' \in [Ids -> Nat] /\ Mirror!Ids = Ids
  BY IngestAssumption DEF TypeOK, Ids, Mirror!Ids
<1>1. ASSUME NEW m \in Ids
      PROVE  /\ m \in Nat /\ version[m] \in Nat /\ version'[m] \in Nat
             /\ table[m].stored => table[m] \in Rows /\ table[m].text \in Nat
  <2>1. m \in Nat /\ version[m] \in Nat /\ version'[m] \in Nat
    BY <1>0 DEF Ids
  <2>2. table[m].stored => table[m] \in Rows
    BY <1>0 DEF Absent
  <2>3. \A r \in Rows : r.text \in Nat
    BY IngestAssumption DEF Rows
  <2> QED BY <2>1, <2>2, <2>3
<1> SUFFICES ASSUME NEW m \in Ids, table'[m].stored
             PROVE  /\ m <= posted' /\ table'[m].text <= version'[m]
                    /\ table'[m].deleted => m \in removed'
  BY <1>0 DEF Mirror!NothingInvented
<1>2. CASE UNCHANGED table
  <2>1. /\ m <= posted /\ table[m].text <= version[m] /\ (table[m].deleted => m \in removed)
    BY <1>0, <1>2 DEF Mirror!NothingInvented
  <2>2. posted <= posted' /\ version[m] <= version'[m] /\ removed \subseteq removed'
    <3>1. CASE Mirror!Post
      BY <1>0, <1>1, <3>1 DEF Mirror!Post
    <3>2. ASSUME NEW n \in Ids, Mirror!Edit(n)
          PROVE  posted <= posted' /\ version[m] <= version'[m] /\ removed \subseteq removed'
      BY <1>0, <1>1, <3>2 DEF Mirror!Edit
    <3>3. ASSUME NEW n \in Ids, Mirror!Remove(n)
          PROVE  posted <= posted' /\ version[m] <= version'[m] /\ removed \subseteq removed'
      BY <1>0, <1>1, <3>3 DEF Mirror!Remove
    <3>4. CASE UNCHANGED Mirror!vars \/ UNCHANGED telegram
      BY <1>0, <1>1, <3>4 DEF Mirror!vars, telegram
    <3> QED BY <1>0, <3>1, <3>2, <3>3, <3>4
            DEF Mirror!Next, Mirror!Mark, Mirror!Save, Mirror!Drop, Mirror!telegram, telegram
  <2> QED BY <1>0, <1>1, <1>2, <2>1, <2>2
<1>3. ASSUME NEW S \in SUBSET Ids, Mirror!Save(S)
      PROVE  /\ m <= posted' /\ table'[m].text <= version'[m]
             /\ table'[m].deleted => m \in removed'
  <2>1. PICK t \in [S -> 0..MaxVersion] :
          /\ \A n \in S : t[n] <= version[n]
          /\ table' = [n \in Ids |->
               CASE n \notin S -> table[n]
                 [] n \in S /\ table[n].stored -> [table[n] EXCEPT !.text = t[n]]
                 [] OTHER -> Mirror!Row(t[n])]
    BY <1>0, <1>3 DEF Mirror!Save
  <2>2. UNCHANGED <<posted, version, removed>> /\ S \subseteq 1..posted
    BY <1>3 DEF Mirror!Save, Mirror!telegram
  <2>3. CASE m \notin S
    <3>1. table'[m] = table[m]
      BY <2>1, <2>3
    <3> QED BY <1>0, <2>2, <3>1 DEF Mirror!NothingInvented
  <2>4. CASE m \in S /\ table[m].stored
    <3>1. table'[m] = [table[m] EXCEPT !.text = t[m]] /\ table[m] \in Rows
      BY <1>1, <2>1, <2>4
    <3>2. table'[m].text = t[m] /\ table'[m].deleted = table[m].deleted
      BY <3>1 DEF Rows
    <3> QED BY <1>0, <2>1, <2>2, <2>4, <3>2 DEF Mirror!NothingInvented
  <2>5. CASE m \in S /\ ~table[m].stored
    <3>1. table'[m] = Mirror!Row(t[m])
      BY <2>1, <2>5
    <3>2. table'[m].text = t[m] /\ table'[m].deleted = FALSE
      BY <3>1 DEF Mirror!Row
    <3> QED BY <1>0, <2>1, <2>2, <2>5, <3>2
  <2> QED BY <2>3, <2>4, <2>5
<1>4. ASSUME NEW n \in Ids, Mirror!Mark(n)
      PROVE  /\ m <= posted' /\ table'[m].text <= version'[m]
             /\ table'[m].deleted => m \in removed'
  <2>1. UNCHANGED <<posted, version, removed>> /\ n \in removed /\ table[n] \in Rows
    BY <1>1, <1>4 DEF Mirror!Mark, Mirror!telegram
  <2>2. /\ table'[m].stored = table[m].stored /\ table'[m].text = table[m].text
        /\ table'[m].deleted => table[m].deleted \/ m = n
    BY <1>0, <1>4, <2>1 DEF Mirror!Mark, Rows
  <2> QED BY <1>0, <2>1, <2>2 DEF Mirror!NothingInvented
<1>5. ASSUME NEW S \in SUBSET Ids, Mirror!Drop(S)
      PROVE  /\ m <= posted' /\ table'[m].text <= version'[m]
             /\ table'[m].deleted => m \in removed'
  <2>1. table'[m] = table[m] /\ UNCHANGED <<posted, version, removed>>
    BY <1>0, <1>5 DEF Mirror!Drop, Mirror!Absent, Mirror!telegram
  <2> QED BY <1>0, <2>1 DEF Mirror!NothingInvented
<1>6. Mirror!Post \/ (\E n \in Ids : Mirror!Edit(n) \/ Mirror!Remove(n)) \/ UNCHANGED Mirror!vars
        => UNCHANGED table
  BY DEF Mirror!Post, Mirror!Edit, Mirror!Remove, Mirror!vars
<1> QED BY <1>0, <1>2, <1>3, <1>4, <1>5, <1>6 DEF Mirror!Next

\* The table holds no message that was not posted, no text that the message never had,
\* and marks none that was not deleted; it follows from the contract alone.
THEOREM NothingIsInvented == Spec => []Mirror!NothingInvented
<1>1. Mirror!Init => Mirror!NothingInvented
  BY DEF Mirror!Init, Mirror!NothingInvented, Mirror!Absent
<1>2. TypeOK /\ TypeOK' /\ Mirror!NothingInvented /\ [Mirror!Next]_(Mirror!vars)
        => Mirror!NothingInvented'
  BY NothingInventedStep
<1> QED BY <1>1, <1>2, TableMirrorsTelegram, TypeCorrect, PTL DEF Mirror!Spec
=============================================================================
