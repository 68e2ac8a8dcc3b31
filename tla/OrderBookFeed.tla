--------------------------- MODULE OrderBookFeed ---------------------------
(***************************************************************************)
(* How an order book travels from the exchange to the trading plugins.     *)
(*                                                                         *)
(*   gatherer worker  -- XADD -->  stream.<key>            (deltas)        *)
(*                    -- XADD -->  stream.snapshot.<key>   (whole books)   *)
(*   magicbox worker  <-- XREVRANGE / XREAD --  both streams               *)
(*                                                                         *)
(* One key (tenant, exchange, symbol) is modelled: keys share no state.    *)
(* A book is the set of its levels: asks and bids are treated alike by the *)
(* code, an exchange never lists the same level twice, and the ordering of *)
(* the levels is restored by the final sort of the reader.  The reader's   *)
(* copy is a multiset, because the code concatenates arrays.               *)
(*                                                                         *)
(* The XADDs of a worker are issued without awaiting them, on one          *)
(* connection, so Redis executes them in the order in which the books      *)
(* arrived; an XADD that a terminated worker never sent is a book it never *)
(* received.  Handling a book, its XADD and the XTRIM behind it are        *)
(* therefore one step (a trim that comes later, or is lost, keeps an entry *)
(* longer).  A Redis entry id is <milliseconds, sequence>; the millisecond *)
(* clock of Redis ticks on its own.  The 60 s timer of the gatherer is the *)
(* flag snapshotDue.                                                       *)
(*                                                                         *)
(* Left out: the notification of subscribers (a plugin is told of a book   *)
(* only when it is less than 3 s old) and the 29 older cache entries.      *)
(***************************************************************************)
EXTENDS Naturals, FiniteSets, Sequences

CONSTANTS
    Level,              \* the price levels a book may hold
    TrimSize,           \* entries a stream keeps (REDIS_STREAM_TRIM_SIZE)
    MaxBooks,           \* bound: books the exchange delivers
    MaxMs,              \* bound: the clock of Redis
    MaxGathererFaults,  \* bound: restarts of the gatherer worker and writes it lost
    MaxMagicboxStarts   \* bound: restarts of the magicbox worker

ASSUME TrimSizeAssumption == TrimSize \in Nat /\ TrimSize >= 2

VARIABLES
    delivered,      \* the books the exchange delivered, in order (data.nonce is the index)
    orderBookClone, \* gatherer: the last book handled, NoBook before the first
    snapshotDue,    \* gatherer: 60 s have passed since the last snapshot
    ms,             \* the clock of Redis
    deltas,         \* entries of stream.<key>
    snapshots,      \* entries of stream.snapshot.<key>
    phase,          \* magicbox: "loading" before the XREVRANGE, then "listening"
    id,             \* magicbox: the last id, shared by both streams
    batch,          \* magicbox: what is left of the last XREAD reply
    cached,         \* magicbox: the newest order book of the cache
    lostNonce,      \* history: the last book whose write Redis rejected
    gathererFaults, magicboxStarts

gathererVars == <<delivered, orderBookClone, snapshotDue, lostNonce>>
redisVars    == <<deltas, snapshots>>
readerVars   == <<phase, id, batch, cached>>
boundVars    == <<gathererFaults, magicboxStarts>>
vars == <<gathererVars, ms, redisVars, readerVars, boundVars>>

-----------------------------------------------------------------------------
(* Redis stream ids and entries *)

Id == [ms : Nat, seq : Nat]

Before(a, b) == a.ms < b.ms \/ (a.ms = b.ms /\ a.seq < b.seq)

Book == SUBSET Level

Snapshot == [type : {"snapshot"}, id : Id, nonce : Nat, levels : Book]
Delta    == [type : {"deltas"}, id : Id, nonce : Nat, remove : Book, add : Book]
Entry    == Snapshot \cup Delta

CachedBook == [nonce : Nat, copies : [Level -> Nat]]

\* undefined: exchanges number their books from 1.
NoBook   == [nonce |-> 0, levels |-> {}]
NoCached == [nonce |-> 0, copies |-> [l \in Level |-> 0]]

\* An entry of a stream that no entry of it follows.
Newest(stream) == CHOOSE e \in stream : \A f \in stream : ~ Before(e.id, f.id)

\* XADD with the id '*': the clock, or one past the newest id when the clock
\* stands still.
AutoId(stream) ==
    IF stream = {} \/ Newest(stream).id.ms < ms
    THEN [ms |-> ms, seq |-> 0]
    ELSE [ms |-> Newest(stream).id.ms, seq |-> Newest(stream).id.seq + 1]

\* XTRIM MAXLEN: only the TrimSize newest entries stay.
Trim(stream) ==
    {e \in stream : Cardinality({f \in stream : Before(e.id, f.id)}) < TrimSize}

writeToStream(stream, entry) == Trim(stream \cup {entry})

-----------------------------------------------------------------------------
(* The gatherer worker *)

\* Variant: levels that are gone are not reported.
getArrayDiffAddsOnly(old, new) == [remove |-> {}, add |-> new \ old]

getArrayDiff(old, new) == [remove |-> old \ new, add |-> new \ old]

TakesSnapshot == orderBookClone = NoBook \/ snapshotDue

NextNonce == Len(delivered) + 1

\* A book arrives from the exchange and is remembered, whatever becomes of it.
Receive(book) ==
    /\ NextNonce <= MaxBooks
    /\ delivered' = Append(delivered, book)
    /\ orderBookClone' = [nonce |-> NextNonce, levels |-> book]
    /\ snapshotDue' = FALSE

\* A snapshot when the book is the first one or a snapshot is due, otherwise what
\* changed since the previous book, if anything did.
HandleOrderBook(book) ==
    LET diff == getArrayDiff(orderBookClone.levels, book)
    IN  /\ Receive(book)
        /\ \/ /\ TakesSnapshot
              /\ snapshots' = writeToStream(snapshots,
                    [type |-> "snapshot", id |-> AutoId(snapshots),
                     nonce |-> NextNonce, levels |-> book])
              /\ UNCHANGED deltas
           \/ /\ ~ TakesSnapshot
              /\ deltas' = IF diff.remove \cup diff.add = {} THEN deltas
                           ELSE writeToStream(deltas,
                                  [type |-> "deltas", id |-> AutoId(deltas), nonce |-> NextNonce,
                                   remove |-> diff.remove, add |-> diff.add])
              /\ UNCHANGED snapshots
        /\ UNCHANGED <<lostNonce, ms, readerVars, boundVars>>

\* The connection fails and Redis never gets the XADD.  Nothing waits for its
\* result: the next delta starts from the book that was not written.
LoseWrite(book) ==
    /\ gathererFaults < MaxGathererFaults
    /\ gathererFaults' = gathererFaults + 1
    /\ Receive(book)
    /\ TakesSnapshot \/ orderBookClone.levels # book
    /\ lostNonce' = NextNonce
    /\ UNCHANGED <<ms, redisVars, readerVars, magicboxStarts>>

\* ORDER_BOOK_SNAPSHOT_FREQ_MS passes since the last snapshot.
SnapshotTimer ==
    /\ orderBookClone # NoBook
    /\ snapshotDue' = TRUE
    /\ UNCHANGED <<delivered, orderBookClone, lostNonce, ms, redisVars, readerVars, boundVars>>

\* The configuration changed, or the process died: a fresh worker, which has no
\* previous book.
RestartGatherer ==
    /\ gathererFaults < MaxGathererFaults
    /\ gathererFaults' = gathererFaults + 1
    /\ orderBookClone' = NoBook
    /\ snapshotDue' = FALSE
    /\ UNCHANGED <<delivered, lostNonce, ms, redisVars, readerVars, magicboxStarts>>

Tick ==
    /\ ms < MaxMs
    /\ ms' = ms + 1
    /\ UNCHANGED <<gathererVars, redisVars, readerVars, boundVars>>

-----------------------------------------------------------------------------
(* The order-book reader of a magicbox worker *)

FromSnapshot(m) ==
    [nonce |-> m.nonce, copies |-> [l \in Level |-> IF l \in m.levels THEN 1 ELSE 0]]

\* Variant: one copy of a removed level goes.
ApplyDeltaPullsOne(book, m) ==
    [nonce  |-> m.nonce,
     copies |-> [l \in Level |-> book.copies[l] + (IF l \in m.add THEN 1 ELSE 0)
                                               - (IF l \in m.remove THEN 1 ELSE 0)]]

\* Variant: removed levels stay.
ApplyDeltaKeepsRemoved(book, m) ==
    [nonce  |-> m.nonce,
     copies |-> [l \in Level |-> IF l \in m.add THEN 1 ELSE book.copies[l]]]

\* pullAllWith drops every copy of a removed level, concat adds one copy of an
\* added level whether or not the book already has it.
ApplyDelta(book, m) ==
    [nonce  |-> m.nonce,
     copies |-> [l \in Level |-> (IF l \in m.remove THEN 0 ELSE book.copies[l])
                                + (IF l \in m.add THEN 1 ELSE 0)]]

\* A delta that finds no cached book is dropped.
HandleOrderBookMessage(m) ==
    \/ m.type = "snapshot" /\ cached' = FromSnapshot(m)
    \/ m.type = "deltas" /\ cached = NoCached /\ UNCHANGED cached
    \/ m.type = "deltas" /\ cached # NoCached /\ cached' = ApplyDelta(cached, m)

\* XREVRANGE of the snapshot stream; listening starts at <timestamp + 1>-0.
LoadSnapshot ==
    /\ phase = "loading"
    /\ phase' = "listening"
    /\ IF snapshots = {}
       THEN UNCHANGED <<cached, id>>
       ELSE /\ HandleOrderBookMessage(Newest(snapshots))
            /\ id' = [ms |-> Newest(snapshots).id.ms + 1, seq |-> 0]
    /\ UNCHANGED <<gathererVars, ms, redisVars, batch, boundVars>>

\* Variant: only the delta stream is read.
UnreadDeltasOnly == {e \in deltas : Before(id, e.id)}

\* What XREAD answers: in each stream, the entries after the one shared id.
Unread == {e \in deltas \cup snapshots : Before(id, e.id)}

XRead ==
    /\ phase = "listening"
    /\ batch = {}
    /\ Unread # {}
    /\ batch' = Unread
    /\ UNCHANGED <<gathererVars, ms, redisVars, phase, id, cached, boundVars>>

\* The reply lists the delta stream first, each stream by id.
Precedes(m, n) ==
    \/ m.type = "deltas" /\ n.type = "snapshot"
    \/ m.type = n.type /\ Before(m.id, n.id)

\* Variant: the id never moves back.
HandleNextForwardOnly ==
    \E m \in batch :
        /\ \A n \in batch : ~ Precedes(n, m)
        /\ HandleOrderBookMessage(m)
        /\ id' = IF Before(id, m.id) THEN m.id ELSE id
        /\ batch' = batch \ {m}
        /\ UNCHANGED <<gathererVars, ms, redisVars, phase, boundVars>>

\* The id follows each message, back to an older one when a snapshot comes after
\* younger deltas; the deltas behind the snapshot are then delivered again.
HandleNext ==
    \E m \in batch :
        /\ \A n \in batch : ~ Precedes(n, m)
        /\ HandleOrderBookMessage(m)
        /\ id' = m.id
        /\ batch' = batch \ {m}
        /\ UNCHANGED <<gathererVars, ms, redisVars, phase, boundVars>>

\* A fresh worker: empty cache, nothing read.
RestartMagicbox ==
    /\ magicboxStarts < MaxMagicboxStarts
    /\ magicboxStarts' = magicboxStarts + 1
    /\ phase' = "loading"
    /\ id' = [ms |-> 0, seq |-> 0]
    /\ batch' = {}
    /\ cached' = NoCached
    /\ UNCHANGED <<gathererVars, ms, redisVars, gathererFaults>>

-----------------------------------------------------------------------------
Init ==
    /\ delivered = <<>>
    /\ orderBookClone = NoBook
    /\ snapshotDue = FALSE
    /\ lostNonce = 0
    /\ ms = 1
    /\ deltas = {}
    /\ snapshots = {}
    /\ phase = "loading"
    /\ id = [ms |-> 0, seq |-> 0]
    /\ batch = {}
    /\ cached = NoCached
    /\ gathererFaults = 0
    /\ magicboxStarts = 0

Reader == LoadSnapshot \/ XRead \/ HandleNext

Next ==
    \/ \E book \in Book : HandleOrderBook(book) \/ LoseWrite(book)
    \/ SnapshotTimer
    \/ RestartGatherer
    \/ Tick
    \/ Reader
    \/ RestartMagicbox

Spec == Init /\ [][Next]_vars

\* The reader's loop runs as long as the worker does; nothing makes the exchange
\* deliver a book or a process restart.
FairSpec == Spec /\ WF_vars(Reader)

-----------------------------------------------------------------------------
(* Properties *)

TypeOK ==
    /\ delivered \in Seq(Book)
    /\ orderBookClone \in [nonce : Nat, levels : Book]
    /\ snapshotDue \in BOOLEAN
    /\ lostNonce \in Nat
    /\ ms \in Nat
    /\ deltas \subseteq Delta
    /\ snapshots \subseteq Snapshot
    /\ phase \in {"loading", "listening"}
    /\ id \in Id
    /\ batch \subseteq Entry
    /\ cached \in CachedBook
    /\ gathererFaults \in Nat
    /\ magicboxStarts \in Nat

Published == deltas \cup snapshots

NewestNonce == (CHOOSE e \in Published : \A f \in Published : f.nonce <= e.nonce).nonce

\* The deltas behind the newest snapshot, none of which was trimmed or lost.
Since == {e \in deltas : e.nonce > Newest(snapshots).nonce}
Unbroken ==
    /\ snapshots # {}
    /\ Cardinality(Since) < TrimSize
    /\ lostNonce < Newest(snapshots).nonce

\* The newest snapshot came in a later millisecond than everything before it
\* (two milliseconds later than another snapshot), and no delta came in its
\* millisecond or with the id <ms + 1>-0.
Spaced ==
    LET s == Newest(snapshots)
    IN  /\ \A e \in deltas \ Since : Before(e.id, s.id)
        /\ \A e \in snapshots \ {s} : Before([ms |-> e.id.ms + 1, seq |-> 0], s.id)
        /\ \A e \in Since : Before([ms |-> s.id.ms + 1, seq |-> 0], e.id)

Healed == Unbroken /\ Spaced

AtRest == phase = "listening" /\ batch = {} /\ Unread = {}

\* The cached book holds the levels of the book it is numbered as, each once.
Genuine ==
    /\ cached.nonce \in 1..Len(delivered)
    /\ cached.copies = [l \in Level |-> IF l \in delivered[cached.nonce] THEN 1 ELSE 0]

Current == Genuine /\ cached.nonce = NewestNonce

\* Whatever a reader missed before (entries that shared a millisecond, trimmed or
\* lost entries, its own restarts and the gatherer's), once a snapshot and the deltas
\* behind it are spaced and retained, a reader with nothing left to read holds
\* exactly the book the gatherer published last: no level missing, none twice.
CaughtUpIsCurrent == AtRest /\ Healed => Current

\* A batch lists its deltas before its snapshots, so deltas are applied to books
\* they do not belong to.  A book spoilt that way, or by an earlier loss, is
\* always about to be replaced: a snapshot is in the batch or unread.
SpoiltOnlyBeforeSnapshot ==
    phase = "listening" /\ Healed /\ ~ Genuine =>
        \E e \in batch \cup Unread : e.type = "snapshot"

\* The book the streams describe: the newest snapshot with the deltas behind it.
DescribedBook ==
    {l \in Level :
        \E e \in Since \cup {Newest(snapshots)} :
            /\ l \in IF e.type = "snapshot" THEN e.levels ELSE e.add
            /\ \A f \in Since : f.nonce > e.nonce => l \notin f.remove}

\* Snapshots and deltas fit together across restarts of the gatherer: as long as
\* no delta behind the newest snapshot was trimmed or lost, the two streams describe the
\* very book the gatherer handled last.
StreamsDescribeTheBook ==
    orderBookClone # NoBook /\ Unbroken => DescribedBook = orderBookClone.levels

\* README.md:52, the snapshot topic "contains the entire state, for when a
\* service restarts": with nothing trimmed or lost, a reader that restarted from the
\* snapshot and read to the end holds the published book.
RestartLoadsEntireState ==
    AtRest /\ Unbroken /\ magicboxStarts > 0 => Current

\* The reader catches up: from some point on its book is the published one
\* whenever the streams are healed.
EventuallyCurrent == <>[](Healed => Current)
=============================================================================
