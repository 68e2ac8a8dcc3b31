------------------------ MODULE OrderBookFeed_proofs ------------------------
(***************************************************************************)
(* Proofs about OrderBookFeed for every set of levels, every trim size of  *)
(* at least two and every bound.                                           *)
(*                                                                         *)
(* IdInv: the ids XADD generates are well defined.  StreamInv: ids and     *)
(* numbers order a stream alike, trimming drops no more than it must, and  *)
(* entries are made from the books of their numbers, so that the streams   *)
(* describe the last book.  ReaderInv: a reader of healed streams either   *)
(* still waits for the newest snapshot, or follows from it.                *)
(***************************************************************************)
EXTENDS OrderBookFeed, FiniteSetTheorems, WellFoundedInduction, TLAPS

\* A stream with entries has a newest one.  This is what makes Newest, and with
\* it the ids that XADD generates, well defined.
HasNewest(stream) ==
    stream # {} => \E e \in stream : \A f \in stream : ~ Before(e.id, f.id)

IdInv == TypeOK /\ HasNewest(deltas) /\ HasNewest(snapshots)

-----------------------------------------------------------------------------
(* Streams *)

\* The newest entry of a stream is one of its entries, and none follows it.
LEMMA NewestIsEntry ==
    ASSUME NEW stream, stream # {}, HasNewest(stream)
    PROVE  /\ Newest(stream) \in stream
           /\ \A f \in stream : ~ Before(Newest(stream).id, f.id)
  BY DEF HasNewest, Newest

\* A generated id follows every id of the stream.
LEMMA AutoIdIsNewer ==
    ASSUME NEW stream, stream \subseteq Entry, HasNewest(stream), ms \in Nat
    PROVE  /\ AutoId(stream) \in Id
           /\ \A e \in stream : Before(e.id, AutoId(stream))
  <1>1. CASE stream = {}
    BY <1>1 DEF AutoId, Id
  <1>2. CASE stream # {}
    <2>1. PICK n \in stream : n = Newest(stream) /\ \A f \in stream : ~ Before(n.id, f.id)
      BY <1>2, NewestIsEntry
    <2>2. n.id \in Id /\ \A e \in stream : e.id \in Id
      BY DEF Entry, Snapshot, Delta
    <2>3. CASE n.id.ms < ms
      <3>1. AutoId(stream) = [ms |-> ms, seq |-> 0]
        BY <2>1, <2>3 DEF AutoId
      <3> QED
        BY <2>1, <2>2, <2>3, <3>1 DEF Before, Id
    <2>4. CASE ~ (n.id.ms < ms)
      <3>1. AutoId(stream) = [ms |-> n.id.ms, seq |-> n.id.seq + 1]
        BY <1>2, <2>1, <2>4 DEF AutoId
      <3> QED
        BY <2>1, <2>2, <3>1 DEF Before, Id
    <2> QED
      BY <2>3, <2>4
  <1> QED
    BY <1>1, <1>2

\* Adding an entry that follows all others and trimming keeps a newest entry:
\* the added one.
LEMMA WriteKeepsNewest ==
    ASSUME NEW stream, stream \subseteq Entry, NEW entry \in Entry,
           \A e \in stream : Before(e.id, entry.id)
    PROVE  /\ writeToStream(stream, entry) \subseteq stream \cup {entry}
           /\ entry \in writeToStream(stream, entry)
           /\ HasNewest(writeToStream(stream, entry))
  <1>1. \A e \in stream \cup {entry} : e.id \in Id
    BY DEF Entry, Snapshot, Delta
  <1>2. \A e \in stream \cup {entry} : ~ Before(entry.id, e.id)
    BY <1>1 DEF Before, Id
  <1>3. {f \in stream \cup {entry} : Before(entry.id, f.id)} = {}
    BY <1>2
  <1>4. Cardinality({f \in stream \cup {entry} : Before(entry.id, f.id)}) < TrimSize
    BY <1>3, FS_EmptySet, TrimSizeAssumption
  <1>5. entry \in writeToStream(stream, entry)
    BY <1>4 DEF writeToStream, Trim
  <1>6. writeToStream(stream, entry) \subseteq stream \cup {entry}
    BY DEF writeToStream, Trim
  <1> QED
    BY <1>2, <1>5, <1>6 DEF HasNewest

-----------------------------------------------------------------------------
(* The reader *)

\* Handling a message leaves a well-formed book in the cache.
LEMMA HandlingKeepsType ==
    ASSUME NEW m \in Entry, cached \in CachedBook, HandleOrderBookMessage(m)
    PROVE  cached' \in CachedBook
  <1>1. CASE m.type = "snapshot"
    <2>1. m.nonce \in Nat
      BY DEF Entry, Snapshot, Delta
    <2>2. cached' = FromSnapshot(m)
      BY <1>1 DEF HandleOrderBookMessage
    <2> QED
      BY <2>1, <2>2 DEF FromSnapshot, CachedBook
  <1>2. CASE m.type = "deltas" /\ cached = NoCached
    BY <1>2 DEF HandleOrderBookMessage
  <1>3. CASE m.type = "deltas" /\ cached # NoCached
    <2>1. m.nonce \in Nat
      BY DEF Entry, Snapshot, Delta
    <2>2. cached' = ApplyDelta(cached, m)
      BY <1>3 DEF HandleOrderBookMessage
    <2>3. \A l \in Level : (IF l \in m.remove THEN 0 ELSE cached.copies[l])
                            + (IF l \in m.add THEN 1 ELSE 0) \in Nat
      BY DEF CachedBook
    <2> QED
      BY <2>1, <2>2, <2>3 DEF ApplyDelta, CachedBook
  <1> QED
    BY <1>1, <1>2, <1>3 DEF Entry, Snapshot, Delta

-----------------------------------------------------------------------------
(* Type correctness *)

LEMMA InitIdInv == Init => IdInv
  <1> SUFFICES ASSUME Init
               PROVE  IdInv
    OBVIOUS
  <1>1. cached \in CachedBook /\ orderBookClone \in [nonce : Nat, levels : Book]
    BY DEF Init, NoBook, NoCached, CachedBook, Book
  <1>2. snapshotDue \in BOOLEAN
    BY DEF Init
  <1>3. phase \in {"loading", "listening"} /\ delivered \in Seq(Book)
    BY DEF Init
  <1>4. id \in Id /\ ms \in Nat /\ gathererFaults \in Nat /\ magicboxStarts \in Nat
    BY DEF Init, Id
  <1> QED
    BY <1>1, <1>2, <1>3, <1>4 DEF Init, IdInv, TypeOK, HasNewest

\* A book is received with the next number.
LEMMA ReceiveType ==
    ASSUME TypeOK, NEW book \in Book, Receive(book)
    PROVE  /\ NextNonce \in Nat
           /\ delivered' \in Seq(Book)
           /\ orderBookClone' \in [nonce : Nat, levels : Book]
           /\ snapshotDue' = FALSE
  BY DEF Receive, NextNonce, TypeOK

\* Every step keeps the types, and keeps a newest entry in each stream.
LEMMA NextIdInv == IdInv /\ [Next]_vars => IdInv'
  <1> SUFFICES ASSUME IdInv, [Next]_vars
               PROVE  IdInv'
    OBVIOUS
  <1> USE DEF IdInv
  <1>1. ASSUME NEW book \in Book, HandleOrderBook(book)
        PROVE  IdInv'
    <2> DEFINE diff  == getArrayDiff(orderBookClone.levels, book)
               snap  == [type |-> "snapshot", id |-> AutoId(snapshots),
                         nonce |-> NextNonce, levels |-> book]
               delta == [type |-> "deltas", id |-> AutoId(deltas), nonce |-> NextNonce,
                         remove |-> diff.remove, add |-> diff.add]
    <2>1. /\ NextNonce \in Nat
          /\ delivered' \in Seq(Book)
          /\ orderBookClone' \in [nonce : Nat, levels : Book]
          /\ snapshotDue' = FALSE
          /\ diff.remove \in Book /\ diff.add \in Book
      BY <1>1, ReceiveType DEF HandleOrderBook, TypeOK, getArrayDiff, Book
    <2>2. UNCHANGED <<lostNonce, ms, phase, id, batch, cached, gathererFaults, magicboxStarts>>
      BY <1>1 DEF HandleOrderBook, readerVars, boundVars
    <2>3. CASE /\ snapshots' = writeToStream(snapshots, snap)
               /\ UNCHANGED deltas
      <3>1. /\ AutoId(snapshots) \in Id
            /\ \A e \in snapshots : Before(e.id, AutoId(snapshots))
        BY AutoIdIsNewer DEF TypeOK, Entry
      <3>2. snap \in Snapshot /\ snapshots \subseteq Snapshot
        BY <2>1, <3>1 DEF Snapshot, TypeOK
      <3>3. /\ snapshots' \subseteq snapshots \cup {snap}
            /\ HasNewest(snapshots')
        <4>1. /\ snap \in Entry /\ snapshots \subseteq Entry
              /\ \A e \in snapshots : Before(e.id, snap.id)
          BY <3>1, <3>2 DEF Entry
        <4> HIDE DEF snap
        <4> QED
          BY <2>3, <4>1, WriteKeepsNewest
      <3>4. HasNewest(snapshots)' /\ HasNewest(deltas)'
        BY <2>3, <3>3 DEF HasNewest
      <3> QED
        BY <2>1, <2>2, <2>3, <3>2, <3>3, <3>4 DEF TypeOK
    <2>4. CASE UNCHANGED <<deltas, snapshots>>
      BY <2>1, <2>2, <2>4 DEF TypeOK, HasNewest
    <2>5. CASE /\ deltas' = writeToStream(deltas, delta)
               /\ UNCHANGED snapshots
      <3>1. /\ AutoId(deltas) \in Id
            /\ \A e \in deltas : Before(e.id, AutoId(deltas))
        BY AutoIdIsNewer DEF TypeOK, Entry
      <3>2. delta \in Delta /\ deltas \subseteq Delta
        BY <2>1, <3>1 DEF Delta, TypeOK
      <3>3. /\ deltas' \subseteq deltas \cup {delta}
            /\ HasNewest(deltas')
        <4>1. /\ delta \in Entry /\ deltas \subseteq Entry
              /\ \A e \in deltas : Before(e.id, delta.id)
          BY <3>1, <3>2 DEF Entry
        <4> HIDE DEF delta
        <4> QED
          BY <2>5, <4>1, WriteKeepsNewest
      <3>4. HasNewest(snapshots)' /\ HasNewest(deltas)'
        BY <2>5, <3>3 DEF HasNewest
      <3> QED
        BY <2>1, <2>2, <2>5, <3>2, <3>3, <3>4 DEF TypeOK
    <2> QED
      BY <1>1, <2>3, <2>4, <2>5 DEF HandleOrderBook
  <1>2. CASE SnapshotTimer
    <2>1. snapshotDue' \in BOOLEAN
      BY <1>2 DEF SnapshotTimer
    <2> QED
      BY <1>2, <2>1 DEF SnapshotTimer, TypeOK, HasNewest, redisVars, readerVars, boundVars
  <1>3. ASSUME NEW book \in Book, LoseWrite(book)
        PROVE  IdInv'
    <2>1. /\ NextNonce \in Nat
          /\ delivered' \in Seq(Book)
          /\ orderBookClone' \in [nonce : Nat, levels : Book]
          /\ snapshotDue' = FALSE
      BY <1>3, ReceiveType DEF LoseWrite
    <2>2. gathererFaults' \in Nat
      BY <1>3 DEF LoseWrite, TypeOK
    <2> QED
      BY <1>3, <2>1, <2>2 DEF LoseWrite, TypeOK, HasNewest, redisVars, readerVars
  <1>4. CASE Tick
    BY <1>4 DEF Tick, TypeOK, HasNewest, gathererVars, redisVars, readerVars, boundVars
  <1>5. CASE RestartGatherer
    <2>1. orderBookClone' \in [nonce : Nat, levels : Book]
      BY <1>5 DEF RestartGatherer, NoBook, Book
    <2>2. snapshotDue' \in BOOLEAN
      BY <1>5 DEF RestartGatherer
    <2> QED
      BY <1>5, <2>1, <2>2 DEF RestartGatherer, TypeOK, HasNewest, redisVars, readerVars
  <1>6. CASE LoadSnapshot
    <2>1. UNCHANGED <<delivered, orderBookClone, snapshotDue, lostNonce, ms, deltas, snapshots, batch,
                      gathererFaults, magicboxStarts>>
      BY <1>6 DEF LoadSnapshot, gathererVars, redisVars, boundVars
    <2>2. CASE snapshots = {}
      BY <1>6, <2>1, <2>2 DEF LoadSnapshot, TypeOK, HasNewest
    <2>3. CASE snapshots # {}
      <3>1. Newest(snapshots) \in Entry
        BY <2>3, NewestIsEntry DEF TypeOK, Entry
      <3>2. cached' \in CachedBook
        BY <1>6, <2>3, <3>1, HandlingKeepsType DEF LoadSnapshot, TypeOK
      <3>3. id' \in Id
        BY <1>6, <2>3, <3>1 DEF LoadSnapshot, Id, Entry, Snapshot, Delta
      <3> QED
        BY <1>6, <2>1, <3>2, <3>3 DEF LoadSnapshot, TypeOK, HasNewest
    <2> QED
      BY <2>2, <2>3
  <1>7. CASE XRead
    BY <1>7 DEF XRead, Unread, TypeOK, HasNewest, Entry, gathererVars, redisVars, boundVars
  <1>8. CASE HandleNext
    <2>1. PICK m \in batch : HandleOrderBookMessage(m) /\ id' = m.id /\ batch' = batch \ {m}
      BY <1>8 DEF HandleNext
    <2>2. UNCHANGED <<delivered, orderBookClone, snapshotDue, lostNonce, ms, deltas, snapshots, phase,
                      gathererFaults, magicboxStarts>>
      BY <1>8 DEF HandleNext, gathererVars, redisVars, boundVars
    <2>3. m \in Entry /\ m.id \in Id
      BY DEF TypeOK, Entry, Snapshot, Delta
    <2>4. cached' \in CachedBook
      BY <2>1, <2>3, HandlingKeepsType DEF TypeOK
    <2> QED
      BY <2>1, <2>2, <2>3, <2>4 DEF TypeOK, HasNewest
  <1>9. CASE RestartMagicbox
    BY <1>9 DEF RestartMagicbox, TypeOK, HasNewest, NoCached, CachedBook, Id,
                gathererVars, redisVars
  <1>10. CASE UNCHANGED vars
    BY <1>10 DEF vars, TypeOK, HasNewest, gathererVars, redisVars, readerVars, boundVars
  <1> QED
    BY <1>1, <1>2, <1>3, <1>4, <1>5, <1>6, <1>7, <1>8, <1>9, <1>10 DEF Next, Reader

\* The variables keep their types in every behaviour: the ids Redis generates are
\* well defined, and the copies of a level that the reader counts never go below
\* zero however often deltas are lost or repeated.
THEOREM TypeCorrect == Spec => []TypeOK
  <1>1. IdInv => TypeOK
    BY DEF IdInv
  <1> QED
    BY InitIdInv, NextIdInv, <1>1, PTL DEF Spec

-----------------------------------------------------------------------------
(* What the streams hold: the numbers of their entries, and the books these *)
(* were made from.                                                          *)

LEMMA IdOrder ==
    \A a, b, c \in Id :
        /\ ~ Before(a, a)
        /\ Before(a, b) => ~ Before(b, a)
        /\ Before(a, b) /\ Before(b, c) => Before(a, c)
        /\ ~ Before(b, a) /\ Before(b, c) => Before(a, c)
        /\ Before(a, b) \/ Before(b, a) \/ a = b
  BY DEF Before, Id

\* Ids and numbers order a stream alike.
Ordered(stream) ==
    \A e, f \in stream :
        /\ Before(e.id, f.id) <=> e.nonce < f.nonce
        /\ e.nonce = f.nonce => e = f

Bounded(stream) == IsFiniteSet(stream) /\ Cardinality(stream) <= TrimSize

Numbered ==
    /\ ms > 0
    /\ \A e \in Published : e.nonce \in 1..Len(delivered) /\ e.id.ms > 0
    /\ Ordered(deltas) /\ Ordered(snapshots)
    /\ Bounded(deltas) /\ Bounded(snapshots)
    /\ lostNonce <= Len(delivered)

\* The previous book the gatherer knows is the last one delivered, a snapshot is the
\* book of its number, and a delta is what changed from the book before to its own.
Contents ==
    /\ orderBookClone # NoBook =>
          /\ orderBookClone.nonce = Len(delivered) /\ Len(delivered) > 0
          /\ orderBookClone.levels = delivered[Len(delivered)]
    /\ \A s \in snapshots : s.levels = delivered[s.nonce]
    /\ \A d \in deltas :
          /\ d.nonce > 1
          /\ d.remove = delivered[d.nonce - 1] \ delivered[d.nonce]
          /\ d.add = delivered[d.nonce] \ delivered[d.nonce - 1]

\* Behind the newest snapshot, books without a delta between them are the same.
Quiet(i, j) == \A d \in Since : ~ (i < d.nonce /\ d.nonce <= j)

Chained ==
    Unbroken =>
        \A i, j \in Newest(snapshots).nonce..Len(delivered) :
            i <= j /\ Quiet(i, j) => delivered[i] = delivered[j]

StreamInv == IdInv /\ Numbered /\ Contents /\ Chained

\* The entry all others are before is the newest.
LEMMA NewestIs ==
    ASSUME NEW stream, stream \subseteq Entry, NEW n \in stream,
           \A f \in stream \ {n} : Before(f.id, n.id)
    PROVE  Newest(stream) = n
  <1>1. \A f \in stream : f.id \in Id
    BY DEF Entry, Snapshot, Delta
  <1>2. \A f \in stream : ~ Before(n.id, f.id)
    BY <1>1, IdOrder
  <1>3. \A m \in stream : (\A f \in stream : ~ Before(m.id, f.id)) => m = n
    OBVIOUS
  <1> QED
    BY <1>2, <1>3 DEF Newest

\* All entries of an ordered stream but the newest are before it.
LEMMA BeforeNewest ==
    ASSUME NEW stream, stream \subseteq Entry, stream # {}, HasNewest(stream), Ordered(stream),
           NEW e \in stream
    PROVE  e = Newest(stream) \/ Before(e.id, Newest(stream).id)
  <1>1. Newest(stream) \in stream /\ ~ Before(Newest(stream).id, e.id)
    BY NewestIsEntry
  <1>2. e.nonce \in Nat /\ Newest(stream).nonce \in Nat
    BY <1>1 DEF Entry, Snapshot, Delta
  <1> QED
    BY <1>1, <1>2 DEF Ordered

\* What XTRIM drops lies before everything it keeps, and it drops no more than it must.
LEMMA WriteTrims ==
    ASSUME NEW stream, stream \subseteq Entry, Bounded(stream), Ordered(stream),
           NEW entry \in Entry, \A e \in stream : Before(e.id, entry.id) /\ e.nonce < entry.nonce
    PROVE  /\ Ordered(writeToStream(stream, entry))
           /\ Bounded(writeToStream(stream, entry))
           /\ Newest(writeToStream(stream, entry)) = entry
           /\ \A e \in stream \ writeToStream(stream, entry) :
                 /\ Cardinality(writeToStream(stream, entry)) = TrimSize
                 /\ \A f \in writeToStream(stream, entry) : Before(e.id, f.id)
  <1> DEFINE all == stream \cup {entry}
             kept == writeToStream(stream, entry)
             After(e) == {f \in all : Before(e.id, f.id)}
  <1>1. /\ \A e \in all : e.id \in Id /\ e.nonce \in Nat
        /\ TrimSize \in Nat
    BY TrimSizeAssumption DEF Entry, Snapshot, Delta
  <1>2. /\ kept \subseteq all /\ entry \in kept
        /\ kept = {e \in all : Cardinality(After(e)) < TrimSize}
    BY WriteKeepsNewest DEF writeToStream, Trim
  <1>3. Ordered(all)
    <2>1. ~ Before(entry.id, entry.id) /\ \A e \in stream : ~ Before(entry.id, e.id)
      BY <1>1, IdOrder
    <2> QED
      BY <1>1, <2>1 DEF Ordered
  <1>4. entry \notin stream
    BY <1>1
  <1>5. IsFiniteSet(all) /\ Cardinality(all) = Cardinality(stream) + 1 /\ Cardinality(stream) \in Nat
    BY <1>4, FS_AddElement, FS_CardinalityType DEF Bounded
  <1>6. Cardinality(all) \in Nat /\ Cardinality(all) <= TrimSize + 1
    BY <1>1, <1>5 DEF Bounded
  <1>7. Newest(kept) = entry
    <2>1. all \subseteq Entry /\ \A f \in all \ {entry} : Before(f.id, entry.id)
      OBVIOUS
    <2> HIDE DEF all, kept
    <2>2. \A f \in kept \ {entry} : Before(f.id, entry.id)
      BY <1>2, <2>1
    <2> QED
      BY <1>2, <2>1, <2>2, NewestIs
  <1>8. Ordered(kept)
    BY <1>2, <1>3 DEF Ordered
  <1>9. ASSUME NEW e \in all \ kept
        PROVE  /\ \A f \in all \ {e} : Before(e.id, f.id)
               /\ kept = all \ {e} /\ Cardinality(kept) = TrimSize
    <2>1. IsFiniteSet(all \ {e}) /\ Cardinality(all \ {e}) = Cardinality(all) - 1
      BY <1>5, FS_RemoveElement
    <2>2. After(e) \subseteq all \ {e}
      BY <1>1, IdOrder
    <2>3. Cardinality(After(e)) <= Cardinality(all \ {e}) /\ Cardinality(After(e)) \in Nat
      BY <2>1, <2>2, FS_Subset, FS_CardinalityType
    <2>4. ~ (Cardinality(After(e)) < TrimSize)
      BY <1>2
    <2>5. Cardinality(After(e)) = Cardinality(all \ {e}) /\ Cardinality(all \ {e}) = TrimSize
      BY <1>1, <1>6, <2>1, <2>3, <2>4
    <2>6. After(e) = all \ {e}
      BY <2>1, <2>2, <2>5, FS_Subset
    <2>7. \A f \in all \ {e} : Before(e.id, f.id)
      BY <2>6
    <2>8. \A f \in all \ {e} : f \in kept
      <3> SUFFICES ASSUME NEW f \in all \ {e}, f \notin kept
                   PROVE  FALSE
        OBVIOUS
      <3>1. IsFiniteSet(all \ {f}) /\ Cardinality(all \ {f}) = Cardinality(all) - 1
        BY <1>5, FS_RemoveElement
      <3>2. After(f) \subseteq (all \ {f}) \ {e}
        BY <1>1, <2>7, IdOrder
      <3>3. IsFiniteSet((all \ {f}) \ {e}) /\ Cardinality((all \ {f}) \ {e}) = Cardinality(all \ {f}) - 1
        BY <3>1, FS_RemoveElement
      <3>4. Cardinality(After(f)) <= Cardinality((all \ {f}) \ {e}) /\ Cardinality(After(f)) \in Nat
        BY <3>2, <3>3, FS_Subset, FS_CardinalityType
      <3>5. ~ (Cardinality(After(f)) < TrimSize)
        BY <1>2
      <3> QED
        BY <1>1, <1>6, <3>1, <3>3, <3>4, <3>5
    <2>9. kept = all \ {e}
      BY <1>2, <2>8
    <2> QED
      BY <2>5, <2>7, <2>9
  <1>10. \A e \in stream \ kept : Cardinality(kept) = TrimSize /\ \A f \in kept : Before(e.id, f.id)
    <2> SUFFICES ASSUME NEW e \in stream \ kept
                 PROVE  Cardinality(kept) = TrimSize /\ \A f \in kept : Before(e.id, f.id)
      OBVIOUS
    <2>1. e \in all \ kept
      OBVIOUS
    <2> HIDE DEF kept, all
    <2> QED
      BY <1>9, <2>1
  <1>11. Bounded(kept)
    <2>1. CASE \E e \in all : e \notin kept
      BY <1>1, <1>2, <1>5, <1>9, <2>1, FS_Subset DEF Bounded
    <2>2. CASE kept = all
      <3>1. SUFFICES Cardinality(all) <= TrimSize
        BY <1>5, <2>2 DEF Bounded
      <3>2. PICK e \in all : \A f \in all \ {e} : Before(e.id, f.id)
        <4>1. PICK n \in {e.nonce : e \in all} : \A k \in {e.nonce : e \in all} : n <= k
          <5> DEFINE N == {e.nonce : e \in all}
          <5>1. N # {} /\ N \subseteq Nat
            BY <1>1
          <5>2. PICK n \in N : \A k \in N : <<k, n>> \notin OpToRel(<, Nat)
            BY <5>1, WFMin, NatLessThanWellFounded
          <5>3. ASSUME NEW k \in N PROVE n <= k
            <6>1. ~ (k < n)
              BY <5>1, <5>2 DEF OpToRel
            <6> QED
              BY <5>1, <6>1
          <5> QED
            BY <5>3
        <4>2. PICK e \in all : e.nonce = n
          OBVIOUS
        <4>3. \A f \in all \ {e} : e.nonce < f.nonce
          BY <1>1, <1>3, <4>1, <4>2 DEF Ordered
        <4> QED
          BY <1>3, <4>3 DEF Ordered
      <3>3. After(e) = all \ {e}
        BY <1>1, <3>2, IdOrder
      <3>4. Cardinality(After(e)) = Cardinality(all) - 1
        BY <1>5, <3>3, FS_RemoveElement
      <3>5. Cardinality(After(e)) < TrimSize
        BY <1>2, <2>2
      <3> QED
        BY <1>1, <1>6, <3>4, <3>5
    <2> QED
      BY <1>2, <2>1, <2>2
  <1> QED
    BY <1>7, <1>8, <1>10, <1>11

-----------------------------------------------------------------------------
(* The steps of the gatherer *)

SnapshotOf(book) ==
    [type |-> "snapshot", id |-> AutoId(snapshots), nonce |-> NextNonce, levels |-> book]

DeltaOf(book) ==
    [type |-> "deltas", id |-> AutoId(deltas), nonce |-> NextNonce,
     remove |-> getArrayDiff(orderBookClone.levels, book).remove,
     add |-> getArrayDiff(orderBookClone.levels, book).add]

WritesSnapshot(book) ==
    /\ Receive(book)
    /\ snapshots' = writeToStream(snapshots, SnapshotOf(book))
    /\ UNCHANGED <<deltas, lostNonce, ms>>

WritesDelta(book) ==
    /\ ~ TakesSnapshot
    /\ Receive(book)
    /\ deltas' = writeToStream(deltas, DeltaOf(book))
    /\ UNCHANGED <<snapshots, lostNonce, ms>>

WritesNothing(book) ==
    /\ ~ TakesSnapshot /\ orderBookClone.levels = book
    /\ Receive(book)
    /\ UNCHANGED <<deltas, snapshots, lostNonce, ms>>

LEMMA Handles ==
    ASSUME TypeOK, NEW book \in Book, HandleOrderBook(book)
    PROVE  /\ WritesSnapshot(book) \/ WritesDelta(book) \/ WritesNothing(book)
           /\ UNCHANGED readerVars
  <1>1. CASE TakesSnapshot
    BY <1>1 DEF HandleOrderBook, WritesSnapshot, SnapshotOf
  <1>2. CASE ~ TakesSnapshot /\ getArrayDiff(orderBookClone.levels, book).remove
                                 \cup getArrayDiff(orderBookClone.levels, book).add = {}
    <2>1. orderBookClone.levels \in SUBSET Level /\ book \in SUBSET Level
      BY DEF TypeOK, Book
    <2>2. orderBookClone.levels = book
      BY <1>2, <2>1 DEF getArrayDiff
    <2> QED
      BY <1>2, <2>2 DEF HandleOrderBook, WritesNothing
  <1>3. CASE ~ TakesSnapshot /\ getArrayDiff(orderBookClone.levels, book).remove
                                 \cup getArrayDiff(orderBookClone.levels, book).add # {}
    BY <1>3 DEF HandleOrderBook, WritesDelta, DeltaOf
  <1> QED
    BY <1>1, <1>2, <1>3

\* The next book gets the next number; the earlier ones stay.
LEMMA Grows ==
    ASSUME TypeOK, NEW book \in Book, Receive(book)
    PROVE  /\ Len(delivered) \in Nat /\ NextNonce = Len(delivered) + 1
           /\ delivered' \in Seq(Book) /\ Len(delivered') = NextNonce
           /\ \A i \in 1..Len(delivered) : delivered'[i] = delivered[i]
           /\ delivered'[NextNonce] = book
           /\ orderBookClone' = [nonce |-> NextNonce, levels |-> book]
           /\ orderBookClone' # NoBook
  <1>1. delivered \in Seq(Book) /\ delivered' = Append(delivered, book)
    BY DEF TypeOK, Receive
  <1>2. orderBookClone' = [nonce |-> NextNonce, levels |-> book] /\ NextNonce # 0
    BY <1>1 DEF Receive, NextNonce
  <1>3. orderBookClone' # NoBook
    BY <1>2 DEF NoBook
  <1> QED
    BY <1>1, <1>2, <1>3 DEF NextNonce

\* What is known of a stream and the entry written to it.
LEMMA WriteFacts ==
    ASSUME StreamInv, NEW stream \in {deltas, snapshots}, NEW entry \in Entry,
           entry.id = AutoId(stream), entry.nonce = Len(delivered) + 1
    PROVE  /\ stream \subseteq Entry /\ HasNewest(stream) /\ Bounded(stream) /\ Ordered(stream)
           /\ entry.id.ms > 0
           /\ \A e \in stream : Before(e.id, entry.id) /\ e.nonce < entry.nonce
           /\ writeToStream(stream, entry) \subseteq stream \cup {entry}
           /\ entry \in writeToStream(stream, entry)
           /\ Ordered(writeToStream(stream, entry))
           /\ Bounded(writeToStream(stream, entry))
           /\ Newest(writeToStream(stream, entry)) = entry
           /\ \A e \in stream \ writeToStream(stream, entry) :
                 /\ Cardinality(writeToStream(stream, entry)) = TrimSize
                 /\ \A f \in writeToStream(stream, entry) : Before(e.id, f.id)
  <1>1. stream \subseteq Entry /\ HasNewest(stream) /\ Bounded(stream) /\ Ordered(stream) /\ ms \in Nat
    BY DEF StreamInv, IdInv, TypeOK, Entry, Numbered
  <1>2. \A e \in stream : Before(e.id, entry.id)
    BY <1>1, AutoIdIsNewer
  <1>3. \A e \in stream : e.nonce \in 1..Len(delivered)
    BY DEF StreamInv, Numbered, Published
  <1>4. \A e \in stream : e.nonce < entry.nonce
    <2>1. Len(delivered) \in Nat
      BY DEF StreamInv, IdInv, TypeOK
    <2> QED
      BY <1>3, <2>1
  <1>5. entry.id.ms > 0
    <2>1. ms > 0 /\ \A e \in stream : e.id.ms > 0
      BY DEF StreamInv, Numbered, Published
    <2> QED
      BY <1>1, <2>1, NewestIsEntry DEF AutoId
  <1>6. /\ writeToStream(stream, entry) \subseteq stream \cup {entry}
        /\ entry \in writeToStream(stream, entry)
    BY <1>1, <1>2, WriteKeepsNewest
  <1>7. /\ Ordered(writeToStream(stream, entry))
        /\ Bounded(writeToStream(stream, entry))
        /\ Newest(writeToStream(stream, entry)) = entry
        /\ \A e \in stream \ writeToStream(stream, entry) :
              /\ Cardinality(writeToStream(stream, entry)) = TrimSize
              /\ \A f \in writeToStream(stream, entry) : Before(e.id, f.id)
    BY <1>1, <1>2, <1>4, WriteTrims
  <1> QED
    BY <1>1, <1>2, <1>4, <1>5, <1>6, <1>7

LEMMA WrittenTypes ==
    ASSUME StreamInv, NEW book \in Book
    PROVE  /\ SnapshotOf(book) \in Snapshot /\ SnapshotOf(book) \in Entry
           /\ SnapshotOf(book).id = AutoId(snapshots) /\ SnapshotOf(book).nonce = Len(delivered) + 1
           /\ DeltaOf(book) \in Delta /\ DeltaOf(book) \in Entry
           /\ DeltaOf(book).id = AutoId(deltas) /\ DeltaOf(book).nonce = Len(delivered) + 1
           /\ DeltaOf(book).type = "deltas" /\ SnapshotOf(book).type = "snapshot"
           /\ DeltaOf(book).remove = orderBookClone.levels \ book
           /\ DeltaOf(book).add = book \ orderBookClone.levels
           /\ SnapshotOf(book).levels = book
  <1>1. AutoId(snapshots) \in Id /\ AutoId(deltas) \in Id /\ NextNonce \in Nat
    BY AutoIdIsNewer DEF StreamInv, IdInv, TypeOK, Entry, NextNonce
  <1>2. orderBookClone.levels \in SUBSET Level /\ book \in SUBSET Level
    BY DEF StreamInv, IdInv, TypeOK, Book
  <1> QED
    BY <1>1, <1>2 DEF SnapshotOf, DeltaOf, Snapshot, Delta, Entry, NextNonce, getArrayDiff, Book

-----------------------------------------------------------------------------
(* StreamInv is inductive. *)

\* Numbered and Contents, after a snapshot was written.
LEMMA SnapshotWritten ==
    ASSUME StreamInv, IdInv', NEW book \in Book, WritesSnapshot(book)
    PROVE  StreamInv'
  <1> DEFINE s == SnapshotOf(book)
             new == writeToStream(snapshots, s)
             n == Len(delivered)
  <1>1. /\ TypeOK /\ n \in Nat /\ ms > 0 /\ lostNonce \in Nat /\ lostNonce <= n
        /\ \A e \in deltas \cup snapshots : e.nonce \in 1..n /\ e.id.ms > 0
        /\ Ordered(deltas) /\ Bounded(deltas)
    BY DEF StreamInv, IdInv, TypeOK, Numbered, Published
  <1>2. /\ snapshots' = new /\ UNCHANGED <<deltas, lostNonce, ms>>
    BY DEF WritesSnapshot
  <1>3. /\ Len(delivered') = n + 1
        /\ \A i \in 1..n : delivered'[i] = delivered[i]
        /\ delivered'[n + 1] = book
        /\ orderBookClone' = [nonce |-> n + 1, levels |-> book]
    BY <1>1, Grows DEF WritesSnapshot
  <1>4. /\ s.nonce = n + 1 /\ s.levels = book /\ s.id.ms > 0
        /\ new \subseteq snapshots \cup {s} /\ Ordered(new) /\ Bounded(new) /\ Newest(new) = s
    BY WriteFacts, WrittenTypes
  <1> HIDE DEF s, new, n
  <1>5. \A e \in deltas \cup new : e.nonce \in 1..(n + 1) /\ e.id.ms > 0
    BY <1>1, <1>4
  <1>6. Numbered'
    BY <1>1, <1>2, <1>3, <1>4, <1>5 DEF Numbered, Published
  <1>7. Contents'
    <2>1. \A e \in snapshots : e.levels = delivered[e.nonce] /\ e.nonce \in 1..n
      BY <1>1 DEF StreamInv, Contents
    <2>2. \A e \in new : e.levels = delivered'[e.nonce]
      BY <1>3, <1>4, <2>1
    <2>3. \A d \in deltas :
            /\ d.nonce > 1
            /\ d.remove = delivered'[d.nonce - 1] \ delivered'[d.nonce]
            /\ d.add = delivered'[d.nonce] \ delivered'[d.nonce - 1]
      <3> SUFFICES ASSUME NEW d \in deltas
                   PROVE  /\ d.nonce > 1
                          /\ d.remove = delivered'[d.nonce - 1] \ delivered'[d.nonce]
                          /\ d.add = delivered'[d.nonce] \ delivered'[d.nonce - 1]
        OBVIOUS
      <3>1. /\ d.nonce > 1 /\ d.nonce \in 1..n
            /\ d.remove = delivered[d.nonce - 1] \ delivered[d.nonce]
            /\ d.add = delivered[d.nonce] \ delivered[d.nonce - 1]
        BY <1>1 DEF StreamInv, Contents
      <3>2. d.nonce - 1 \in 1..n
        BY <1>1, <3>1
      <3> QED
        BY <1>3, <3>1, <3>2
    <2> QED
      BY <1>1, <1>2, <1>3, <2>2, <2>3 DEF Contents
  <1>8. Chained'
    BY <1>1, <1>2, <1>3, <1>4 DEF Chained
  <1> QED
    BY <1>6, <1>7, <1>8 DEF StreamInv

\* A snapshot that was written is the newest, and no delta is behind it.
LEMMA SnapshotIsFresh ==
    ASSUME StreamInv, NEW book \in Book, WritesSnapshot(book)
    PROVE  /\ Newest(snapshots)' = SnapshotOf(book)
           /\ Since' = {}
           /\ snapshots # {} => Newest(snapshots) \in snapshots'
  <1> DEFINE s == SnapshotOf(book)
             new == writeToStream(snapshots, s)
  <1>1. /\ s.nonce = Len(delivered) + 1 /\ Newest(new) = s /\ snapshots' = new /\ deltas' = deltas
        /\ snapshots \subseteq Entry /\ HasNewest(snapshots) /\ Bounded(new)
        /\ new \subseteq snapshots \cup {s} /\ s \in new
        /\ \A e \in snapshots \ new : Cardinality(new) = TrimSize /\ \A f \in new : Before(e.id, f.id)
    BY WriteFacts, WrittenTypes DEF WritesSnapshot
  <1> HIDE DEF s, new
  <1>2. \A d \in deltas : ~ (d.nonce > s.nonce)
    <2>1. Len(delivered) \in Nat /\ \A d \in deltas : d.nonce \in 1..Len(delivered)
      BY DEF StreamInv, IdInv, TypeOK, Numbered, Published
    <2> QED
      BY <1>1, <2>1
  <1>3. Since' = {}
    BY <1>1, <1>2 DEF Since
  <1>4. ASSUME snapshots # {}, Newest(snapshots) \notin new
        PROVE  FALSE
    <2> DEFINE o == Newest(snapshots)
    <2>1. o \in snapshots /\ \A f \in snapshots : ~ Before(o.id, f.id)
      BY <1>1, <1>4, NewestIsEntry
    <2>2. Cardinality(new) = TrimSize /\ \A f \in new : Before(o.id, f.id)
      BY <1>1, <1>4, <2>1
    <2>3. new = {s}
      BY <1>1, <2>1, <2>2
    <2>4. Cardinality({s}) = 1
      BY FS_Singleton
    <2> QED
      BY <2>2, <2>3, <2>4, TrimSizeAssumption
  <1> QED
    BY <1>1, <1>3, <1>4 DEF s

\* The last book the gatherer knows is the last one delivered.
LEMMA LastBook ==
    ASSUME StreamInv, ~ TakesSnapshot
    PROVE  /\ Len(delivered) \in Nat /\ Len(delivered) > 0
           /\ orderBookClone.levels = delivered[Len(delivered)]
  BY DEF TakesSnapshot, StreamInv, IdInv, TypeOK, Contents

\* A delta that was written goes behind the newest snapshot.  When the streams are
\* unbroken afterwards, XTRIM dropped nothing from there; when they are spaced
\* afterwards, they were before.
LEMMA DeltaKeeps ==
    ASSUME StreamInv, NEW book \in Book, WritesDelta(book)
    PROVE  /\ Newest(snapshots)' = Newest(snapshots) /\ snapshots' = snapshots
           /\ Unbroken' => Unbroken /\ Since' = Since \cup {DeltaOf(book)}
           /\ Healed' => Healed
  <1> DEFINE d == DeltaOf(book)
             new == writeToStream(deltas, d)
             s == Newest(snapshots)
             n == Len(delivered)
  <1>1. /\ d.nonce = n + 1 /\ d.id \in Id
        /\ deltas \subseteq Entry /\ Ordered(deltas) /\ Bounded(deltas)
        /\ \A e \in deltas : Before(e.id, d.id) /\ e.nonce < d.nonce
        /\ new \subseteq deltas \cup {d} /\ d \in new /\ Bounded(new)
        /\ \A e \in deltas \ new : Cardinality(new) = TrimSize /\ \A f \in new : Before(e.id, f.id)
    <2>1. d \in Entry /\ d.id = AutoId(deltas) /\ d.nonce = n + 1 /\ d.id \in Id
      BY WrittenTypes DEF Delta
    <2> QED
      BY <2>1, WriteFacts
  <1>2. deltas' = new /\ snapshots' = snapshots /\ lostNonce' = lostNonce
    BY DEF WritesDelta
  <1>3. n \in Nat /\ TrimSize \in Nat /\ snapshots \subseteq Entry
    BY TrimSizeAssumption DEF StreamInv, IdInv, TypeOK, Entry
  <1>4. snapshots # {} => s.nonce \in 1..n /\ s.id \in Id
    <2>1. snapshots # {} => s \in snapshots
      BY NewestIsEntry DEF StreamInv, IdInv
    <2> QED
      BY <1>3, <2>1 DEF StreamInv, Numbered, Published, Entry, Snapshot, Delta
  <1>5. \A e \in deltas : e.nonce \in Nat /\ e.id \in Id
    BY <1>1 DEF Entry, Snapshot, Delta
  <1>6. s' = s
    BY <1>2
  <1> DEFINE behind == {e \in new : e.nonce > s.nonce}
  <1>7. Since' = behind /\ Since = {e \in deltas : e.nonce > s.nonce}
    BY <1>2 DEF Since
  <1>8. Unbroken' <=> snapshots # {} /\ Cardinality(behind) < TrimSize /\ lostNonce < s.nonce
    BY <1>2, <1>7 DEF Unbroken
  <1> HIDE DEF d, new, s, n
  <1>9. ASSUME snapshots # {}, Cardinality(behind) < TrimSize
        PROVE  /\ behind = Since \cup {d} /\ Cardinality(Since) < TrimSize
               /\ \A e \in deltas \ new : \E f \in new \ behind : Before(e.id, f.id)
    <2>1. \A e \in deltas \ new : \A f \in new : e.nonce < f.nonce
      BY <1>1 DEF Ordered
    <2>2. behind \subseteq new
      OBVIOUS
    <2>3. ASSUME NEW e \in deltas \ new
          PROVE  behind # new
      <3>1. Cardinality(new) = TrimSize
        BY <1>1
      <3> HIDE DEF behind
      <3> QED
        BY <1>3, <1>9, <3>1
    <2>4. Since \subseteq new
      <3> SUFFICES ASSUME NEW e \in deltas, e.nonce > s.nonce, e \notin new
                   PROVE  FALSE
        BY <1>7
      <3>1. \A f \in new : f.nonce \in Nat /\ e.nonce < f.nonce
        BY <1>1, <1>3, <1>5, <2>1
      <3>2. \A f \in new : f.nonce > s.nonce
        BY <1>4, <1>5, <1>9, <3>1
      <3> QED
        BY <2>3, <3>2
    <2>5. d \in behind
      BY <1>1, <1>3, <1>4, <1>9
    <2>6. behind = Since \cup {d}
      BY <1>1, <1>7, <2>4, <2>5
    <2>7. IsFiniteSet(new) /\ IsFiniteSet(behind)
      BY <1>1, <2>2, FS_Subset DEF Bounded
    <2>8. /\ Cardinality(Since) <= Cardinality(behind)
          /\ Cardinality(Since) \in Nat /\ Cardinality(behind) \in Nat
      BY <2>6, <2>7, FS_Subset, FS_CardinalityType
    <2>9. ASSUME NEW e \in deltas \ new
          PROVE  \E f \in new \ behind : Before(e.id, f.id)
      BY <1>1, <2>2, <2>3
    <2> HIDE DEF behind
    <2> QED
      BY <1>3, <1>9, <2>6, <2>8, <2>9
  <1>10. Unbroken' => Unbroken /\ Since' = Since \cup {d}
    BY <1>7, <1>8, <1>9 DEF Unbroken, s
  <1>11. ASSUME Healed' PROVE Healed
    <2>1. Unbroken /\ Unbroken' /\ Since' = behind /\ behind = Since \cup {d}
      BY <1>7, <1>10, <1>11 DEF Healed
    <2>2. snapshots # {} /\ \A e \in deltas \ new : \E f \in new \ behind : Before(e.id, f.id)
      BY <1>8, <1>9, <2>1
    <2> HIDE DEF behind
    <2>3. /\ \A e \in new \ behind : Before(e.id, s.id)
          /\ \A e \in snapshots \ {s} : Before([ms |-> e.id.ms + 1, seq |-> 0], s.id)
          /\ \A e \in behind : Before([ms |-> s.id.ms + 1, seq |-> 0], e.id)
      <3>1. Spaced'
        BY <1>11 DEF Healed
      <3> QED
        BY <1>2, <1>6, <2>1, <3>1 DEF Spaced, s
    <2>4. \A e \in deltas \ Since : Before(e.id, s.id)
      <3> SUFFICES ASSUME NEW e \in deltas, e \notin Since
                   PROVE  Before(e.id, s.id)
        OBVIOUS
      <3>1. CASE e \in new
        <4>1. e # d
          BY <1>1, <1>3, <1>5
        <4> QED
          BY <2>1, <2>3, <3>1, <4>1
      <3>2. CASE e \notin new
        <4>1. PICK f \in new \ behind : Before(e.id, f.id)
          BY <2>2, <3>2
        <4>2. Before(f.id, s.id) /\ e.id \in Id /\ f.id \in Id /\ s.id \in Id
          BY <1>1, <1>4, <1>5, <2>2, <2>3
        <4> QED
          BY <4>1, <4>2, IdOrder
      <3> QED
        BY <3>1, <3>2
    <2> QED
      BY <2>1, <2>3, <2>4 DEF Healed, Spaced, s
  <1> QED
    BY <1>2, <1>6, <1>10, <1>11 DEF d, s

\* Numbered, Contents and Chained, after a delta was written.
LEMMA DeltaWritten ==
    ASSUME StreamInv, IdInv', NEW book \in Book, WritesDelta(book)
    PROVE  StreamInv'
  <1> DEFINE d == DeltaOf(book)
             new == writeToStream(deltas, d)
             s == Newest(snapshots)
             n == Len(delivered)
  <1>1. /\ TypeOK /\ n \in Nat /\ n > 0 /\ ms > 0 /\ lostNonce \in Nat /\ lostNonce <= n
        /\ \A e \in deltas \cup snapshots : e.nonce \in 1..n /\ e.id.ms > 0
        /\ Ordered(snapshots) /\ Bounded(snapshots)
    BY LastBook DEF StreamInv, IdInv, TypeOK, Numbered, Published, WritesDelta
  <1>2. deltas' = new /\ UNCHANGED <<snapshots, lostNonce, ms>>
    BY DEF WritesDelta
  <1>3. /\ Len(delivered') = n + 1
        /\ \A i \in 1..n : delivered'[i] = delivered[i]
        /\ delivered'[n + 1] = book
        /\ orderBookClone' = [nonce |-> n + 1, levels |-> book]
    BY <1>1, Grows DEF WritesDelta
  <1>4. /\ d.nonce = n + 1 /\ d.id.ms > 0
        /\ d.remove = delivered[n] \ book /\ d.add = book \ delivered[n]
        /\ new \subseteq deltas \cup {d} /\ Ordered(new) /\ Bounded(new)
    <2>1. orderBookClone.levels = delivered[n]
      BY LastBook DEF WritesDelta
    <2> QED
      BY <2>1, WriteFacts, WrittenTypes
  <1>5. Unbroken' => Unbroken /\ Since' = Since \cup {d}
    BY DeltaKeeps
  <1>6. s' = s
    BY <1>2
  <1> HIDE DEF d, new, n
  <1>7. Numbered'
    <2>1. \A e \in new \cup snapshots : e.nonce \in 1..(n + 1) /\ e.id.ms > 0
      BY <1>1, <1>4
    <2> QED
      BY <1>1, <1>2, <1>3, <1>4, <2>1 DEF Numbered, Published
  <1>8. Contents'
    <2>1. \A e \in snapshots : e.levels = delivered'[e.nonce]
      BY <1>1, <1>3 DEF StreamInv, Contents
    <2>2. ASSUME NEW e \in new
          PROVE  /\ e.nonce > 1
                 /\ e.remove = delivered'[e.nonce - 1] \ delivered'[e.nonce]
                 /\ e.add = delivered'[e.nonce] \ delivered'[e.nonce - 1]
      <3>1. CASE e = d
        BY <1>1, <1>3, <1>4, <3>1
      <3>2. CASE e \in deltas
        <4>1. /\ e.nonce > 1 /\ e.nonce \in 1..n
              /\ e.remove = delivered[e.nonce - 1] \ delivered[e.nonce]
              /\ e.add = delivered[e.nonce] \ delivered[e.nonce - 1]
          BY <1>1, <3>2 DEF StreamInv, Contents
        <4>2. e.nonce - 1 \in 1..n
          BY <1>1, <4>1
        <4> QED
          BY <1>3, <4>1, <4>2
      <3> QED
        BY <1>4, <3>1, <3>2
    <2> QED
      BY <1>1, <1>2, <1>3, <2>1, <2>2 DEF Contents
  <1>9. Chained'
    <2> SUFFICES ASSUME Unbroken', NEW i \in s.nonce..(n + 1), NEW j \in s.nonce..(n + 1),
                        i <= j, Quiet(i, j)'
                 PROVE  delivered'[i] = delivered'[j]
      BY <1>3, <1>6 DEF Chained
    <2>1. Unbroken /\ Since' = Since \cup {d} /\ Chained
      BY <1>5 DEF StreamInv
    <2>2. s.nonce \in 1..n
      <3>1. s \in snapshots
        BY <2>1, NewestIsEntry DEF Unbroken, StreamInv, IdInv
      <3> QED
        BY <1>1, <3>1
    <2>3. Quiet(i, j) /\ ~ (i < n + 1 /\ n + 1 <= j)
      BY <1>4, <2>1 DEF Quiet
    <2>4. CASE j <= n
      <3>1. i \in s.nonce..n /\ j \in s.nonce..n /\ i \in 1..n /\ j \in 1..n
        BY <1>1, <2>2, <2>4
      <3>2. delivered[i] = delivered[j]
        BY <2>1, <2>3, <3>1 DEF Chained, n
      <3> QED
        BY <1>3, <3>1, <3>2
    <2>5. CASE j > n
      BY <1>1, <2>2, <2>3, <2>5
    <2> QED
      BY <1>1, <2>2, <2>4, <2>5
  <1> QED
    BY <1>7, <1>8, <1>9 DEF StreamInv

\* Numbered and Contents, after a book that no stream got an entry for.
LEMMA Unwritten ==
    ASSUME StreamInv, IdInv', NEW book \in Book, Receive(book),
           UNCHANGED <<deltas, snapshots, ms>>, lostNonce' <= Len(delivered) + 1
    PROVE  Numbered' /\ Contents'
  <1> DEFINE n == Len(delivered)
  <1>1. /\ TypeOK /\ n \in Nat /\ ms > 0 /\ lostNonce' \in Nat
        /\ \A e \in deltas \cup snapshots : e.nonce \in 1..n /\ e.id.ms > 0
        /\ Ordered(snapshots) /\ Bounded(snapshots) /\ Ordered(deltas) /\ Bounded(deltas)
    BY DEF StreamInv, IdInv, TypeOK, Numbered, Published
  <1>2. /\ Len(delivered') = n + 1
        /\ \A i \in 1..n : delivered'[i] = delivered[i]
        /\ delivered'[n + 1] = book
        /\ orderBookClone' = [nonce |-> n + 1, levels |-> book]
    BY <1>1, Grows
  <1> HIDE DEF n
  <1>3. \A e \in deltas \cup snapshots : e.nonce \in 1..(n + 1)
    BY <1>1
  <1>4. Numbered'
    BY <1>1, <1>2, <1>3 DEF Numbered, Published, n
  <1>5. \A e \in snapshots : e.levels = delivered'[e.nonce]
    BY <1>1, <1>2 DEF StreamInv, Contents
  <1>6. ASSUME NEW e \in deltas
        PROVE  /\ e.nonce > 1
               /\ e.remove = delivered'[e.nonce - 1] \ delivered'[e.nonce]
               /\ e.add = delivered'[e.nonce] \ delivered'[e.nonce - 1]
    <2>1. /\ e.nonce > 1 /\ e.nonce \in 1..n
          /\ e.remove = delivered[e.nonce - 1] \ delivered[e.nonce]
          /\ e.add = delivered[e.nonce] \ delivered[e.nonce - 1]
      BY <1>1 DEF StreamInv, Contents
    <2>2. e.nonce - 1 \in 1..n
      BY <1>1, <2>1
    <2> QED
      BY <1>2, <2>1, <2>2
  <1>7. Contents'
    BY <1>1, <1>2, <1>5, <1>6 DEF Contents
  <1> QED
    BY <1>4, <1>7

\* A book equal to the one before it needs no delta.
LEMMA NothingWritten ==
    ASSUME StreamInv, IdInv', NEW book \in Book, WritesNothing(book)
    PROVE  StreamInv' /\ Since' = Since /\ (Unbroken' <=> Unbroken)
  <1> DEFINE s == Newest(snapshots)
             n == Len(delivered)
  <1>1. n \in Nat /\ n > 0 /\ delivered[n] = book /\ lostNonce <= n /\ lostNonce \in Nat
    BY LastBook DEF StreamInv, IdInv, TypeOK, Numbered, WritesNothing
  <1>2. /\ Len(delivered') = n + 1
        /\ \A i \in 1..n : delivered'[i] = delivered[i]
        /\ delivered'[n + 1] = book
    BY Grows DEF WritesNothing, StreamInv, IdInv
  <1>3. Receive(book) /\ UNCHANGED <<deltas, snapshots, lostNonce, ms>>
    BY DEF WritesNothing
  <1>4. lostNonce' <= n + 1
    BY <1>1, <1>3
  <1>5. Numbered' /\ Contents'
    BY <1>3, <1>4, Unwritten
  <1>6. Since' = Since /\ (Unbroken' <=> Unbroken) /\ s' = s
    BY <1>3 DEF Since, Unbroken
  <1> HIDE DEF n
  <1>7. Chained'
    <2> SUFFICES ASSUME Unbroken, NEW i \in s.nonce..(n + 1), NEW j \in s.nonce..(n + 1),
                        i <= j, Quiet(i, j)
                 PROVE  delivered'[i] = delivered'[j]
      BY <1>2, <1>6 DEF Chained, Quiet
    <2>1. s.nonce \in 1..n
      <3>1. s \in snapshots
        BY NewestIsEntry DEF Unbroken, StreamInv, IdInv
      <3> QED
        BY <3>1 DEF StreamInv, Numbered, Published, n
    <2>2. \A a, b \in s.nonce..n : a <= b /\ Quiet(a, b) => delivered[a] = delivered[b]
      BY DEF StreamInv, Chained, n
    <2>3. CASE j <= n
      <3>1. i \in s.nonce..n /\ j \in s.nonce..n /\ i \in 1..n /\ j \in 1..n
        BY <1>1, <2>1, <2>3
      <3> QED
        BY <1>2, <2>2, <3>1
    <2>4. CASE j = n + 1 /\ i <= n
      <3>1. i \in s.nonce..n /\ n \in s.nonce..n /\ i \in 1..n
        BY <1>1, <2>1, <2>4
      <3>2. \A d \in Since : d.nonce \in Nat
        BY DEF Since, StreamInv, IdInv, TypeOK, Delta
      <3>3. Quiet(i, n)
        BY <1>1, <2>4, <3>2 DEF Quiet
      <3> QED
        BY <1>1, <1>2, <2>2, <2>4, <3>1, <3>3
    <2>5. CASE j = n + 1 /\ i = n + 1
      BY <2>5
    <2> QED
      BY <1>1, <2>1, <2>3, <2>4, <2>5
  <1> QED
    BY <1>5, <1>6, <1>7 DEF StreamInv

\* A lost write breaks the streams until the next snapshot.
LEMMA WriteLost ==
    ASSUME StreamInv, IdInv', NEW book \in Book, LoseWrite(book)
    PROVE  StreamInv' /\ ~ Unbroken'
  <1>1. Len(delivered) \in Nat /\ NextNonce = Len(delivered) + 1
    BY DEF StreamInv, IdInv, TypeOK, NextNonce
  <1>2. Receive(book) /\ UNCHANGED <<deltas, snapshots, ms>> /\ lostNonce' = Len(delivered) + 1
    BY <1>1 DEF LoseWrite, redisVars
  <1>3. Numbered' /\ Contents'
    BY <1>1, <1>2, Unwritten
  <1>4. ASSUME Unbroken' PROVE FALSE
    <2>1. snapshots # {} /\ Len(delivered) + 1 < Newest(snapshots).nonce
      BY <1>2, <1>4 DEF Unbroken
    <2>2. Newest(snapshots) \in snapshots
      BY <2>1, NewestIsEntry DEF StreamInv, IdInv
    <2>3. Newest(snapshots).nonce \in 1..Len(delivered)
      BY <2>2 DEF StreamInv, Numbered, Published
    <2> QED
      BY <1>1, <2>1, <2>3
  <1> QED
    BY <1>3, <1>4 DEF StreamInv, Chained

\* The steps that neither receive a book nor write to Redis.
LEMMA StreamsUntouched ==
    ASSUME StreamInv, IdInv', UNCHANGED <<delivered, deltas, snapshots, lostNonce>>, ms' >= ms,
           orderBookClone' = orderBookClone \/ orderBookClone' = NoBook
    PROVE  StreamInv'
  <1>1. Numbered'
    BY DEF StreamInv, IdInv, TypeOK, Numbered, Published
  <1>2. Contents'
    BY DEF StreamInv, Contents
  <1>3. Chained'
    BY DEF StreamInv, Chained, Unbroken, Since, Quiet
  <1> QED
    BY <1>1, <1>2, <1>3 DEF StreamInv

\* What a step does to the streams.
LEMMA StepCases ==
    ASSUME IdInv, [Next]_vars
    PROVE  \/ \E book \in Book :
                 /\ WritesSnapshot(book) \/ WritesDelta(book) \/ WritesNothing(book)
                 /\ UNCHANGED readerVars
           \/ \E book \in Book : LoseWrite(book)
           \/ /\ UNCHANGED <<delivered, deltas, snapshots, lostNonce>> /\ ms' >= ms
              /\ orderBookClone' = orderBookClone \/ orderBookClone' = NoBook
              /\ Reader \/ RestartMagicbox \/ UNCHANGED readerVars
  <1>1. ASSUME NEW book \in Book, HandleOrderBook(book)
        PROVE  /\ WritesSnapshot(book) \/ WritesDelta(book) \/ WritesNothing(book)
               /\ UNCHANGED readerVars
    BY <1>1, Handles DEF IdInv
  <1>2. ms \in Nat
    BY DEF IdInv, TypeOK
  <1>3. CASE SnapshotTimer
    BY <1>2, <1>3 DEF SnapshotTimer, redisVars
  <1>4. CASE RestartGatherer
    BY <1>2, <1>4 DEF RestartGatherer, redisVars
  <1>5. CASE Tick
    BY <1>2, <1>5 DEF Tick, redisVars, gathererVars
  <1>6. CASE LoadSnapshot
    BY <1>2, <1>6 DEF LoadSnapshot, redisVars, gathererVars, Reader
  <1>7. CASE XRead
    BY <1>2, <1>7 DEF XRead, redisVars, gathererVars, Reader
  <1>8. CASE HandleNext
    BY <1>2, <1>8 DEF HandleNext, redisVars, gathererVars, Reader
  <1>9. CASE RestartMagicbox
    BY <1>2, <1>9 DEF RestartMagicbox, redisVars, gathererVars
  <1>10. CASE UNCHANGED vars
    BY <1>2, <1>10 DEF vars, redisVars, gathererVars
  <1> QED
    BY <1>1, <1>3, <1>4, <1>5, <1>6, <1>7, <1>8, <1>9, <1>10 DEF Next, Reader

LEMMA InitStreamInv == Init => StreamInv
  <1> SUFFICES ASSUME Init PROVE StreamInv
    OBVIOUS
  <1>1. IdInv
    BY InitIdInv
  <1>2. Bounded({})
    BY FS_EmptySet, TrimSizeAssumption DEF Bounded
  <1>3. Numbered
    BY <1>2 DEF Init, Numbered, Published, Ordered
  <1>4. Contents /\ Chained
    BY DEF Init, Contents, Chained, Unbroken
  <1> QED
    BY <1>1, <1>3, <1>4 DEF StreamInv

LEMMA NextStreamInv == StreamInv /\ [Next]_vars => StreamInv'
  <1> SUFFICES ASSUME StreamInv, [Next]_vars PROVE StreamInv'
    OBVIOUS
  <1>1. IdInv /\ IdInv'
    BY NextIdInv DEF StreamInv
  <1> QED
    BY <1>1, StepCases, SnapshotWritten, DeltaWritten, NothingWritten, WriteLost, StreamsUntouched

-----------------------------------------------------------------------------
(* The streams describe the book. *)

\* The entries from the newest snapshot on, as a step leaves them.
LEMMA NextDescribes ==
    ASSUME StreamInv, StreamsDescribeTheBook, [Next]_vars
    PROVE  StreamsDescribeTheBook'
  <1> SUFFICES ASSUME orderBookClone' # NoBook, Unbroken'
               PROVE  DescribedBook' = orderBookClone'.levels
    BY DEF StreamsDescribeTheBook
  <1> DEFINE s == Newest(snapshots)
             n == Len(delivered)
  <1>1. IdInv /\ IdInv' /\ TypeOK /\ n \in Nat
    BY NextIdInv DEF StreamInv, IdInv, TypeOK
  <1>2. ASSUME NEW book \in Book, WritesSnapshot(book)
        PROVE  DescribedBook' = orderBookClone'.levels
    <2>1. s' = SnapshotOf(book) /\ Since' = {}
      BY <1>2, SnapshotIsFresh
    <2>2. SnapshotOf(book).type = "snapshot" /\ SnapshotOf(book).levels = book /\ book \subseteq Level
      BY WrittenTypes DEF Book
    <2>3. orderBookClone'.levels = book
      BY <1>1, <1>2, Grows DEF WritesSnapshot
    <2>4. DescribedBook' = {l \in Level : l \in book}
      BY <2>1, <2>2 DEF DescribedBook
    <2> QED
      BY <2>2, <2>3, <2>4
  <1>3. ASSUME NEW book \in Book, WritesDelta(book)
        PROVE  DescribedBook' = orderBookClone'.levels
    <2> DEFINE d == DeltaOf(book)
    <2>1. s' = s /\ Unbroken /\ Since' = Since \cup {d}
      BY <1>3, DeltaKeeps
    <2>2. orderBookClone # NoBook /\ n > 0 /\ book \subseteq Level
      BY <1>3, LastBook DEF WritesDelta, TakesSnapshot, Book
    <2>3. DescribedBook = orderBookClone.levels
      BY <2>1, <2>2 DEF StreamsDescribeTheBook
    <2>4. orderBookClone'.levels = book
      BY <1>1, <1>3, Grows DEF WritesDelta
    <2>5. /\ d.nonce = n + 1 /\ d.type = "deltas"
          /\ d.remove = orderBookClone.levels \ book /\ d.add = book \ orderBookClone.levels
      BY WrittenTypes
    <2>6. /\ s.nonce \in 1..n /\ s.type = "snapshot"
          /\ \A e \in Since : e.nonce \in 1..n /\ e.type = "deltas"
      <3>1. s \in snapshots
        BY <2>1, NewestIsEntry DEF Unbroken, StreamInv, IdInv
      <3>2. s \in Snapshot /\ Since \subseteq Delta /\ Since \subseteq deltas
        BY <1>1, <3>1 DEF TypeOK, Since
      <3> QED
        BY <3>1, <3>2 DEF StreamInv, Numbered, Published, Snapshot, Delta
    <2> DEFINE Gives(e) == IF e.type = "snapshot" THEN e.levels ELSE e.add
               Keeps(e, l) == \A f \in Since : f.nonce > e.nonce => l \notin f.remove
    <2>7. DescribedBook = {l \in Level : \E e \in Since \cup {s} : l \in Gives(e) /\ Keeps(e, l)}
      BY DEF DescribedBook
    <2>8. DescribedBook' =
            {l \in Level : \E e \in (Since \cup {d}) \cup {s} :
                /\ l \in Gives(e)
                /\ \A f \in Since \cup {d} : f.nonce > e.nonce => l \notin f.remove}
      BY <2>1 DEF DescribedBook
    <2> HIDE DEF d, s, n, Gives
    <2>9. ASSUME NEW l \in Level
          PROVE  (\E e \in (Since \cup {d}) \cup {s} :
                    /\ l \in Gives(e)
                    /\ \A f \in Since \cup {d} : f.nonce > e.nonce => l \notin f.remove)
                 <=> l \in book
      <3>1. \A f \in Since : ~ (f.nonce > d.nonce)
        BY <1>1, <2>5, <2>6
      <3>2. Gives(d) = d.add
        BY <2>5 DEF Gives
      <3>3. \A e \in Since \cup {s} : d.nonce > e.nonce
        BY <1>1, <2>5, <2>6
      <3>4. l \in orderBookClone.levels <=> \E e \in Since \cup {s} : l \in Gives(e) /\ Keeps(e, l)
        BY <2>3, <2>7
      <3>5. ~ (d.nonce > d.nonce)
        BY <1>1, <2>5
      <3>6. (\E e \in (Since \cup {d}) \cup {s} :
                    /\ l \in Gives(e)
                    /\ \A f \in Since \cup {d} : f.nonce > e.nonce => l \notin f.remove)
            <=> \/ l \in d.add
                \/ \E e \in Since \cup {s} : l \in Gives(e) /\ Keeps(e, l) /\ l \notin d.remove
        BY <3>1, <3>2, <3>3, <3>5
      <3> QED
        BY <2>5, <3>4, <3>6
    <2> QED
      BY <2>2, <2>4, <2>8, <2>9
  <1>4. ASSUME NEW book \in Book, WritesNothing(book)
        PROVE  DescribedBook' = orderBookClone'.levels
    <2>1. Since' = Since /\ Unbroken /\ snapshots' = snapshots
      BY <1>1, <1>4, NothingWritten DEF WritesNothing
    <2>2. orderBookClone # NoBook /\ orderBookClone.levels = book
      BY <1>4 DEF WritesNothing, TakesSnapshot
    <2>3. orderBookClone'.levels = book
      BY <1>1, <1>4, Grows DEF WritesNothing
    <2>4. DescribedBook' = DescribedBook
      BY <2>1 DEF DescribedBook
    <2> QED
      BY <2>1, <2>2, <2>3, <2>4 DEF StreamsDescribeTheBook
  <1>5. ASSUME NEW book \in Book, LoseWrite(book)
        PROVE  FALSE
    BY <1>1, <1>5, WriteLost
  <1>6. ASSUME UNCHANGED <<delivered, deltas, snapshots, lostNonce>>,
               orderBookClone' = orderBookClone \/ orderBookClone' = NoBook
        PROVE  DescribedBook' = orderBookClone'.levels
    BY <1>6 DEF StreamsDescribeTheBook, Unbroken, DescribedBook, Since
  <1> QED
    BY <1>1, <1>2, <1>3, <1>4, <1>5, <1>6, StepCases

\* Snapshots and deltas fit together across every restart of the gatherer: unless a
\* delta behind the newest snapshot was trimmed or lost, the newest snapshot with the
\* deltas behind it is the book handleOrderBook handled last.
THEOREM StreamsFit == Spec => []StreamsDescribeTheBook
  <1>1. Init => StreamsDescribeTheBook
    BY DEF Init, StreamsDescribeTheBook
  <1>2. StreamInv /\ StreamsDescribeTheBook /\ [Next]_vars => StreamsDescribeTheBook'
    BY NextDescribes
  <1> QED
    BY <1>1, <1>2, InitStreamInv, NextStreamInv, PTL DEF Spec

-----------------------------------------------------------------------------
(* The reader *)

NextMs(i) == [ms |-> i.ms + 1, seq |-> 0]

\* What the reader was sent is in the stream, or older than what is.
NotAhead(stream, m) == stream # {} /\ (m = Newest(stream) \/ Before(m.id, Newest(stream).id))

BatchKnown ==
    /\ phase = "loading" => batch = {}
    /\ \A m \in batch : \/ m.type = "deltas" /\ NotAhead(deltas, m)
                        \/ m.type = "snapshot" /\ NotAhead(snapshots, m)

\* The id is not past the newest delta, or not past the millisecond after the
\* newest snapshot.
IdKnown ==
    \/ id = [ms |-> 0, seq |-> 0]
    \/ deltas # {} /\ ~ Before(Newest(deltas).id, id)
    \/ snapshots # {} /\ ~ Before(NextMs(Newest(snapshots).id), id)

KnownInv == StreamInv /\ BatchKnown /\ IdKnown

\* The newest snapshot is still to come: it is in the batch, or unread with
\* everything the reader has before it.
Waiting ==
    \/ Newest(snapshots) \in batch
    \/ /\ Before(id, Newest(snapshots).id)
       /\ \A m \in batch : Before(m.id, Newest(snapshots).id)

Shows(book) == cached.copies = [l \in Level |-> IF l \in book THEN 1 ELSE 0]

\* The reader is past the newest snapshot: its book is the snapshot's or a later
\* delta's, and it has, or will read, exactly the deltas behind that one.
Follows ==
    /\ cached.nonce \in {Newest(snapshots).nonce} \cup {d.nonce : d \in Since}
    /\ Shows(delivered[cached.nonce])
    /\ ~ Before(id, Newest(snapshots).id)
    /\ \A d \in Since : Before(id, d.id) <=> cached.nonce < d.nonce
    /\ batch \subseteq {d \in Since : cached.nonce < d.nonce}
    /\ \A m \in batch, d \in Since : cached.nonce < d.nonce /\ d.nonce < m.nonce => d \in batch

\* A healed reader does the one or the other, whatever it held before.
Tracks == phase = "listening" /\ Healed => Waiting \/ Follows

ReaderInv == KnownInv /\ Tracks

\* What a write does to a stream: nothing, or a newer newest entry.
Advances(old, new) ==
    \/ new = old
    \/ /\ new # {} /\ Newest(new).id \in Id
       /\ \A e \in old : Before(e.id, Newest(new).id)

LEMMA StreamsAdvance ==
    ASSUME StreamInv, [Next]_vars
    PROVE  Advances(deltas, deltas') /\ Advances(snapshots, snapshots')
  <1>1. ASSUME NEW book \in Book, WritesSnapshot(book)
        PROVE  Advances(deltas, deltas') /\ Advances(snapshots, snapshots')
    <2>1. SnapshotOf(book).id \in Id
      BY WrittenTypes DEF Snapshot
    <2>2. /\ SnapshotOf(book) \in writeToStream(snapshots, SnapshotOf(book))
          /\ Newest(writeToStream(snapshots, SnapshotOf(book))) = SnapshotOf(book)
          /\ \A e \in snapshots : Before(e.id, SnapshotOf(book).id)
      BY WrittenTypes, WriteFacts
    <2> QED
      BY <1>1, <2>1, <2>2 DEF WritesSnapshot, Advances
  <1>2. ASSUME NEW book \in Book, WritesDelta(book)
        PROVE  Advances(deltas, deltas') /\ Advances(snapshots, snapshots')
    <2>1. DeltaOf(book).id \in Id
      BY WrittenTypes DEF Delta
    <2>2. /\ DeltaOf(book) \in writeToStream(deltas, DeltaOf(book))
          /\ Newest(writeToStream(deltas, DeltaOf(book))) = DeltaOf(book)
          /\ \A e \in deltas : Before(e.id, DeltaOf(book).id)
      BY WrittenTypes, WriteFacts
    <2> QED
      BY <1>2, <2>1, <2>2 DEF WritesDelta, Advances
  <1>3. ASSUME UNCHANGED <<deltas, snapshots>>
        PROVE  Advances(deltas, deltas') /\ Advances(snapshots, snapshots')
    BY <1>3 DEF Advances
  <1> QED
    BY <1>1, <1>2, <1>3, StepCases DEF StreamInv, WritesNothing, LoseWrite, redisVars

\* The newest entries and the ids the reader holds are well formed.
LEMMA KnownIds ==
    ASSUME StreamInv
    PROVE  /\ id \in Id /\ batch \subseteq Entry /\ \A m \in batch : m.id \in Id /\ m.nonce \in Nat
           /\ deltas # {} => Newest(deltas) \in deltas /\ Newest(deltas).id \in Id
           /\ snapshots # {} => /\ Newest(snapshots) \in snapshots /\ Newest(snapshots).id \in Id
                                /\ NextMs(Newest(snapshots).id) \in Id
  <1>1. id \in Id /\ batch \subseteq Entry /\ \A m \in batch : m.id \in Id /\ m.nonce \in Nat
    BY DEF StreamInv, IdInv, TypeOK, Entry, Snapshot, Delta
  <1>2. deltas # {} => Newest(deltas) \in deltas /\ Newest(deltas).id \in Id
    BY NewestIsEntry DEF StreamInv, IdInv, TypeOK, Delta
  <1>3. snapshots # {} => Newest(snapshots) \in snapshots /\ Newest(snapshots).id \in Id
    BY NewestIsEntry DEF StreamInv, IdInv, TypeOK, Snapshot
  <1> QED
    BY <1>1, <1>2, <1>3 DEF NextMs, Id

\* A reader that does nothing falls behind, never ahead.
LEMMA StaysKnown ==
    ASSUME KnownInv, [Next]_vars, UNCHANGED readerVars
    PROVE  BatchKnown' /\ IdKnown'
  <1>1. /\ Advances(deltas, deltas') /\ Advances(snapshots, snapshots')
        /\ StreamInv /\ UNCHANGED <<phase, id, batch>>
    BY StreamsAdvance DEF KnownInv, readerVars
  <1>2. ASSUME NEW old, NEW new, Advances(old, new), NEW m \in batch, NotAhead(old, m),
               Newest(old) \in old /\ Newest(old).id \in Id
        PROVE  NotAhead(new, m)
    <2>1. CASE new = old
      BY <1>2, <2>1
    <2>2. CASE new # {} /\ Newest(new).id \in Id /\ \A e \in old : Before(e.id, Newest(new).id)
      <3>1. m.id \in Id
        BY <1>1, KnownIds
      <3>2. Before(Newest(old).id, Newest(new).id)
        BY <1>2, <2>2
      <3> QED
        BY <1>2, <2>2, <3>1, <3>2, IdOrder DEF NotAhead
    <2> QED
      BY <1>2, <2>1, <2>2 DEF Advances
  <1>3. BatchKnown'
    <2>1. \A m \in batch : NotAhead(deltas, m) => NotAhead(deltas', m)
      BY <1>1, <1>2, KnownIds DEF NotAhead
    <2>2. \A m \in batch : NotAhead(snapshots, m) => NotAhead(snapshots', m)
      BY <1>1, <1>2, KnownIds DEF NotAhead
    <2> QED
      BY <1>1, <2>1, <2>2 DEF KnownInv, BatchKnown, NotAhead
  <1>4. IdKnown'
    <2>1. CASE id = [ms |-> 0, seq |-> 0]
      BY <1>1, <2>1 DEF IdKnown
    <2>2. CASE deltas # {} /\ ~ Before(Newest(deltas).id, id)
      <3>1. CASE deltas' = deltas
        BY <1>1, <2>2, <3>1 DEF IdKnown
      <3>2. CASE deltas' # {} /\ Newest(deltas').id \in Id /\ Before(Newest(deltas).id, Newest(deltas').id)
        <4>1. ~ Before(Newest(deltas').id, id)
          BY <1>1, <2>2, <3>2, KnownIds, IdOrder
        <4> QED
          BY <1>1, <3>2, <4>1 DEF IdKnown
      <3> QED
        BY <1>1, <2>2, <3>1, <3>2, KnownIds DEF Advances
    <2>3. CASE snapshots # {} /\ ~ Before(NextMs(Newest(snapshots).id), id)
      <3>1. CASE snapshots' = snapshots
        BY <1>1, <2>3, <3>1 DEF IdKnown
      <3>2. CASE /\ snapshots' # {} /\ Newest(snapshots').id \in Id
                 /\ Before(Newest(snapshots).id, Newest(snapshots').id)
        <4>1. Newest(snapshots).id \in Id /\ id \in Id
          BY <1>1, <2>3, KnownIds
        <4>2. ~ Before(NextMs(Newest(snapshots').id), id)
          BY <2>3, <3>2, <4>1 DEF NextMs, Before, Id
        <4> QED
          BY <1>1, <3>2, <4>2 DEF IdKnown
      <3> QED
        BY <1>1, <2>3, <3>1, <3>2, KnownIds DEF Advances
    <2> QED
      BY <2>1, <2>2, <2>3 DEF KnownInv, IdKnown
  <1> QED
    BY <1>3, <1>4

\* The reader's own steps take their ids from the streams.
LEMMA ReadsKnown ==
    ASSUME KnownInv, Reader \/ RestartMagicbox
    PROVE  BatchKnown' /\ IdKnown'
  <1>1. UNCHANGED <<deltas, snapshots>> /\ StreamInv
    BY DEF KnownInv, Reader, LoadSnapshot, XRead, HandleNext, RestartMagicbox, redisVars
  <1>2. deltas \subseteq Delta /\ snapshots \subseteq Snapshot
    BY <1>1 DEF StreamInv, IdInv, TypeOK
  <1>3. CASE LoadSnapshot
    <2>1. batch' = {}
      BY <1>3 DEF LoadSnapshot, KnownInv, BatchKnown
    <2>2. CASE snapshots = {}
      BY <1>1, <1>3, <2>1, <2>2 DEF LoadSnapshot, KnownInv, BatchKnown, IdKnown
    <2>3. CASE snapshots # {}
      <3>1. id' = NextMs(Newest(snapshots).id) /\ id' \in Id
        BY <1>1, <1>3, <2>3, KnownIds DEF LoadSnapshot, NextMs
      <3>2. ~ Before(NextMs(Newest(snapshots).id), id')
        BY <3>1, IdOrder
      <3> QED
        BY <1>1, <2>1, <2>3, <3>2 DEF BatchKnown, IdKnown
    <2> QED
      BY <2>2, <2>3
  <1>4. CASE XRead
    <2>1. phase' = "listening" /\ id' = id /\ batch' \subseteq deltas \cup snapshots
      BY <1>4 DEF XRead, Unread
    <2>2. \A e \in deltas : e.type = "deltas" /\ NotAhead(deltas, e)
      <3>1. \A e \in deltas : e.type = "deltas"
        BY <1>2 DEF Delta
      <3>2. deltas \subseteq Entry /\ HasNewest(deltas) /\ Ordered(deltas)
        BY <1>1, <1>2 DEF StreamInv, IdInv, Numbered, Entry
      <3> QED
        BY <3>1, <3>2, BeforeNewest DEF NotAhead
    <2>3. \A e \in snapshots : e.type = "snapshot" /\ NotAhead(snapshots, e)
      <3>1. \A e \in snapshots : e.type = "snapshot"
        BY <1>2 DEF Snapshot
      <3>2. snapshots \subseteq Entry /\ HasNewest(snapshots) /\ Ordered(snapshots)
        BY <1>1, <1>2 DEF StreamInv, IdInv, Numbered, Entry
      <3> QED
        BY <3>1, <3>2, BeforeNewest DEF NotAhead
    <2>4. BatchKnown'
      BY <1>1, <2>1, <2>2, <2>3 DEF BatchKnown, NotAhead
    <2>5. IdKnown'
      BY <1>1, <2>1 DEF KnownInv, IdKnown
    <2> QED
      BY <2>4, <2>5
  <1>5. CASE HandleNext
    <2>1. PICK m \in batch : id' = m.id /\ batch' = batch \ {m} /\ phase' = phase
      BY <1>5 DEF HandleNext
    <2>2. m.id \in Id
      BY <1>1, KnownIds
    <2>3. BatchKnown'
      BY <1>1, <2>1 DEF KnownInv, BatchKnown, NotAhead
    <2>4. CASE m.type = "deltas" /\ NotAhead(deltas, m)
      <3>1. deltas # {} /\ ~ Before(Newest(deltas).id, m.id)
        BY <1>1, <2>2, <2>4, KnownIds, IdOrder DEF NotAhead
      <3> QED
        BY <1>1, <2>1, <2>3, <3>1 DEF IdKnown
    <2>5. CASE m.type = "snapshot" /\ NotAhead(snapshots, m)
      <3>1. snapshots # {} /\ ~ Before(Newest(snapshots).id, m.id) /\ Newest(snapshots).id \in Id
        BY <1>1, <2>2, <2>5, KnownIds, IdOrder DEF NotAhead
      <3>2. ~ Before(NextMs(Newest(snapshots).id), m.id)
        BY <2>2, <3>1 DEF NextMs, Before, Id
      <3> QED
        BY <1>1, <2>1, <2>3, <3>1, <3>2 DEF IdKnown
    <2> QED
      BY <2>1, <2>4, <2>5 DEF KnownInv, BatchKnown
  <1>6. CASE RestartMagicbox
    BY <1>6 DEF RestartMagicbox, BatchKnown, IdKnown
  <1> QED
    BY <1>3, <1>4, <1>5, <1>6 DEF Reader

LEMMA NextKnown == KnownInv /\ [Next]_vars => KnownInv'
  <1> SUFFICES ASSUME KnownInv, [Next]_vars PROVE KnownInv'
    OBVIOUS
  <1>1. StreamInv'
    BY NextStreamInv DEF KnownInv
  <1>2. UNCHANGED readerVars \/ Reader \/ RestartMagicbox
    BY StepCases DEF KnownInv, StreamInv, LoseWrite
  <1> QED
    BY <1>1, <1>2, StaysKnown, ReadsKnown DEF KnownInv

-----------------------------------------------------------------------------
(* Tracks is preserved. *)

\* What is known of healed streams.
LEMMA HealedFacts ==
    ASSUME StreamInv, Healed
    PROVE  /\ Len(delivered) \in Nat /\ snapshots # {} /\ Unbroken
           /\ Newest(snapshots) \in snapshots /\ Newest(snapshots) \in Snapshot
           /\ Newest(snapshots).id \in Id /\ Newest(snapshots).type = "snapshot"
           /\ Newest(snapshots).nonce \in 1..Len(delivered)
           /\ Newest(snapshots).levels = delivered[Newest(snapshots).nonce]
           /\ Since \subseteq deltas
           /\ \A e \in snapshots : /\ e.type = "snapshot" /\ e.id \in Id
                                   /\ e = Newest(snapshots) \/ Before(e.id, Newest(snapshots).id)
           /\ \A e \in deltas : /\ e.type = "deltas" /\ e.id \in Id
                                /\ e \in Since \/ Before(e.id, Newest(snapshots).id)
           /\ \A d \in Since : /\ d.nonce \in 1..Len(delivered) /\ d.nonce > Newest(snapshots).nonce
                               /\ Before(NextMs(Newest(snapshots).id), d.id)
                               /\ Before(Newest(snapshots).id, d.id)
                               /\ d.remove = delivered[d.nonce - 1] \ delivered[d.nonce]
                               /\ d.add = delivered[d.nonce] \ delivered[d.nonce - 1]
           /\ \A d, e \in Since : /\ Before(d.id, e.id) <=> d.nonce < e.nonce
                                  /\ d.nonce = e.nonce => d = e
  <1> DEFINE s == Newest(snapshots)
             n == Len(delivered)
  <1>1. n \in Nat /\ deltas \subseteq Delta /\ snapshots \subseteq Snapshot /\ snapshots # {}
    BY DEF StreamInv, IdInv, TypeOK, Healed, Unbroken
  <1>2. s \in snapshots
    BY <1>1, NewestIsEntry DEF StreamInv, IdInv
  <1>3. s.id \in Id /\ s.type = "snapshot" /\ s.nonce \in 1..n /\ s.levels = delivered[s.nonce]
    BY <1>1, <1>2 DEF Snapshot, StreamInv, Numbered, Contents, Published
  <1>4. ASSUME NEW e \in snapshots
        PROVE  e.type = "snapshot" /\ e.id \in Id /\ (e = s \/ Before(e.id, s.id))
    <2>1. e.type = "snapshot" /\ e.id \in Id
      BY <1>1 DEF Snapshot
    <2>2. snapshots \subseteq Entry /\ HasNewest(snapshots) /\ Ordered(snapshots)
      BY <1>1 DEF StreamInv, IdInv, Numbered, Entry
    <2> QED
      BY <1>1, <2>1, <2>2, BeforeNewest
  <1>5. \A e \in deltas : e.type = "deltas" /\ e.id \in Id /\ (e \in Since \/ Before(e.id, s.id))
    BY <1>1 DEF Delta, Healed, Spaced
  <1>6. Since \subseteq deltas /\ \A d \in Since : d.nonce > s.nonce
    BY DEF Since
  <1>7. \A d \in Since : Before(NextMs(s.id), d.id)
    BY DEF Healed, Spaced, NextMs
  <1>8. \A d \in Since : Before(s.id, d.id)
    BY <1>3, <1>5, <1>6, <1>7 DEF NextMs, Before, Id
  <1>9. \A d \in Since : /\ d.nonce \in 1..n
                         /\ d.remove = delivered[d.nonce - 1] \ delivered[d.nonce]
                         /\ d.add = delivered[d.nonce] \ delivered[d.nonce - 1]
    BY <1>6 DEF StreamInv, Numbered, Contents, Published
  <1>10. \A d, e \in Since : /\ Before(d.id, e.id) <=> d.nonce < e.nonce
                             /\ d.nonce = e.nonce => d = e
    BY <1>6 DEF StreamInv, Numbered, Ordered
  <1> QED
    BY <1>1, <1>2, <1>3, <1>4, <1>5, <1>6, <1>7, <1>8, <1>9, <1>10 DEF Healed

\* A snapshot that leaves the streams healed is one every reader still waits for.
LEMMA TracksSnapshot ==
    ASSUME ReaderInv, NEW book \in Book, WritesSnapshot(book), UNCHANGED readerVars, Healed'
    PROVE  Waiting'
  <1> DEFINE s == SnapshotOf(book)
             o == Newest(snapshots)
  <1>1. /\ StreamInv /\ BatchKnown /\ IdKnown /\ UNCHANGED <<id, batch, deltas>>
    BY DEF ReaderInv, KnownInv, readerVars, WritesSnapshot
  <1>2. /\ Newest(snapshots)' = s /\ Since' = {}
        /\ snapshots # {} => o \in snapshots'
        /\ s.id \in Id /\ s.id.ms > 0 /\ \A e \in snapshots : Before(e.id, s.id)
    <2>1. s.id.ms > 0 /\ \A e \in snapshots : Before(e.id, s.id)
      BY <1>1, WrittenTypes, WriteFacts
    <2>2. s.id \in Id
      BY <1>1, WrittenTypes DEF Snapshot
    <2> QED
      BY <1>1, <2>1, <2>2, SnapshotIsFresh
  <1>3. snapshots # {} => o \in snapshots /\ o.id \in Id /\ NextMs(o.id) \in Id /\ o # s
    BY <1>1, <1>2, KnownIds, IdOrder
  <1> HIDE DEF s, o
  <1>4. /\ \A e \in deltas : Before(e.id, s.id)
        /\ snapshots # {} => Before(NextMs(o.id), s.id)
    <2>1. Spaced'
      BY DEF Healed
    <2> QED
      BY <1>1, <1>2, <1>3, <2>1 DEF Spaced, NextMs
  <1>5. Before(id, s.id)
    <2>1. CASE id = [ms |-> 0, seq |-> 0]
      BY <1>2, <2>1 DEF Before, Id
    <2>2. CASE deltas # {} /\ ~ Before(Newest(deltas).id, id)
      BY <1>1, <1>2, <1>4, <2>2, KnownIds, IdOrder
    <2>3. CASE snapshots # {} /\ ~ Before(NextMs(o.id), id)
      BY <1>1, <1>2, <1>3, <1>4, <2>3, KnownIds, IdOrder
    <2> QED
      BY <1>1, <2>1, <2>2, <2>3 DEF IdKnown, o
  <1>6. ASSUME NEW m \in batch PROVE Before(m.id, s.id)
    <2>1. m.id \in Id
      BY <1>1, KnownIds
    <2>2. CASE NotAhead(deltas, m)
      BY <1>1, <1>2, <1>4, <2>1, <2>2, KnownIds, IdOrder DEF NotAhead
    <2>3. CASE NotAhead(snapshots, m)
      BY <1>2, <1>3, <2>1, <2>3, IdOrder DEF NotAhead, o
    <2> QED
      BY <1>1, <2>2, <2>3 DEF BatchKnown
  <1> QED
    BY <1>1, <1>2, <1>5, <1>6 DEF Waiting

\* A delta goes behind everything the reader has.
LEMMA TracksDelta ==
    ASSUME ReaderInv, NEW book \in Book, WritesDelta(book), UNCHANGED readerVars, Healed',
           phase = "listening"
    PROVE  Waiting' \/ Follows'
  <1> DEFINE s == Newest(snapshots)
             d == DeltaOf(book)
             n == Len(delivered)
             k == cached.nonce
  <1>1. StreamInv /\ TypeOK /\ IdKnown /\ UNCHANGED <<id, batch, cached, snapshots>>
    BY DEF ReaderInv, KnownInv, StreamInv, IdInv, readerVars, WritesDelta
  <1>2. /\ Newest(snapshots)' = s /\ Healed /\ Since' = Since \cup {d} /\ (Waiting \/ Follows)
    BY <1>1, DeltaKeeps DEF Healed, ReaderInv, Tracks
  <1>3. CASE Waiting
    BY <1>1, <1>2, <1>3 DEF Waiting
  <1>4. CASE Follows
    <2>1. /\ n \in Nat /\ s.nonce \in 1..n /\ s.id \in Id
          /\ \A e \in Since : e.nonce \in 1..n
      BY <1>1, <1>2, HealedFacts
    <2>2. d.nonce = n + 1 /\ d.id \in Id /\ d.id.ms > 0 /\ \A e \in deltas : Before(e.id, d.id)
      <3>1. d \in Entry /\ d.id = AutoId(deltas) /\ d.nonce = n + 1 /\ d.id \in Id
        BY <1>1, WrittenTypes DEF Delta
      <3> QED
        BY <1>1, <3>1, WriteFacts
    <2>3. Before(NextMs(s.id), d.id)
      <3>1. Spaced'
        BY DEF Healed
      <3> QED
        BY <1>2, <3>1 DEF Spaced, NextMs
    <2>4. k \in 1..n /\ delivered'[k] = delivered[k]
      <3>1. k \in 1..n
        BY <1>4, <2>1 DEF Follows
      <3> QED
        BY <1>1, <3>1, Grows DEF WritesDelta
    <2> HIDE DEF d, n
    <2>5. Before(id, d.id)
      <3>1. CASE id = [ms |-> 0, seq |-> 0]
        BY <2>2, <3>1 DEF Before, Id
      <3>2. CASE deltas # {} /\ ~ Before(Newest(deltas).id, id)
        BY <1>1, <2>2, <3>2, KnownIds, IdOrder
      <3>3. CASE snapshots # {} /\ ~ Before(NextMs(s.id), id)
        BY <1>1, <2>2, <2>3, <3>3, KnownIds, IdOrder
      <3> QED
        BY <1>1, <3>1, <3>2, <3>3 DEF IdKnown
    <2>6. k < d.nonce
      BY <2>1, <2>2, <2>4
    <2>7. \A m \in batch : m.nonce \in 1..n /\ ~ (d.nonce < m.nonce)
      BY <1>4, <2>1, <2>2 DEF Follows
    <2>8. Follows'
      BY <1>1, <1>2, <1>4, <2>4, <2>5, <2>6, <2>7 DEF Follows, Shows
    <2> QED
      BY <2>8
  <1> QED
    BY <1>2, <1>3, <1>4

\* A step of the gatherer that leaves the streams as they are.
LEMMA TracksUntouched ==
    ASSUME ReaderInv, UNCHANGED <<deltas, snapshots, lostNonce, readerVars>>,
           \A i \in 1..Len(delivered) : delivered'[i] = delivered[i]
    PROVE  Tracks'
  <1> SUFFICES ASSUME phase = "listening", Healed
               PROVE  Waiting' \/ Follows'
    BY DEF Tracks, Healed, Unbroken, Spaced, Since, readerVars
  <1>1. StreamInv /\ UNCHANGED <<id, batch, cached, deltas, snapshots>> /\ (Waiting \/ Follows)
    BY DEF ReaderInv, KnownInv, Tracks, readerVars
  <1>2. CASE Waiting
    BY <1>1, <1>2 DEF Waiting
  <1>3. CASE Follows
    <2>1. cached.nonce \in 1..Len(delivered)
      BY <1>1, <1>3, HealedFacts DEF Follows
    <2> QED
      BY <1>1, <1>3, <2>1 DEF Follows, Shows, Since
  <1> QED
    BY <1>1, <1>2, <1>3

\* A reader that starts from a healed snapshot follows from there.
LEMMA TracksLoad ==
    ASSUME ReaderInv, LoadSnapshot, Healed
    PROVE  Follows'
  <1> DEFINE s == Newest(snapshots)
  <1>1. StreamInv /\ UNCHANGED <<delivered, deltas, snapshots>> /\ batch' = {}
    BY DEF ReaderInv, KnownInv, BatchKnown, LoadSnapshot, gathererVars, redisVars
  <1>2. /\ snapshots # {} /\ s.type = "snapshot" /\ s.id \in Id
        /\ s.levels = delivered[s.nonce]
        /\ \A d \in Since : Before(NextMs(s.id), d.id) /\ s.nonce < d.nonce
    BY <1>1, HealedFacts
  <1>3. cached' = FromSnapshot(s) /\ id' = NextMs(s.id)
    BY <1>2 DEF LoadSnapshot, HandleOrderBookMessage, NextMs
  <1>4. ~ Before(NextMs(s.id), s.id)
    BY <1>2 DEF NextMs, Before, Id
  <1>5. cached'.nonce = s.nonce /\ Shows(delivered[s.nonce])'
    BY <1>1, <1>2, <1>3 DEF FromSnapshot, Shows
  <1>6. s' = s /\ Since' = Since
    BY <1>1 DEF Since
  <1> HIDE DEF s
  <1> QED
    BY <1>1, <1>2, <1>3, <1>4, <1>5, <1>6 DEF Follows, s, Shows

\* XREAD brings the snapshot the reader waits for, or exactly the deltas it lacks.
LEMMA TracksRead ==
    ASSUME ReaderInv, XRead, Healed
    PROVE  Waiting' \/ Follows'
  <1> DEFINE s == Newest(snapshots)
             k == cached.nonce
  <1>1. /\ StreamInv /\ (Waiting \/ Follows) /\ batch = {} /\ batch' = Unread
        /\ UNCHANGED <<delivered, deltas, snapshots, id, cached>>
    BY DEF ReaderInv, KnownInv, Tracks, XRead, gathererVars, redisVars
  <1>2. s' = s /\ Since' = Since
    BY <1>1 DEF Since
  <1>3. CASE Waiting
    <2>1. Before(id, s.id) /\ s \in snapshots
      BY <1>1, <1>3, HealedFacts DEF Waiting
    <2>2. s \in batch'
      BY <1>1, <2>1 DEF Unread
    <2> QED
      BY <1>2, <2>2 DEF Waiting
  <1>4. CASE Follows
    <2>1. id \in Id /\ ~ Before(id, s.id) /\ s.id \in Id
      BY <1>1, <1>4, KnownIds, HealedFacts DEF Follows
    <2>2. ASSUME NEW e \in Unread PROVE e \in Since /\ k < e.nonce
      <3>1. Before(id, e.id) /\ e.id \in Id /\ ~ (e = s \/ Before(e.id, s.id))
        <4>1. Before(id, e.id) /\ e.id \in Id
          BY <1>1, HealedFacts DEF Unread
        <4> QED
          BY <2>1, <4>1, IdOrder
      <3>2. e \in Since
        BY <1>1, <3>1, HealedFacts DEF Unread
      <3> QED
        BY <1>4, <3>1, <3>2 DEF Follows
    <2>3. ASSUME NEW e \in Since, k < e.nonce PROVE e \in Unread
      BY <1>1, <1>4, <2>3, HealedFacts DEF Follows, Unread
    <2>4. Follows'
      BY <1>1, <1>2, <1>4, <2>2, <2>3 DEF Follows, Shows
    <2> QED
      BY <2>4
  <1> QED
    BY <1>1, <1>3, <1>4

\* The snapshot is handled after everything else in the batch; the deltas are handled
\* in order, each on the book it was made from.
LEMMA TracksHandle ==
    ASSUME ReaderInv, HandleNext, Healed
    PROVE  Waiting' \/ Follows'
  <1> DEFINE s == Newest(snapshots)
             k == cached.nonce
             n == Len(delivered)
  <1>1. /\ StreamInv /\ TypeOK /\ BatchKnown /\ phase = "listening"
        /\ UNCHANGED <<delivered, deltas, snapshots>>
    <2>1. batch # {} /\ UNCHANGED <<delivered, deltas, snapshots>>
      BY DEF HandleNext, gathererVars, redisVars
    <2> QED
      BY <2>1 DEF ReaderInv, KnownInv, StreamInv, IdInv, TypeOK, BatchKnown
  <1>2. s' = s /\ Since' = Since /\ (Waiting \/ Follows)
    BY <1>1 DEF Since, ReaderInv, Tracks
  <1>3. PICK m \in batch : /\ \A e \in batch : ~ Precedes(e, m)
                           /\ HandleOrderBookMessage(m)
                           /\ id' = m.id /\ batch' = batch \ {m}
    BY DEF HandleNext
  <1>4. /\ n \in Nat /\ snapshots # {} /\ s \in snapshots /\ s.type = "snapshot" /\ s.id \in Id
        /\ s.nonce \in 1..n /\ s.levels = delivered[s.nonce]
        /\ \A d \in Since : Before(s.id, d.id) /\ s.nonce < d.nonce
    BY <1>1, HealedFacts
  <1>5. \A e \in batch : e.id \in Id
    BY <1>1, KnownIds
  <1>6. CASE s \in batch /\ m # s
    BY <1>2, <1>3, <1>6 DEF Waiting
  <1>7. CASE m = s
    <2>1. batch' = {}
      <3> SUFFICES ASSUME NEW e \in batch, e # s PROVE FALSE
        BY <1>3, <1>7
      <3>1. ~ (e.type = "deltas") /\ ~ (e.type = "snapshot" /\ Before(e.id, s.id))
        BY <1>3, <1>4, <1>7 DEF Precedes
      <3> QED
        BY <1>1, <3>1 DEF BatchKnown, NotAhead
    <2>2. cached' = FromSnapshot(s)
      BY <1>3, <1>4, <1>7 DEF HandleOrderBookMessage
    <2>3. cached'.nonce = s.nonce /\ cached'.copies = [l \in Level |-> IF l \in delivered[s.nonce] THEN 1 ELSE 0]
      BY <1>4, <2>2 DEF FromSnapshot
    <2>4. ~ Before(s.id, s.id)
      BY <1>4, IdOrder
    <2>5. Follows'
      BY <1>1, <1>2, <1>3, <1>4, <1>7, <2>1, <2>3, <2>4 DEF Follows, Shows
    <2> QED
      BY <2>5
  <1>8. CASE Before(id, s.id) /\ \A e \in batch : Before(e.id, s.id)
    BY <1>2, <1>3, <1>8 DEF Waiting
  <1>9. CASE Follows
    <2>1. m \in Since /\ k < m.nonce /\ k \in s.nonce..n /\ m.nonce \in 1..n
      <3>1. k \in {s.nonce} \cup {d.nonce : d \in Since} /\ m \in Since /\ k < m.nonce
        BY <1>9 DEF Follows
      <3> QED
        BY <1>1, <1>4, <3>1, HealedFacts
    <2>2. \A e \in batch : e \in Since /\ e.type = "deltas" /\ k < e.nonce
      BY <1>1, <1>9, HealedFacts DEF Follows
    <2>3. \A e \in batch : e = m \/ m.nonce < e.nonce
      <3> SUFFICES ASSUME NEW e \in batch
                   PROVE  e = m \/ m.nonce < e.nonce
        OBVIOUS
      <3>1. ~ Before(e.id, m.id)
        BY <1>3, <2>2 DEF Precedes
      <3>2. ~ (e.nonce < m.nonce) /\ (e.nonce = m.nonce => e = m) /\ e.nonce \in Nat /\ m.nonce \in Nat
        BY <1>1, <2>1, <2>2, <3>1, HealedFacts
      <3> QED
        BY <3>2
    <2>4. delivered[k] = delivered[m.nonce - 1]
      <3>1. m.nonce - 1 \in s.nonce..n /\ k <= m.nonce - 1
        BY <1>4, <2>1
      <3>2. Quiet(k, m.nonce - 1)
        <4> SUFFICES ASSUME NEW d \in Since, k < d.nonce, d.nonce <= m.nonce - 1
                     PROVE  FALSE
          BY DEF Quiet
        <4>1. d.nonce \in Nat /\ m.nonce \in Nat
          BY <1>1, <2>1, HealedFacts
        <4>2. d.nonce < m.nonce
          BY <4>1
        <4>3. d \in batch
          BY <1>9, <4>2 DEF Follows
        <4> QED
          BY <2>3, <4>1, <4>2, <4>3
      <3>3. Chained /\ Unbroken
        BY <1>1 DEF StreamInv, Healed
      <3> QED
        BY <2>1, <3>1, <3>2, <3>3 DEF Chained
    <2>5. cached' = ApplyDelta(cached, m)
      <3>1. k # 0
        BY <1>4, <2>1
      <3>2. cached # NoCached
        BY <3>1 DEF NoCached
      <3> QED
        BY <1>3, <2>2, <3>2 DEF HandleOrderBookMessage
    <2>6. m.remove = delivered[k] \ delivered[m.nonce] /\ m.add = delivered[m.nonce] \ delivered[k]
      BY <1>1, <2>1, <2>4, HealedFacts
    <2>7. /\ cached'.nonce = m.nonce
          /\ cached'.copies = [l \in Level |-> IF l \in delivered[m.nonce] THEN 1 ELSE 0]
      <3>1. cached.copies = [l \in Level |-> IF l \in delivered[k] THEN 1 ELSE 0]
        BY <1>9 DEF Follows, Shows
      <3>2. \A l \in Level : (IF l \in m.remove THEN 0 ELSE cached.copies[l])
                              + (IF l \in m.add THEN 1 ELSE 0)
                             = IF l \in delivered[m.nonce] THEN 1 ELSE 0
        BY <2>6, <3>1
      <3> QED
        BY <2>5, <3>2 DEF ApplyDelta
    <2>8. ~ Before(m.id, s.id)
      BY <1>4, <1>5, <2>1, IdOrder
    <2>9. \A d \in Since : Before(m.id, d.id) <=> m.nonce < d.nonce
      BY <1>1, <2>1, HealedFacts
    <2>10. batch' \subseteq {d \in Since : m.nonce < d.nonce}
      BY <1>3, <2>2, <2>3
    <2>11. ASSUME NEW e \in batch', NEW d \in Since, m.nonce < d.nonce, d.nonce < e.nonce
           PROVE  d \in batch'
      <3>1. d.nonce \in Nat /\ m.nonce \in Nat /\ k \in Nat
        BY <1>1, <1>4, <2>1, HealedFacts
      <3>2. k < d.nonce
        BY <2>1, <2>11, <3>1
      <3>3. d \in batch /\ d # m
        BY <1>3, <1>9, <2>11, <3>1, <3>2 DEF Follows
      <3> QED
        BY <1>3, <3>3
    <2>12. Follows'
      <3>1. cached'.nonce \in {s.nonce} \cup {d.nonce : d \in Since}
        BY <2>1, <2>7
      <3>2. Shows(delivered[cached.nonce])'
        BY <1>1, <2>7 DEF Shows
      <3> QED
        BY <1>1, <1>2, <1>3, <2>7, <2>8, <2>9, <2>10, <2>11, <3>1, <3>2 DEF Follows
    <2> QED
      BY <2>12
  <1> QED
    BY <1>2, <1>6, <1>7, <1>8, <1>9 DEF Waiting

LEMMA NextTracks == ReaderInv /\ [Next]_vars => Tracks'
  <1> SUFFICES ASSUME ReaderInv, [Next]_vars, phase' = "listening", Healed'
               PROVE  Waiting' \/ Follows'
    BY DEF Tracks
  <1>1. StreamInv /\ IdInv /\ TypeOK /\ StreamInv' /\ IdInv'
    BY NextStreamInv DEF ReaderInv, KnownInv, StreamInv, IdInv
  <1>2. ASSUME NEW book \in Book, UNCHANGED readerVars,
               WritesSnapshot(book) \/ WritesDelta(book) \/ WritesNothing(book)
        PROVE  Waiting' \/ Follows'
    <2>1. phase = "listening"
      BY <1>2 DEF readerVars
    <2>2. CASE WritesSnapshot(book)
      BY <1>2, <2>2, TracksSnapshot
    <2>3. CASE WritesDelta(book)
      BY <1>2, <2>1, <2>3, TracksDelta
    <2>4. CASE WritesNothing(book)
      <3>1. Tracks'
        BY <1>1, <1>2, <2>4, Grows, TracksUntouched DEF WritesNothing
      <3> QED
        BY <3>1 DEF Tracks
    <2> QED
      BY <1>2, <2>2, <2>3, <2>4
  <1>3. ASSUME NEW book \in Book, LoseWrite(book) PROVE FALSE
    BY <1>1, <1>3, WriteLost DEF Healed
  <1>4. ASSUME UNCHANGED <<delivered, deltas, snapshots, lostNonce>>,
               Reader \/ RestartMagicbox \/ UNCHANGED readerVars
        PROVE  Waiting' \/ Follows'
    <2>1. Healed
      BY <1>4 DEF Healed, Unbroken, Spaced, Since
    <2>2. CASE LoadSnapshot
      BY <2>1, <2>2, TracksLoad
    <2>3. CASE XRead
      BY <2>1, <2>3, TracksRead
    <2>4. CASE HandleNext
      BY <2>1, <2>4, TracksHandle
    <2>5. CASE RestartMagicbox
      BY <2>5 DEF RestartMagicbox
    <2>6. CASE UNCHANGED readerVars
      <3>1. Tracks'
        BY <1>4, <2>6, TracksUntouched
      <3> QED
        BY <3>1 DEF Tracks
    <2> QED
      BY <1>4, <2>2, <2>3, <2>4, <2>5, <2>6 DEF Reader
  <1> QED
    BY <1>1, <1>2, <1>3, <1>4, StepCases

LEMMA InitReaderInv == Init => ReaderInv
  <1> SUFFICES ASSUME Init PROVE ReaderInv
    OBVIOUS
  <1>1. StreamInv
    BY InitStreamInv
  <1>2. BatchKnown /\ IdKnown /\ Tracks
    BY DEF Init, BatchKnown, IdKnown, Tracks
  <1> QED
    BY <1>1, <1>2 DEF ReaderInv, KnownInv

LEMMA NextReaderInv == ReaderInv /\ [Next]_vars => ReaderInv'
  BY NextKnown, NextTracks DEF ReaderInv

\* A reader past the newest snapshot holds the very book its copy is numbered as.
LEMMA FollowsIsGenuine ==
    ASSUME StreamInv, Healed, Follows
    PROVE  Genuine
  <1>1. cached.nonce \in 1..Len(delivered)
    BY HealedFacts DEF Follows
  <1> QED
    BY <1>1 DEF Follows, Genuine, Shows

\* The snapshot a reader waits for is in its batch, or XREAD will bring it.
LEMMA WaitingIsSent ==
    ASSUME StreamInv, Healed, Waiting
    PROVE  /\ Newest(snapshots).type = "snapshot"
           /\ Newest(snapshots) \in batch \cup Unread
  BY HealedFacts DEF Waiting, Unread

\* With nothing left to read, a reader past the newest snapshot is at the last entry.
LEMMA RestIsNewest ==
    ASSUME StreamInv, Healed, Follows, AtRest
    PROVE  cached.nonce = NewestNonce
  <1> DEFINE s == Newest(snapshots)
             k == cached.nonce
  <1>1. /\ Len(delivered) \in Nat /\ s \in snapshots /\ s.nonce \in 1..Len(delivered)
        /\ \A d \in Since : d \in deltas /\ d.nonce \in 1..Len(delivered) /\ s.nonce < d.nonce
    BY HealedFacts
  <1>2. \A d \in Since : ~ (k < d.nonce)
    BY <1>1 DEF AtRest, Unread, Follows
  <1>3. k \in {s.nonce} \cup {d.nonce : d \in Since} /\ k \in Nat /\ s.nonce <= k
    BY <1>1 DEF Follows
  <1>4. \A e \in Published : e.nonce \in Nat
    BY DEF StreamInv, Numbered, Published
  <1>5. ASSUME NEW e \in snapshots PROVE e.nonce <= k
    <2>1. e.nonce <= s.nonce
      <3>1. ~ Before(s.id, e.id)
        BY <1>1, NewestIsEntry DEF StreamInv, IdInv
      <3> QED
        BY <1>1, <1>4, <3>1 DEF StreamInv, Numbered, Ordered, Published
    <2> QED
      BY <1>1, <1>3, <1>4, <2>1 DEF Published
  <1>6. ASSUME NEW e \in deltas PROVE e.nonce <= k
    <2>1. e \in Since \/ ~ (e.nonce > s.nonce)
      BY DEF Since
    <2>2. e.nonce \in Nat
      BY <1>4 DEF Published
    <2> QED
      BY <1>1, <1>2, <1>3, <2>1, <2>2
  <1>7. PICK x \in Published : x.nonce = k
    BY <1>1, <1>3 DEF Published
  <1>8. \A f \in Published : f.nonce <= x.nonce
    BY <1>5, <1>6, <1>7 DEF Published
  <1> DEFINE top == CHOOSE e \in Published : \A f \in Published : f.nonce <= e.nonce
  <1>9. top \in Published /\ \A f \in Published : f.nonce <= top.nonce
    BY <1>8
  <1>10. NewestNonce = top.nonce
    BY DEF NewestNonce
  <1> HIDE DEF top
  <1> QED
    BY <1>4, <1>7, <1>8, <1>9, <1>10

\* Deltas may be applied to a book they do not belong to (a batch lists its deltas
\* before its snapshots, entries are trimmed or lost, workers restart): whenever the
\* streams are healed and the reader's book is not a book the exchange delivered, a
\* snapshot that replaces it is in the batch or unread.
THEOREM SpoiltOnlyBefore == Spec => []SpoiltOnlyBeforeSnapshot
  <1>1. ReaderInv => SpoiltOnlyBeforeSnapshot
    <2> SUFFICES ASSUME ReaderInv, phase = "listening", Healed, ~ Genuine
                 PROVE  \E e \in batch \cup Unread : e.type = "snapshot"
      BY DEF SpoiltOnlyBeforeSnapshot
    <2>1. StreamInv /\ (Waiting \/ Follows)
      BY DEF ReaderInv, KnownInv, Tracks
    <2>2. Waiting
      BY <2>1, FollowsIsGenuine
    <2> QED
      BY <2>1, <2>2, WaitingIsSent
  <1> QED
    BY <1>1, InitReaderInv, NextReaderInv, PTL DEF Spec

\* The reader repairs itself: once the newest snapshot and the deltas behind it are
\* spaced and retained, a reader with nothing left to read holds exactly the book
\* published last, whatever it or the gatherer missed before.
THEOREM CaughtUpCurrent == Spec => []CaughtUpIsCurrent
  <1>1. ReaderInv => CaughtUpIsCurrent
    <2> SUFFICES ASSUME ReaderInv, AtRest, Healed
                 PROVE  Current
      BY DEF CaughtUpIsCurrent
    <2>1. StreamInv /\ (Waiting \/ Follows)
      BY DEF ReaderInv, KnownInv, Tracks, AtRest
    <2>2. Follows
      BY <2>1, WaitingIsSent DEF AtRest
    <2> QED
      BY <2>1, <2>2, FollowsIsGenuine, RestIsNewest DEF Current
  <1> QED
    BY <1>1, InitReaderInv, NextReaderInv, PTL DEF Spec
=============================================================================
