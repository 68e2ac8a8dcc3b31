----------------------------- MODULE DbSync_proofs -----------------------------
(***************************************************************************)
(* Proofs about DbSync for any lists of any workers, any rows and messages,*)
(* every trim size, and every number of restarts and faults.               *)
(***************************************************************************)
EXTENDS DbSync, FiniteSetTheorems, TLAPS

-----------------------------------------------------------------------------
(* Type correctness *)

StateOK(s) ==
    /\ s \in ReaderState
    /\ s.pc = "storing" =>
          /\ s.next \in 1..s.upto /\ s.upto <= Len(log)
          /\ s.row \in 1..(IF log[s.next] = 0 THEN 1 ELSE log[s.next])

LogType == log \in Seq(0..MaxRows) /\ Len(log) \in 0..MaxMessages

StreamType ==
    /\ LogType
    /\ bad \subseteq 1..Len(log)
    /\ first \in 1..(Len(log) + 1)
    /\ gone \subseteq 1..Len(log)

CountType ==
    /\ copies \in [Message -> [Row -> Nat]]
    /\ failedIn \in [Message -> Nat]
    /\ up \subseteq Worker /\ begun \in Nat /\ faults \in Nat

ReadersType == reader \in [Reader -> ReaderState] /\ \A r \in Reader : StateOK(reader[r])

LEMMA TypeParts ==
    /\ TypeOK <=> StreamType /\ CountType /\ ReadersType
    /\ TypeOK' <=> StreamType' /\ CountType' /\ ReadersType'
  BY DEF TypeOK, StreamType, LogType, CountType, ReadersType, StateOK, Storing

LEMMA Entries ==
    ASSUME NEW S, NEW q \in Seq(S)
    PROVE  Len(q) \in Nat /\ \A i \in 1..Len(q) : q[i] \in S
  OBVIOUS

LEMMA LogEntries ==
    ASSUME LogType
    PROVE  Len(log) \in Nat /\ \A m \in 1..Len(log) : log[m] \in 0..MaxRows /\ log[m] \in Nat
  <1>1. Len(log) \in Nat /\ \A m \in 1..Len(log) : log[m] \in 0..MaxRows
    BY Entries DEF LogType
  <1>2. \A n \in 0..MaxRows : n \in Nat
    OBVIOUS
  <1> QED
    BY <1>1, <1>2

LEMMA ReadingType ==
    ASSUME NEW i \in Nat
    PROVE  /\ Reading(i) \in ReaderState /\ StateOK(Reading(i))
           /\ Reading(i).id = i /\ Reading(i).pc = "reading"
  BY DEF Reading, ReaderState, StateOK

LEMMA DownType == Down \in ReaderState /\ StateOK(Down) /\ Down.id = 0 /\ Down.pc = "down"
  BY DEF Down, ReaderState, StateOK

LEMMA CappedType ==
    ASSUME NEW n \in Nat
    PROVE  Capped(n) \in Nat /\ Capped(n) > 0 /\ Capped(n) >= n
  BY BoundsAssumption DEF Capped

\* What the reader does after a row, in the three cases.
LEMMA AfterRowCases ==
    ASSUME LogType, NEW s \in ReaderState, s.pc = "storing", StateOK(s)
    PROVE  /\ s.row < log[s.next] =>
                 /\ AfterRow(s).pc = "storing" /\ AfterRow(s).id = s.id
                 /\ AfterRow(s).next = s.next /\ AfterRow(s).upto = s.upto
                 /\ AfterRow(s).row = s.row + 1
           /\ ~ s.row < log[s.next] /\ s.next < s.upto =>
                 /\ AfterRow(s).pc = "storing" /\ AfterRow(s).id = s.next
                 /\ AfterRow(s).next = s.next + 1 /\ AfterRow(s).upto = s.upto
                 /\ AfterRow(s).row = 1
           /\ ~ s.row < log[s.next] /\ ~ s.next < s.upto => AfterRow(s) = Reading(s.next)
           /\ AfterRow(s) \in ReaderState
  <1>1. s.next \in Nat /\ s.row \in Nat /\ s.row + 1 \in Nat /\ s.next + 1 \in Nat
    BY DEF ReaderState
  <1>2. ASSUME s.row < log[s.next]
        PROVE  /\ AfterRow(s).pc = "storing" /\ AfterRow(s).id = s.id
               /\ AfterRow(s).next = s.next /\ AfterRow(s).upto = s.upto
               /\ AfterRow(s).row = s.row + 1
               /\ AfterRow(s) \in ReaderState
    <2>1. AfterRow(s) = [s EXCEPT !.row = s.row + 1]
      BY <1>2 DEF AfterRow
    <2> QED
      BY <1>1, <2>1 DEF ReaderState
  <1>3. ASSUME ~ s.row < log[s.next], s.next < s.upto
        PROVE  /\ AfterRow(s).pc = "storing" /\ AfterRow(s).id = s.next
               /\ AfterRow(s).next = s.next + 1 /\ AfterRow(s).upto = s.upto
               /\ AfterRow(s).row = 1
               /\ AfterRow(s) \in ReaderState
    <2>1. AfterRow(s) = [s EXCEPT !.id = s.next, !.next = s.next + 1, !.row = 1]
      BY <1>3 DEF AfterRow
    <2>2. AfterRow(s) = [pc |-> "storing", id |-> s.next, next |-> s.next + 1,
                         upto |-> s.upto, row |-> 1]
      BY <2>1 DEF ReaderState
    <2>3. s.upto \in Nat
      BY DEF ReaderState
    <2> QED
      BY <1>1, <2>2, <2>3 DEF ReaderState
  <1>4. ASSUME ~ s.row < log[s.next], ~ s.next < s.upto
        PROVE  AfterRow(s) = Reading(s.next) /\ AfterRow(s) \in ReaderState
    <2>1. AfterRow(s) = Reading(s.next)
      BY <1>4 DEF AfterRow
    <2>2. Reading(s.next) \in ReaderState
      BY <1>1, ReadingType
    <2> QED
      BY <2>1, <2>2
  <1> QED
    BY <1>2, <1>3, <1>4

LEMMA AfterRowType ==
    ASSUME LogType, NEW s \in ReaderState, s.pc = "storing", StateOK(s)
    PROVE  StateOK(AfterRow(s))
  <1>1. /\ s.next \in 1..s.upto /\ s.upto \in Nat /\ s.upto <= Len(log) /\ s.row \in Nat
        /\ Len(log) \in Nat /\ \A m \in 1..Len(log) : log[m] \in Nat
    BY LogEntries DEF StateOK, ReaderState
  <1>2. AfterRow(s) \in ReaderState
    BY AfterRowCases
  <1>3. CASE s.row < log[s.next]
    <2>1. log[s.next] \in Nat /\ s.row + 1 \in 1..log[s.next] /\ log[s.next] # 0
      BY <1>1, <1>3 DEF StateOK
    <2> QED
      BY <1>1, <1>2, <1>3, <2>1, AfterRowCases DEF StateOK
  <1>4. CASE ~ s.row < log[s.next] /\ s.next < s.upto
    <2>1. s.next + 1 \in 1..s.upto /\ log[s.next + 1] \in Nat
      BY <1>1, <1>4
    <2> QED
      BY <1>1, <1>2, <1>4, <2>1, AfterRowCases DEF StateOK
  <1>5. CASE ~ s.row < log[s.next] /\ ~ s.next < s.upto
    BY <1>1, <1>5, AfterRowCases, ReadingType
  <1> QED
    BY <1>3, <1>4, <1>5

\* The reply to XREAD.
ReplyState(s, oldest) ==
    [s EXCEPT !.pc = "storing", !.next = oldest, !.upto = Len(log), !.row = 1]

LEMMA ReplyType ==
    ASSUME LogType, NEW s \in ReaderState, NEW oldest \in 1..Len(log)
    PROVE  /\ StateOK(ReplyState(s, oldest))
           /\ ReplyState(s, oldest).pc = "storing" /\ ReplyState(s, oldest).id = s.id
           /\ ReplyState(s, oldest).next = oldest /\ ReplyState(s, oldest).row = 1
           /\ ReplyState(s, oldest).upto = Len(log)
  <1>1. Len(log) \in Nat /\ log[oldest] \in Nat /\ oldest \in Nat
    BY LogEntries
  <1>2. ReplyState(s, oldest) \in ReaderState
    BY <1>1 DEF ReplyState, ReaderState
  <1>3. /\ ReplyState(s, oldest).pc = "storing" /\ ReplyState(s, oldest).id = s.id
        /\ ReplyState(s, oldest).next = oldest /\ ReplyState(s, oldest).row = 1
        /\ ReplyState(s, oldest).upto = Len(log)
    BY DEF ReplyState, ReaderState
  <1> QED
    BY <1>1, <1>2, <1>3 DEF StateOK

LEMMA OneReaderType ==
    ASSUME ReadersType, UNCHANGED log, NEW r \in Reader, NEW s, StateOK(s),
           reader' = [reader EXCEPT ![r] = s]
    PROVE  ReadersType'
  <1>1. s \in ReaderState
    BY DEF StateOK
  <1>2. \A v \in Reader : StateOK(reader[v])'  <=> StateOK(reader'[v])
    BY DEF StateOK
  <1>3. \A v \in Reader : reader'[v] = IF v = r THEN s ELSE reader[v]
    BY <1>1 DEF ReadersType
  <1> QED
    BY <1>1, <1>2, <1>3 DEF ReadersType

\* One more row k of message m is stored.
OneMore(m, k) == copies' = [copies EXCEPT ![m][k] = Capped(copies[m][k])]

LEMMA CopiesType ==
    ASSUME CountType, NEW m \in Message, NEW k \in Row, OneMore(m, k)
    PROVE  /\ copies' \in [Message -> [Row -> Nat]]
           /\ copies'[m][k] > 0
           /\ \A n \in Message, i \in Row :
                 /\ copies'[n][i] >= copies[n][i]
                 /\ n # m \/ i # k => copies'[n][i] = copies[n][i]
  <1>1. copies \in [Message -> [Row -> Nat]] /\ copies[m] \in [Row -> Nat] /\ copies[m][k] \in Nat
    BY DEF CountType
  <1>2. Capped(copies[m][k]) \in Nat /\ Capped(copies[m][k]) > 0
        /\ Capped(copies[m][k]) >= copies[m][k]
    BY <1>1, CappedType
  <1>3. copies' = [copies EXCEPT ![m] = [copies[m] EXCEPT ![k] = Capped(copies[m][k])]]
    BY DEF OneMore
  <1>4. /\ copies' \in [Message -> [Row -> Nat]]
        /\ copies'[m] = [copies[m] EXCEPT ![k] = Capped(copies[m][k])]
        /\ \A n \in Message : n # m => copies'[n] = copies[n]
    BY <1>1, <1>2, <1>3
  <1>5. \A n \in Message, i \in Row : copies[n][i] \in Nat
    BY <1>1
  <1> QED
    BY <1>1, <1>2, <1>4, <1>5

LEMMA FailedType ==
    ASSUME CountType, NEW m \in Message, failedIn' = [failedIn EXCEPT ![m] = Capped(failedIn[m])]
    PROVE  failedIn' \in [Message -> Nat]
  <1>1. failedIn \in [Message -> Nat] /\ failedIn[m] \in Nat
    BY DEF CountType
  <1> QED
    BY <1>1, CappedType

\* A reader that stores has a message of the stream, and one of its rows.
LEMMA StoringMessage ==
    ASSUME TypeOK, NEW r \in Reader, Storing(r)
    PROVE  /\ LogType /\ reader[r] \in ReaderState /\ StateOK(reader[r])
           /\ reader[r].pc = "storing"
           /\ reader[r].next \in 1..Len(log) /\ reader[r].next \in Message
           /\ reader[r].row \in Nat \ {0}
           /\ reader[r].row <= log[reader[r].next] =>
                 /\ reader[r].row \in Row
                 /\ log[reader[r].next] \in 0..MaxRows
           /\ reader[r].id \in Nat
  <1>1. /\ LogType /\ reader[r] \in ReaderState /\ StateOK(reader[r])
        /\ reader[r].pc = "storing"
    BY TypeParts DEF StreamType, ReadersType, Storing
  <1>2. Len(log) \in 0..MaxMessages /\ MaxMessages \in Nat /\ MaxRows \in Nat
    BY <1>1, BoundsAssumption DEF LogType
  <1>3. reader[r].next \in 1..reader[r].upto /\ reader[r].upto \in Nat /\ reader[r].upto <= Len(log)
        /\ reader[r].id \in Nat
    BY <1>1 DEF StateOK, ReaderState
  <1>4. reader[r].next \in 1..Len(log) /\ reader[r].next \in Message
    BY <1>2, <1>3 DEF Message
  <1>5. log[reader[r].next] \in 0..MaxRows
    BY <1>1, <1>4, LogEntries
  <1>6. reader[r].row \in Nat \ {0}
    BY <1>1, <1>5 DEF StateOK
  <1> QED
    BY <1>1, <1>2, <1>3, <1>4, <1>5, <1>6 DEF Row

LEMMA BreakOffType ==
    ASSUME TypeOK, NEW r \in Reader, Storing(r), BreakOff(r), UNCHANGED log
    PROVE  ReadersType' /\ failedIn' \in [Message -> Nat]
  <1>1. /\ reader' = [reader EXCEPT ![r] = Reading(reader[r].id)]
        /\ failedIn' = [failedIn EXCEPT ![reader[r].next] = Capped(failedIn[reader[r].next])]
    BY DEF BreakOff, RestartMessage
  <1>2. StateOK(Reading(reader[r].id))
    BY StoringMessage, ReadingType
  <1>3. reader[r].next \in Message
    BY StoringMessage
  <1> QED
    BY <1>1, <1>2, <1>3, OneReaderType, FailedType, TypeParts

LEMMA TypeInit == Init => TypeOK
  <1> SUFFICES ASSUME Init
               PROVE  TypeOK
    OBVIOUS
  <1>1. log = <<>> /\ Len(log) = 0 /\ log \in Seq(0..MaxRows)
    BY DEF Init
  <1>2. StreamType
    BY <1>1, BoundsAssumption DEF Init, StreamType, LogType
  <1>3. CountType
    BY DEF Init, CountType
  <1>4. ReadersType
    BY DownType DEF Init, ReadersType, StateOK
  <1> QED
    BY <1>2, <1>3, <1>4, TypeParts

LEMMA PublishType ==
    ASSUME TypeOK, NEW n \in 0..MaxRows, NEW unstorable \in BOOLEAN, Publish(n, unstorable)
    PROVE  /\ TypeOK'
           /\ Len(log') = Len(log) + 1 /\ \A m \in 1..Len(log) : log'[m] = log[m]
           /\ first' \in 1..(Len(log) + 1)
  <1> DEFINE oldest == IF Len(log) + 1 > TrimSize THEN Len(log) + 2 - TrimSize ELSE 1
  <1>1. log \in Seq(0..MaxRows) /\ Len(log) \in Nat /\ MaxMessages \in Nat
    BY TypeParts, BoundsAssumption DEF StreamType, LogType
  <1>2. /\ Len(log) < MaxMessages /\ log' = Append(log, n) /\ first' = oldest
        /\ bad' = (IF unstorable THEN bad \cup {Len(log) + 1} ELSE bad)
        /\ gone' = gone \cup {m \in first..(oldest - 1) : ~ Whole(m)}
        /\ UNCHANGED <<copies, up, reader, failedIn, begun, faults>>
    BY DEF Publish, boundVars
  <1>3. /\ log' \in Seq(0..MaxRows) /\ Len(log') = Len(log) + 1
        /\ \A m \in 1..Len(log) : log'[m] = log[m]
    BY <1>1, <1>2
  <1>4. oldest \in 1..(Len(log) + 1)
    BY <1>1, BoundsAssumption
  <1> HIDE DEF oldest
  <1>5. /\ bad \subseteq 1..Len(log) /\ gone \subseteq 1..Len(log) /\ first \in 1..(Len(log) + 1)
        /\ CountType /\ ReadersType
    BY TypeParts DEF StreamType
  <1>6. StreamType'
    <2>1. LogType'
      BY <1>1, <1>2, <1>3 DEF LogType
    <2>0. /\ \A m \in 1..Len(log) : m \in 1..Len(log')
          /\ Len(log) + 1 \in 1..Len(log')
          /\ \A m \in 1..(oldest - 1) : m \in 1..Len(log')
          /\ first..(oldest - 1) \subseteq 1..(oldest - 1)
      BY <1>1, <1>3, <1>4, <1>5
    <2>2. bad' \subseteq 1..Len(log')
      BY <1>2, <1>5, <2>0
    <2>3. first' \in 1..(Len(log') + 1)
      BY <1>1, <1>2, <1>3, <1>4
    <2>4. gone' \subseteq 1..Len(log')
      BY <1>2, <1>5, <2>0
    <2> QED
      BY <2>1, <2>2, <2>3, <2>4 DEF StreamType
  <1>7. CountType'
    BY <1>2, <1>5 DEF CountType
  <1>8. ReadersType'
    <2>1. ASSUME NEW r \in Reader
          PROVE  StateOK(reader[r])'
      <3>1. reader[r] \in ReaderState /\ StateOK(reader[r]) /\ reader'[r] = reader[r]
        BY <1>2, <1>5 DEF ReadersType
      <3>2. CASE reader[r].pc # "storing"
        BY <3>1, <3>2 DEF StateOK
      <3>3. CASE reader[r].pc = "storing"
        <4>1. reader[r].next \in 1..reader[r].upto /\ reader[r].upto \in Nat
              /\ reader[r].upto <= Len(log)
          BY <3>1, <3>3 DEF StateOK, ReaderState
        <4>2. log'[reader[r].next] = log[reader[r].next] /\ reader[r].upto <= Len(log')
          BY <1>1, <1>3, <4>1
        <4> QED
          BY <3>1, <3>3, <4>1, <4>2 DEF StateOK
      <3> QED
        BY <3>2, <3>3
    <2> QED
      BY <1>2, <1>5, <2>1 DEF ReadersType
  <1> QED
    BY <1>2, <1>3, <1>4, <1>6, <1>7, <1>8, TypeParts

\* A worker that starts or stops: each reader stays as it is, begins or ends.
LEMMA StartStop ==
    ASSUME TypeOK, NEW w \in Worker, Start(w) \/ Stop(w)
    PROVE  /\ UNCHANGED <<streamVars, copies, failedIn>>
           /\ up' \subseteq Worker /\ begun' \in Nat /\ faults' \in Nat
           /\ \A r \in Reader : reader'[r] \in {reader[r], Reading(StartID), Down}
           /\ reader' = [r \in Reader |-> reader'[r]]
  <1>1. CountType /\ reader \in [Reader -> ReaderState] /\ Listed[w] \in Nat
    BY TypeParts, ListedAssumption DEF ReadersType
  <1>2. CASE Start(w)
    <2>1. UNCHANGED <<streamVars, copies, failedIn>> /\ up' \subseteq Worker
      BY <1>1, <1>2 DEF Start, CountType
    <2>2. CASE /\ begun' = begun + Listed[w] /\ UNCHANGED faults
               /\ reader' = [r \in Reader |-> IF r[1] = w THEN Reading(StartID) ELSE reader[r]]
      BY <1>1, <2>1, <2>2 DEF CountType
    <2>3. CASE faults' = faults + 1 /\ UNCHANGED <<reader, begun>>
      BY <1>1, <2>1, <2>3 DEF CountType
    <2> QED
      BY <1>2, <2>2, <2>3 DEF Start
  <1>3. CASE Stop(w)
    BY <1>1, <1>3 DEF Stop, CountType, boundVars
  <1> QED
    BY <1>2, <1>3

LEMMA StartStopType ==
    ASSUME TypeOK, NEW w \in Worker, Start(w) \/ Stop(w)
    PROVE  TypeOK'
  <1>1. StreamType' /\ CountType'
    BY StartStop, TypeParts DEF streamVars, StreamType, LogType, CountType
  <1>2. ASSUME NEW r \in Reader
        PROVE  reader'[r] \in ReaderState /\ StateOK(reader[r])'
    <2>1. UNCHANGED log /\ reader'[r] \in {reader[r], Reading(StartID), Down}
      BY StartStop DEF streamVars
    <2>2. StateOK(reader[r]) /\ StateOK(Reading(StartID)) /\ StateOK(Down)
      BY ReadingType, DownType, TypeParts DEF StartID, ReadersType
    <2> QED
      BY <2>1, <2>2 DEF StateOK
  <1> QED
    BY <1>1, <1>2, StartStop, TypeParts DEF ReadersType

\* Where the reply to XREAD begins.
Oldest(r) == IF reader[r].id < first THEN first ELSE reader[r].id + 1

LEMMA xReadReply ==
    ASSUME TypeOK, NEW r \in Reader, xRead(r)
    PROVE  /\ Oldest(r) \in 1..Len(log)
           /\ reader' = [reader EXCEPT ![r] = ReplyState(reader[r], Oldest(r))]
           /\ UNCHANGED <<streamVars, copies, up, failedIn, boundVars>>
           /\ reader[r] \in ReaderState /\ reader[r].pc = "reading"
  <1>1. reader[r] \in ReaderState /\ reader[r].id \in Nat /\ first \in 1..(Len(log) + 1)
        /\ Len(log) \in Nat
    BY TypeParts, LogEntries DEF ReadersType, ReaderState, StreamType
  <1>2. Oldest(r) <= Len(log) /\ reader[r].pc = "reading"
    BY DEF xRead, Oldest
  <1>3. Oldest(r) \in 1..Len(log)
    BY <1>1, <1>2 DEF Oldest
  <1> QED
    BY <1>1, <1>2, <1>3 DEF xRead, Oldest, ReplyState

LEMMA xReadType ==
    ASSUME TypeOK, NEW r \in Reader, xRead(r)
    PROVE  TypeOK'
  <1>1. StreamType' /\ CountType' /\ UNCHANGED log
    BY TypeParts, xReadReply DEF streamVars, boundVars, StreamType, LogType, CountType
  <1>2. StateOK(ReplyState(reader[r], Oldest(r)))
    BY TypeParts, xReadReply, ReplyType DEF StreamType
  <1> QED
    BY <1>1, <1>2, xReadReply, OneReaderType, TypeParts

LEMMA SkipMessageType ==
    ASSUME TypeOK, NEW r \in Reader, SkipMessage(r)
    PROVE  TypeOK'
  <1>1. StreamType' /\ CountType' /\ UNCHANGED log
    BY TypeParts DEF SkipMessage, streamVars, boundVars, StreamType, LogType, CountType
  <1>2. reader' = [reader EXCEPT ![r] = AfterRow(reader[r])] /\ Storing(r)
    BY DEF SkipMessage
  <1>3. StateOK(AfterRow(reader[r]))
    BY <1>2, StoringMessage, AfterRowType
  <1> QED
    BY <1>1, <1>2, <1>3, OneReaderType, TypeParts

LEMMA StoredFacts ==
    ASSUME TypeOK, NEW r \in Reader, Stored(r)
    PROVE  /\ Storing(r) /\ reader[r].row \in 1..log[reader[r].next]
           /\ reader[r].next \in Message /\ reader[r].row \in Row
           /\ OneMore(reader[r].next, reader[r].row)
  <1>1. Storing(r) /\ reader[r].row <= log[reader[r].next]
    BY DEF Stored
  <1>2. /\ reader[r].row \in Row /\ reader[r].next \in Message /\ reader[r].row \in Nat \ {0}
        /\ log[reader[r].next] \in 0..MaxRows
    BY <1>1, StoringMessage
  <1>3. reader[r].row \in 1..log[reader[r].next]
    BY <1>1, <1>2, BoundsAssumption
  <1> QED
    BY <1>1, <1>2, <1>3 DEF Stored, OneMore

LEMMA createType ==
    ASSUME TypeOK, NEW r \in Reader, create(r)
    PROVE  TypeOK'
  <1>1. Stored(r) /\ Storing(r)
    BY DEF create, Stored
  <1>2. StreamType' /\ UNCHANGED log
    BY TypeParts DEF create, streamVars, StreamType, LogType
  <1>3. copies' \in [Message -> [Row -> Nat]]
    BY <1>1, StoredFacts, CopiesType, TypeParts
  <1>4. CountType'
    BY <1>3, TypeParts DEF create, boundVars, CountType
  <1>5. StateOK(AfterRow(reader[r])) /\ reader' = [reader EXCEPT ![r] = AfterRow(reader[r])]
    BY <1>1, StoringMessage, AfterRowType DEF create
  <1> QED
    BY <1>2, <1>4, <1>5, OneReaderType, TypeParts

LEMMA RejectType ==
    ASSUME TypeOK, NEW r \in Reader, Reject(r) \/ LoseAnswer(r)
    PROVE  TypeOK'
  <1>1. Storing(r) /\ BreakOff(r) /\ UNCHANGED <<streamVars, up, begun>>
    BY DEF Reject, LoseAnswer, Stored
  <1>2. StreamType' /\ UNCHANGED log
    BY <1>1, TypeParts DEF streamVars, StreamType, LogType
  <1>3. ReadersType' /\ failedIn' \in [Message -> Nat]
    BY <1>1, <1>2, BreakOffType
  <1>4. faults' \in Nat
    BY TypeParts DEF Reject, LoseAnswer, CountType
  <1>5. copies' \in [Message -> [Row -> Nat]]
    <2>1. CASE Reject(r)
      BY <2>1, TypeParts DEF Reject, CountType
    <2>2. CASE LoseAnswer(r)
      BY <2>2, StoredFacts, CopiesType, TypeParts DEF LoseAnswer
    <2> QED
      BY <2>1, <2>2
  <1> QED
    BY <1>1, <1>2, <1>3, <1>4, <1>5, TypeParts DEF CountType

LEMMA TypeStep == TypeOK /\ [Next]_vars => TypeOK'
  <1> SUFFICES ASSUME TypeOK, [Next]_vars
               PROVE  TypeOK'
    OBVIOUS
  <1>1. ASSUME NEW n \in 0..MaxRows, NEW unstorable \in BOOLEAN, Publish(n, unstorable)
        PROVE  TypeOK'
    BY <1>1, PublishType
  <1>2. ASSUME NEW r \in Reader, syncAsset(r)
        PROVE  TypeOK'
    BY <1>2, xReadType, SkipMessageType, createType, RejectType DEF syncAsset
  <1>3. CASE UNCHANGED vars
    BY <1>3 DEF vars, streamVars, boundVars, TypeOK, Storing
  <1> QED
    BY <1>1, <1>2, <1>3, StartStopType, SizesAssumption DEF Next

\* The stream, the counts and the readers keep their types for any lists of any
\* workers, and a reader only ever stores a row of a message it has got.
THEOREM TypeCorrect == Spec => []TypeOK
  <1> QED
    BY TypeInit, TypeStep, PTL DEF Spec

-----------------------------------------------------------------------------
(* No reader passes a message that is not stored *)

Settled(m) == m \in gone \/ Whole(m)

\* Behind its id everything is settled; while it stores, everything before its message
\* and the rows of it up to its row.
Sound(s) ==
    /\ s.id \in 0..Len(log)
    /\ \A m \in 1..s.id : Settled(m)
    /\ s.pc = "storing" =>
          /\ \A m \in 1..(s.next - 1) : Settled(m)
          /\ \A k \in 1..(s.row - 1) : copies[s.next][k] > 0

ReadersSound == \A r \in Reader : Sound(reader[r])

\* What left the stream is settled.
TrimmedSettled == \A m \in 1..(first - 1) : Settled(m)

LEMMA SoundInit == Init => ReadersSound /\ TrimmedSettled
  <1> SUFFICES ASSUME Init
               PROVE  ReadersSound /\ TrimmedSettled
    OBVIOUS
  <1>1. first = 1 /\ log = <<>> /\ Len(log) = 0 /\ \A r \in Reader : reader[r] = Down
    BY DEF Init
  <1> QED
    BY <1>1, DownType DEF ReadersSound, TrimmedSettled, Sound

LEMMA SoundSkips == TypeOK /\ ReadersSound => NothingSkipped
  BY DEF ReadersSound, Sound, Settled, NothingSkipped

\* What a step may do to what is settled: rows do not disappear.
Keeps ==
    /\ Len(log') \in Nat /\ Len(log') >= Len(log)
    /\ \A m \in 1..Len(log) : log'[m] = log[m]
    /\ gone \subseteq gone'
    /\ \A m \in Message, k \in Row : copies'[m][k] >= copies[m][k]

LEMMA RowsOfMessages ==
    ASSUME TypeOK, NEW m \in 1..Len(log), NEW k \in 1..log[m]
    PROVE  m \in Message /\ k \in Row /\ copies[m][k] \in Nat
  <1>1. LogType /\ copies \in [Message -> [Row -> Nat]]
    BY TypeParts DEF StreamType, CountType
  <1>2. m \in Message
    BY <1>1, BoundsAssumption DEF LogType, Message
  <1>3. log[m] \in 0..MaxRows
    BY <1>1, LogEntries
  <1>4. k \in Row
    BY <1>3, BoundsAssumption DEF Row
  <1> QED
    BY <1>1, <1>2, <1>4

LEMMA SettledStays ==
    ASSUME TypeOK, TypeOK', Keeps, NEW m \in 1..Len(log), Settled(m)
    PROVE  Settled(m)'
  <1>1. CASE m \in gone
    BY <1>1 DEF Keeps, Settled
  <1>2. CASE Whole(m)
    <2>1. ASSUME NEW k \in 1..log[m]
          PROVE  copies'[m][k] > 0
      <3>1. m \in Message /\ k \in Row /\ copies[m][k] \in Nat /\ copies[m][k] > 0
        BY <1>2, RowsOfMessages DEF Whole
      <3>2. copies'[m][k] \in Nat
        BY <3>1, TypeParts DEF CountType
      <3> QED
        BY <3>1, <3>2 DEF Keeps
    <2>2. log'[m] = log[m]
      BY DEF Keeps
    <2> QED
      BY <2>1, <2>2 DEF Settled, Whole
  <1> QED
    BY <1>1, <1>2 DEF Settled

\* A reader that does not move stays sound.
LEMMA SoundStays ==
    ASSUME TypeOK, TypeOK', Keeps, NEW s, StateOK(s), Sound(s)
    PROVE  Sound(s)'
  <1>1. LogType /\ Len(log) \in Nat /\ s \in ReaderState
    BY TypeParts, LogEntries DEF StreamType, StateOK
  <1>2. s.id \in 0..Len(log') /\ \A m \in 1..s.id : Settled(m)'
    BY <1>1, SettledStays DEF Sound, Keeps
  <1>3. ASSUME s.pc = "storing"
        PROVE  /\ \A m \in 1..(s.next - 1) : Settled(m)'
               /\ \A k \in 1..(s.row - 1) : copies'[s.next][k] > 0
    <2>1. /\ s.next \in 1..s.upto /\ s.upto \in Nat /\ s.upto <= Len(log)
          /\ s.row \in 1..(IF log[s.next] = 0 THEN 1 ELSE log[s.next])
      BY <1>1, <1>3 DEF StateOK, ReaderState
    <2>2. s.next \in 1..Len(log) /\ log[s.next] \in Nat
      BY <1>1, <2>1, LogEntries
    <2>3. \A m \in 1..(s.next - 1) : m \in 1..Len(log)
      BY <1>1, <2>2
    <2>4. \A k \in 1..(s.row - 1) : k \in 1..log[s.next]
      BY <2>1, <2>2
    <2>5. ASSUME NEW k \in 1..(s.row - 1)
          PROVE  copies'[s.next][k] > 0
      <3>1. /\ s.next \in Message /\ k \in Row /\ copies[s.next][k] \in Nat
        BY <2>2, <2>4, RowsOfMessages
      <3>2. copies'[s.next][k] \in Nat
        BY <3>1, TypeParts DEF CountType
      <3>3. copies[s.next][k] > 0
        BY <1>3 DEF Sound
      <3> QED
        BY <3>1, <3>2, <3>3 DEF Keeps
    <2> QED
      BY <1>3, <2>3, <2>5, SettledStays DEF Sound
  <1> QED
    BY <1>2, <1>3 DEF Sound

\* One reader moves.
LEMMA OneReaderSound ==
    ASSUME TypeOK, TypeOK', Keeps, ReadersSound, NEW r \in Reader, NEW s, Sound(s)',
           reader' = [reader EXCEPT ![r] = s]
    PROVE  ReadersSound'
  <1>1. reader \in [Reader -> ReaderState] /\ \A v \in Reader : StateOK(reader[v])
    BY TypeParts DEF ReadersType
  <1>2. \A v \in Reader : reader'[v] = IF v = r THEN s ELSE reader[v]
    BY <1>1
  <1>3. ASSUME NEW v \in Reader, v # r
        PROVE  Sound(reader[v])'
    <2>1. PICK c : c = reader[v]
      OBVIOUS
    <2>2. StateOK(c) /\ Sound(c)
      BY <1>1, <2>1 DEF ReadersSound
    <2>3. Sound(c)'
      BY <2>2, SoundStays
    <2>4. reader'[v] = c
      BY <1>2, <1>3, <2>1
    <2> QED
      BY <2>3, <2>4 DEF Sound
  <1>4. Sound(reader[r])'
    <2>1. reader'[r] = s
      BY <1>2
    <2> QED
      BY <2>1 DEF Sound
  <1> QED
    BY <1>3, <1>4 DEF ReadersSound

LEMMA KeepsSame ==
    ASSUME TypeOK, UNCHANGED <<log, gone, copies>>
    PROVE  Keeps
  <1>1. LogType /\ copies \in [Message -> [Row -> Nat]]
    BY TypeParts DEF StreamType, CountType
  <1>2. Len(log) \in Nat /\ \A m \in Message, k \in Row : copies[m][k] \in Nat
    BY <1>1, LogEntries
  <1> QED
    BY <1>2 DEF Keeps

LEMMA KeepsStored ==
    ASSUME TypeOK, NEW r \in Reader, Stored(r), UNCHANGED streamVars
    PROVE  Keeps /\ copies'[reader[r].next][reader[r].row] > 0
  <1>1. LogType /\ CountType /\ Len(log) \in Nat
    BY TypeParts, LogEntries DEF StreamType
  <1>2. /\ reader[r].next \in Message /\ reader[r].row \in Row
        /\ OneMore(reader[r].next, reader[r].row)
    BY StoredFacts
  <1>3. /\ copies'[reader[r].next][reader[r].row] > 0
        /\ \A m \in Message, k \in Row : copies'[m][k] >= copies[m][k]
    BY <1>1, <1>2, CopiesType
  <1>4. UNCHANGED <<log, gone>>
    BY DEF streamVars
  <1> QED
    BY <1>1, <1>3, <1>4 DEF Keeps

LEMMA TrimmedStays ==
    ASSUME TypeOK, TypeOK', Keeps, TrimmedSettled, UNCHANGED first
    PROVE  TrimmedSettled'
  <1>1. first \in 1..(Len(log) + 1) /\ Len(log) \in Nat
    BY TypeParts, LogEntries DEF StreamType
  <1>2. \A m \in 1..(first - 1) : m \in 1..Len(log)
    BY <1>1
  <1> QED
    BY <1>2, SettledStays DEF TrimmedSettled

LEMMA TrimmedSplit ==
    ASSUME NEW n \in Nat, NEW f \in 1..(n + 1), NEW g \in 1..(n + 1), NEW m \in 1..(g - 1)
    PROVE  m \in 1..n /\ (m \in 1..(f - 1) \/ m \in f..(g - 1))
  OBVIOUS

LEMMA TrimmedRange ==
    ASSUME NEW n \in Nat, NEW f \in 1..(n + 1), NEW g \in 1..(n + 1)
    PROVE  \A m \in f..(g - 1) : m \in 1..n
  OBVIOUS

LEMMA PublishSound ==
    ASSUME TypeOK, TypeOK', ReadersSound, TrimmedSettled,
           NEW n \in 0..MaxRows, NEW unstorable \in BOOLEAN, Publish(n, unstorable)
    PROVE  ReadersSound' /\ TrimmedSettled'
  <1>1. /\ Len(log') = Len(log) + 1 /\ \A m \in 1..Len(log) : log'[m] = log[m]
        /\ first' \in 1..(Len(log) + 1) /\ Len(log) \in Nat /\ first \in 1..(Len(log) + 1)
    BY PublishType, TypeParts, LogEntries DEF StreamType
  <1>2. /\ gone' = gone \cup {m \in first..(first' - 1) : ~ Whole(m)}
        /\ UNCHANGED <<copies, reader>>
    BY DEF Publish
  <1>3. copies \in [Message -> [Row -> Nat]]
    BY TypeParts DEF CountType
  <1>4. \A m \in Message, k \in Row : copies[m][k] \in Nat
    BY <1>3
  <1>5. Keeps
    BY <1>1, <1>2, <1>4 DEF Keeps
  <1>6. ASSUME NEW r \in Reader
        PROVE  Sound(reader[r])'
    <2>1. PICK c : c = reader[r]
      OBVIOUS
    <2>2. StateOK(c) /\ Sound(c)
      BY <2>1, TypeParts DEF ReadersSound, ReadersType
    <2>3. Sound(c)'
      BY <1>5, <2>2, SoundStays
    <2> QED
      BY <1>2, <2>1, <2>3 DEF Sound
  <1>7. ASSUME NEW m \in 1..(first' - 1)
        PROVE  Settled(m)'
    <2>1. m \in 1..Len(log) /\ (m \in 1..(first - 1) \/ m \in first..(first' - 1))
      <3>1. Len(log) \in Nat /\ first \in 1..(Len(log) + 1) /\ first' \in 1..(Len(log) + 1)
        BY <1>1
      <3> QED
        BY <3>1, TrimmedSplit
    <2>2. CASE Settled(m)
      BY <1>5, <2>1, <2>2, SettledStays
    <2>3. CASE ~ Settled(m)
      <3>1. m \in first..(first' - 1) /\ ~ Whole(m)
        BY <2>1, <2>3 DEF TrimmedSettled, Settled
      <3> QED
        BY <1>2, <3>1 DEF Settled
    <2> QED
      BY <2>2, <2>3
  <1> QED
    BY <1>6, <1>7 DEF ReadersSound, TrimmedSettled

\* A row that is there brings the reader on soundly.
LEMMA AfterRowSound ==
    ASSUME TypeOK, TypeOK', Keeps, NEW c, StateOK(c), Sound(c), c.pc = "storing",
           \/ log[c.next] = 0
           \/ c.row \in 1..log[c.next] /\ copies'[c.next][c.row] > 0,
           NEW a, a = AfterRow(c)
    PROVE  Sound(a)'
  <1>1. /\ LogType /\ Len(log) \in Nat /\ Len(log') \in Nat /\ Len(log') >= Len(log)
        /\ c \in ReaderState
    BY TypeParts, LogEntries DEF StreamType, StateOK, Keeps
  <1>2. /\ c.next \in 1..c.upto /\ c.upto \in Nat /\ c.upto <= Len(log) /\ c.next \in 1..Len(log)
        /\ c.row \in Nat \ {0} /\ log[c.next] \in Nat /\ log'[c.next] = log[c.next]
    <2>1. c.next \in 1..c.upto /\ c.upto \in Nat /\ c.upto <= Len(log) /\ c.next \in 1..Len(log)
      BY <1>1 DEF StateOK, ReaderState
    <2>2. log[c.next] \in Nat /\ log'[c.next] = log[c.next]
      BY <1>1, <2>1, LogEntries DEF Keeps
    <2> QED
      BY <2>1, <2>2 DEF StateOK
  <1>3. /\ c.id \in 0..Len(log') /\ \A m \in 1..c.id : Settled(m)'
        /\ \A m \in 1..(c.next - 1) : Settled(m)'
        /\ \A k \in 1..(c.row - 1) : copies'[c.next][k] > 0
    <2>1. Sound(c)'
      BY SoundStays
    <2> QED
      BY <2>1 DEF Sound
  <1>4. CASE c.row < log[c.next]
    <2>1. a.pc = "storing" /\ a.id = c.id /\ a.next = c.next /\ a.row = c.row + 1
      BY <1>1, <1>4, AfterRowCases
    <2>2. \A k \in 1..(a.row - 1) : k \in 1..(c.row - 1) \/ k = c.row
      BY <1>2, <2>1
    <2>3. copies'[c.next][c.row] > 0
      BY <1>2, <1>4
    <2> QED
      BY <1>3, <2>1, <2>2, <2>3 DEF Sound
  <1>5. ASSUME ~ c.row < log[c.next]
        PROVE  c.next \in 0..Len(log') /\ \A m \in 1..c.next : Settled(m)'
    <2>1. ASSUME NEW k \in 1..log'[c.next]
          PROVE  copies'[c.next][k] > 0
      <3>1. log[c.next] # 0 /\ (k \in 1..(c.row - 1) \/ k = c.row)
        BY <1>2, <1>5
      <3> QED
        BY <1>3, <3>1
    <2>2. Settled(c.next)'
      BY <2>1 DEF Settled, Whole
    <2>3. \A m \in 1..c.next : m \in 1..(c.next - 1) \/ m = c.next
      BY <1>2
    <2> QED
      BY <1>1, <1>2, <1>3, <2>2, <2>3
  <1>6. CASE ~ c.row < log[c.next] /\ c.next < c.upto
    <2>1. a.pc = "storing" /\ a.id = c.next /\ a.next = c.next + 1 /\ a.row = 1
      BY <1>1, <1>6, AfterRowCases
    <2>2. a.next - 1 = c.next /\ 1..(a.row - 1) = {}
      BY <1>2, <2>1
    <2> QED
      BY <1>5, <1>6, <2>1, <2>2 DEF Sound
  <1>7. CASE ~ c.row < log[c.next] /\ ~ c.next < c.upto
    <2>1. a = Reading(c.next)
      BY <1>1, <1>7, AfterRowCases
    <2>2. a.pc = "reading" /\ a.id = c.next
      BY <2>1 DEF Reading
    <2> QED
      BY <1>5, <1>7, <2>2 DEF Sound
  <1> QED
    BY <1>4, <1>6, <1>7

LEMMA BehindSound ==
    ASSUME TypeOK, TypeOK', Keeps, ReadersSound, NEW r \in Reader,
           reader' = [reader EXCEPT ![r] = Reading(reader[r].id)]
    PROVE  ReadersSound'
  <1>1. PICK c : c = reader[r]
    OBVIOUS
  <1>2. StateOK(c) /\ Sound(c)
    BY <1>1, TypeParts DEF ReadersSound, ReadersType
  <1>3. Sound(c)'
    BY <1>2, SoundStays
  <1>4. PICK b : b = Reading(c.id)
    OBVIOUS
  <1>5. b.id = c.id /\ b.pc = "reading"
    BY <1>4 DEF Reading
  <1>6. Sound(b)'
    BY <1>3, <1>5 DEF Sound
  <1>7. reader' = [reader EXCEPT ![r] = b]
    BY <1>1, <1>4
  <1> QED
    BY <1>6, <1>7, OneReaderSound

\* Readers that begin or end have nothing behind them.
LEMMA StartStopSound ==
    ASSUME TypeOK, TypeOK', Keeps, ReadersSound, NEW w \in Worker, Start(w) \/ Stop(w)
    PROVE  ReadersSound'
  <1>1. ASSUME NEW r \in Reader
        PROVE  Sound(reader[r])'
    <2>1. PICK c : c = reader'[r]
      OBVIOUS
    <2>2. CASE c = reader[r]
      <3>1. StateOK(c) /\ Sound(c)
        BY <2>2, TypeParts DEF ReadersSound, ReadersType
      <3>2. Sound(c)'
        BY <3>1, SoundStays
      <3> QED
        BY <2>1, <3>2 DEF Sound
    <2>3. CASE c \in {Reading(StartID), Down}
      <3>1. c.id = 0 /\ c.pc # "storing" /\ Len(log') \in Nat
        BY <2>3 DEF Reading, Down, StartID, Keeps
      <3> QED
        BY <2>1, <3>1 DEF Sound
    <2> QED
      BY <2>1, <2>2, <2>3, StartStop
  <1> QED
    BY <1>1 DEF ReadersSound

LEMMA ForwardSound ==
    ASSUME TypeOK, TypeOK', Keeps, ReadersSound, NEW r \in Reader, Storing(r),
           \/ log[reader[r].next] = 0
           \/ /\ reader[r].row \in 1..log[reader[r].next]
              /\ copies'[reader[r].next][reader[r].row] > 0,
           reader' = [reader EXCEPT ![r] = AfterRow(reader[r])]
    PROVE  ReadersSound'
  <1>1. PICK c : c = reader[r]
    OBVIOUS
  <1>2. StateOK(c) /\ Sound(c) /\ c.pc = "storing"
    BY <1>1, TypeParts DEF ReadersSound, ReadersType, Storing
  <1>3. PICK a : a = AfterRow(c)
    OBVIOUS
  <1>4. \/ log[c.next] = 0
        \/ c.row \in 1..log[c.next] /\ copies'[c.next][c.row] > 0
    BY <1>1
  <1>5. Sound(a)'
    BY <1>2, <1>3, <1>4, AfterRowSound
  <1>6. reader' = [reader EXCEPT ![r] = a]
    BY <1>1, <1>3
  <1> QED
    BY <1>5, <1>6, OneReaderSound

LEMMA xReadSound ==
    ASSUME TypeOK, TypeOK', Keeps, ReadersSound, TrimmedSettled, NEW r \in Reader, xRead(r)
    PROVE  ReadersSound'
  <1>1. PICK c : c = reader[r]
    OBVIOUS
  <1>2. StateOK(c) /\ Sound(c) /\ c \in ReaderState
    BY <1>1, TypeParts DEF ReadersSound, ReadersType
  <1>3. PICK o : o = Oldest(r)
    OBVIOUS
  <1>4. /\ o \in 1..Len(log) /\ reader' = [reader EXCEPT ![r] = ReplyState(c, o)]
        /\ UNCHANGED <<log, gone, copies>>
    BY <1>1, <1>3, xReadReply DEF streamVars
  <1>5. PICK a : a = ReplyState(c, o)
    OBVIOUS
  <1>6. a.pc = "storing" /\ a.id = c.id /\ a.next = o /\ a.row = 1
    BY <1>2, <1>4, <1>5, ReplyType, TypeParts DEF StreamType
  <1>7. ASSUME NEW m \in 1..(o - 1)
        PROVE  Settled(m)
    <2>1. o = IF c.id < first THEN first ELSE c.id + 1
      BY <1>1, <1>3 DEF Oldest
    <2>2. c.id \in Nat /\ first \in Nat
      BY <1>2, TypeParts, LogEntries DEF ReaderState, StreamType
    <2>3. m \in 1..(first - 1) \/ m \in 1..c.id
      BY <2>1, <2>2
    <2> QED
      BY <1>2, <2>3 DEF TrimmedSettled, Sound
  <1>8. Sound(a)'
    <2>1. Sound(c)'
      BY <1>2, SoundStays
    <2>2. \A m \in 1..(a.next - 1) : Settled(m)'
      BY <1>4, <1>6, <1>7 DEF Settled, Whole
    <2>3. 1..(a.row - 1) = {}
      BY <1>6
    <2> QED
      BY <1>6, <2>1, <2>2, <2>3 DEF Sound
  <1> QED
    BY <1>4, <1>5, <1>8, OneReaderSound

LEMMA SoundStep ==
    ASSUME TypeOK, TypeOK', ReadersSound, TrimmedSettled, [Next]_vars
    PROVE  ReadersSound' /\ TrimmedSettled'
  <1>1. ASSUME NEW n \in 0..MaxRows, NEW unstorable \in BOOLEAN, Publish(n, unstorable)
        PROVE  ReadersSound' /\ TrimmedSettled'
    BY <1>1, PublishSound
  <1>2. ASSUME UNCHANGED <<streamVars, copies>>
        PROVE  Keeps /\ TrimmedSettled'
    BY <1>2, KeepsSame, TrimmedStays DEF streamVars
  <1>3. ASSUME NEW w \in Worker, Start(w) \/ Stop(w)
        PROVE  ReadersSound' /\ TrimmedSettled'
    <2>1. Keeps /\ TrimmedSettled'
      BY <1>2, <1>3, StartStop
    <2> QED
      BY <1>3, <2>1, StartStopSound
  <1>5. ASSUME NEW r \in Reader, xRead(r)
        PROVE  ReadersSound' /\ TrimmedSettled'
    <2>1. Keeps /\ TrimmedSettled'
      BY <1>2, <1>5 DEF xRead
    <2> QED
      BY <1>5, <2>1, xReadSound
  <1>6. ASSUME NEW r \in Reader, SkipMessage(r)
        PROVE  ReadersSound' /\ TrimmedSettled'
    <2>1. Keeps /\ TrimmedSettled'
      BY <1>2, <1>6 DEF SkipMessage
    <2> QED
      BY <1>6, <2>1, ForwardSound DEF SkipMessage
  <1>7. ASSUME NEW r \in Reader, Stored(r), UNCHANGED streamVars
        PROVE  /\ Keeps /\ TrimmedSettled'
               /\ copies'[reader[r].next][reader[r].row] > 0
    BY <1>7, KeepsStored, TrimmedStays DEF streamVars
  <1>8. ASSUME NEW r \in Reader, create(r)
        PROVE  ReadersSound' /\ TrimmedSettled'
    <2>1. Stored(r) /\ UNCHANGED streamVars /\ reader' = [reader EXCEPT ![r] = AfterRow(reader[r])]
      BY <1>8 DEF create
    <2>2. Storing(r) /\ reader[r].row \in 1..log[reader[r].next]
      BY <2>1, StoredFacts
    <2> QED
      BY <1>7, <2>1, <2>2, ForwardSound
  <1>9. ASSUME NEW r \in Reader, Reject(r)
        PROVE  ReadersSound' /\ TrimmedSettled'
    <2>1. Keeps /\ TrimmedSettled'
      BY <1>2, <1>9 DEF Reject
    <2> QED
      BY <1>9, <2>1, BehindSound DEF Reject, BreakOff, RestartMessage
  <1>10. ASSUME NEW r \in Reader, LoseAnswer(r)
         PROVE  ReadersSound' /\ TrimmedSettled'
    <2>1. Stored(r) /\ UNCHANGED streamVars
      BY <1>10 DEF LoseAnswer
    <2> QED
      BY <1>7, <1>10, <2>1, BehindSound DEF LoseAnswer, BreakOff, RestartMessage
  <1>11. CASE UNCHANGED vars
    <2>1. Keeps /\ TrimmedSettled' /\ UNCHANGED reader
      BY <1>2, <1>11 DEF vars
    <2>2. ASSUME NEW r \in Reader
          PROVE  Sound(reader[r])'
      BY <1>11 DEF vars, streamVars, ReadersSound, Sound, Settled, Whole
    <2> QED
      BY <2>1, <2>2 DEF ReadersSound
  <1> QED
    BY <1>1, <1>3, <1>5, <1>6, <1>8, <1>9, <1>10, <1>11, SizesAssumption DEF Next, syncAsset

\* A reader is only past messages whose rows are all stored, or that left the stream
\* before: no failure, lost answer, restart or second reader makes it skip one.
THEOREM NothingIsSkipped == Spec => []NothingSkipped
  <1> QED
    BY TypeInit, TypeStep, SoundInit, SoundStep, SoundSkips, PTL DEF Spec

-----------------------------------------------------------------------------
(* Rows appear in the order of the stream *)

LEMMA PresentRows ==
    ASSUME TypeOK
    PROVE  /\ \A m \in 1..Len(log) : \A k \in 1..log[m] : <<m, k>> \in present <=> copies[m][k] > 0
           /\ \A m \in 1..Len(log) : Abstract!Whole(m) <=> Whole(m)
  <1>1. ASSUME NEW m \in 1..Len(log), NEW k \in 1..log[m]
        PROVE  <<m, k>> \in present <=> copies[m][k] > 0
    BY RowsOfMessages DEF present
  <1> QED
    BY <1>1 DEF Abstract!Whole, Whole

LEMMA PublishPublishes ==
    ASSUME TypeOK, NEW n \in 0..MaxRows, NEW unstorable \in BOOLEAN, Publish(n, unstorable)
    PROVE  Abstract!Publish
  <1>1. /\ log' = Append(log, n)
        /\ gone' = gone \cup {m \in first..(first' - 1) : ~ Whole(m)}
        /\ UNCHANGED copies
    BY DEF Publish
  <1>2. /\ Len(log) \in Nat /\ first \in 1..(Len(log) + 1) /\ first' \in 1..(Len(log) + 1)
    BY PublishType, TypeParts, LogEntries DEF StreamType
  <1>3. \A m \in first..(first' - 1) : m \in 1..Len(log)
    BY <1>2, TrimmedRange
  <1>4. {m \in first..(first' - 1) : ~ Whole(m)} \in SUBSET {m \in 1..Len(log) : ~ Abstract!Whole(m)}
    BY <1>3, PresentRows
  <1>5. UNCHANGED present
    BY <1>1 DEF present
  <1> QED
    BY <1>1, <1>4, <1>5 DEF Abstract!Publish

LEMMA StoredAppears ==
    ASSUME TypeOK, ReadersSound, NEW r \in Reader, Stored(r), UNCHANGED streamVars
    PROVE  Abstract!Next
  <1>1. PICK m : m = reader[r].next
    OBVIOUS
  <1>2. PICK k : k = reader[r].row
    OBVIOUS
  <1>3. /\ Storing(r) /\ m \in 1..Len(log) /\ k \in 1..log[m] /\ m \in Message /\ k \in Row
        /\ OneMore(m, k)
        /\ log[m] \in Nat
    BY <1>1, <1>2, StoredFacts, StoringMessage, LogEntries
  <1>4. /\ \A e \in 1..(m - 1) : Settled(e)
        /\ \A i \in 1..(k - 1) : copies[m][i] > 0
    BY <1>1, <1>2, <1>3 DEF ReadersSound, Sound, Storing
  <1>5. \A e \in 1..(m - 1) : e \in gone \/ Abstract!Whole(e)
    <2>1. \A e \in 1..(m - 1) : e \in 1..Len(log)
      BY <1>3, LogEntries, TypeParts DEF StreamType
    <2> QED
      BY <1>4, <2>1, PresentRows DEF Settled
  <1>6. \A i \in 1..(k - 1) : <<m, i>> \in present
    <2>1. \A i \in 1..(k - 1) : i \in 1..log[m]
      BY <1>3
    <2> QED
      BY <1>3, <1>4, <2>1, PresentRows
  <1>7. present' = present \cup {<<m, k>>}
    <2>1. /\ copies'[m][k] > 0
          /\ \A n \in Message, i \in Row : n # m \/ i # k => copies'[n][i] = copies[n][i]
      <3>1. CountType /\ m \in Message /\ k \in Row /\ OneMore(m, k)
        BY <1>3, TypeParts
      <3> QED
        BY <3>1, CopiesType
    <2>2. ASSUME NEW n \in Message, NEW i \in Row
          PROVE  copies'[n][i] > 0 <=> copies[n][i] > 0 \/ <<n, i>> = <<m, k>>
      BY <2>1
    <2>3. present' = {x \in Message \X Row : copies'[x[1]][x[2]] > 0}
      BY DEF present
    <2>4. \A n \in Message, i \in Row : <<n, i>> \in present' <=> <<n, i>> \in present \/ <<n, i>> = <<m, k>>
      BY <2>2, <2>3 DEF present
    <2>5. <<m, k>> \in Message \X Row /\ present \subseteq Message \X Row /\ present' \subseteq Message \X Row
      BY <1>3, <2>3 DEF present
    <2> QED
      BY <2>4, <2>5
  <1> QED
    BY <1>3, <1>5, <1>6, <1>7 DEF Abstract!Next, Abstract!Appear, streamVars

LEMMA StepDelivers ==
    ASSUME TypeOK, ReadersSound, [Next]_vars
    PROVE  [Abstract!Next]_<<log, gone, present>>
  <1>1. ASSUME NEW n \in 0..MaxRows, NEW unstorable \in BOOLEAN, Publish(n, unstorable)
        PROVE  Abstract!Next
    BY <1>1, PublishPublishes DEF Abstract!Next
  <1>2. ASSUME NEW r \in Reader, create(r) \/ LoseAnswer(r)
        PROVE  Abstract!Next
    BY <1>2, StoredAppears DEF create, LoseAnswer
  <1>3. ASSUME UNCHANGED <<streamVars, copies>>
        PROVE  UNCHANGED <<log, gone, present>>
    BY <1>3 DEF streamVars, present
  <1>4. ASSUME NEW r \in Reader, xRead(r) \/ SkipMessage(r) \/ Reject(r)
        PROVE  UNCHANGED <<log, gone, present>>
    BY <1>3, <1>4 DEF xRead, SkipMessage, Reject
  <1>6. ASSUME NEW w \in Worker, Start(w) \/ Stop(w)
        PROVE  UNCHANGED <<log, gone, present>>
    BY <1>3, <1>6, StartStop
  <1>5. CASE UNCHANGED vars
    BY <1>3, <1>5 DEF vars
  <1> QED
    BY <1>1, <1>2, <1>4, <1>5, <1>6, SizesAssumption DEF Next, syncAsset

\* Dbsync implements Delivery: the rows of a stream appear message by message and in
\* its order, whatever readers, failures, restarts and the trimming of the stream do.
THEOREM ImplementsDelivery == Spec => IsDelivery
  <1>1. Init => Abstract!Init
    BY DEF Init, Abstract!Init, present
  <1> QED
    BY <1>1, TypeInit, TypeStep, SoundInit, SoundStep, StepDelivers, PTL
    DEF Spec, IsDelivery, Abstract!Spec
-----------------------------------------------------------------------------
(* How often a row is stored *)

\* A reader in state s may store row k of message m before it stops, or breaks off.
Pending(s, f, m, k) ==
    \/ s.pc = "reading" /\ m > s.id /\ m >= f
    \/ s.pc = "storing" /\ (m > s.next \/ (m = s.next /\ k >= s.row))

PendingAt(m, k) == {r \in Reader : Pending(reader[r], first, m, k)}

\* Each reader begun allows for one copy of a row, and so does each time its message was
\* broken off: what is stored and what may be stored is covered.
Counted(m, k) ==
    /\ IsFiniteSet(PendingAt(m, k))
    /\ copies[m][k] <= MaxCopies
    /\ \/ failedIn[m] >= MaxCopies
       \/ copies[m][k] + Cardinality(PendingAt(m, k)) <= begun + failedIn[m]

AllCounted == \A m \in Message, k \in Row : Counted(m, k)

\* A reader that breaks off goes back by one message, or to where the stream begins.
Contiguous ==
    \A r \in Reader : Storing(r) => reader[r].next = reader[r].id + 1 \/ reader[r].next <= first

TrimmedTo == first = IF Len(log) > TrimSize THEN Len(log) + 1 - TrimSize ELSE 1

LEMMA CountTypes ==
    ASSUME TypeOK, NEW m \in Message, NEW k \in Row
    PROVE  /\ copies[m][k] \in Nat /\ failedIn[m] \in Nat /\ begun \in Nat
           /\ first \in Nat /\ Len(log) \in Nat /\ MaxCopies \in Nat \ {0} /\ TrimSize \in Nat \ {0}
           /\ m \in Nat /\ k \in Nat
           /\ \A r \in Reader : /\ reader[r] \in ReaderState
                                /\ reader[r].id \in Nat /\ reader[r].next \in Nat /\ reader[r].row \in Nat
  <1>1. CountType /\ StreamType /\ ReadersType
    BY TypeParts
  <1>2. \A r \in Reader : /\ reader[r] \in ReaderState
                          /\ reader[r].id \in Nat /\ reader[r].next \in Nat /\ reader[r].row \in Nat
    BY <1>1 DEF ReadersType, ReaderState
  <1>3. copies[m][k] \in Nat /\ failedIn[m] \in Nat /\ begun \in Nat
    BY <1>1 DEF CountType
  <1>4. first \in Nat /\ Len(log) \in Nat
    BY <1>1, LogEntries DEF StreamType
  <1> QED
    BY <1>2, <1>3, <1>4, BoundsAssumption DEF Message, Row

\* What one element may change of a cardinality.
LEMMA OneMoves ==
    ASSUME NEW P, NEW Q, NEW r, IsFiniteSet(P), P \ {r} = Q \ {r}
    PROVE  /\ IsFiniteSet(Q) /\ Cardinality(P) \in Nat /\ Cardinality(Q) \in Nat
           /\ Cardinality(Q) <= Cardinality(P) + 1
           /\ (r \in Q => r \in P) => Cardinality(Q) <= Cardinality(P)
           /\ r \in P /\ r \notin Q => Cardinality(Q) + 1 <= Cardinality(P)
  <1> DEFINE R == P \ {r}
  <1>1. IsFiniteSet(R) /\ Cardinality(R) \in Nat /\ r \notin R
    BY FS_Subset, FS_CardinalityType
  <1>2. IsFiniteSet(R \cup {r}) /\ Cardinality(R \cup {r}) = Cardinality(R) + 1
    BY <1>1, FS_AddElement
  <1>3. P = R \/ P = R \cup {r}
    OBVIOUS
  <1>4. Q = R \/ Q = R \cup {r}
    OBVIOUS
  <1> HIDE DEF R
  <1>5. r \in P => P = R \cup {r}
    BY <1>1, <1>3
  <1>6. r \notin Q => Q = R
    BY <1>4
  <1>7. r \in Q => Q = R \cup {r}
    BY <1>1, <1>4
  <1>8. /\ IsFiniteSet(Q) /\ Cardinality(P) \in Nat /\ Cardinality(Q) \in Nat
        /\ Cardinality(Q) <= Cardinality(R) + 1 /\ Cardinality(R) <= Cardinality(P)
    <2> DEFINE p == Cardinality(P)
               q == Cardinality(Q)
               n == Cardinality(R)
    <2>1. n \in Nat /\ (p = n \/ p = n + 1)
      <3>1. CASE P = R
        BY <1>1, <3>1
      <3>2. CASE P = R \cup {r}
        BY <1>1, <1>2, <3>2
      <3> QED
        BY <1>3, <3>1, <3>2
    <2>2. IsFiniteSet(Q) /\ (q = n \/ q = n + 1)
      <3>1. CASE Q = R
        BY <1>1, <3>1
      <3>2. CASE Q = R \cup {r}
        BY <1>1, <1>2, <3>2
      <3> QED
        BY <1>4, <3>1, <3>2
    <2> HIDE DEF p, q, n
    <2>3. p \in Nat /\ q \in Nat /\ q <= n + 1 /\ n <= p
      BY <2>1, <2>2
    <2> QED
      BY <2>2, <2>3 DEF p, q, n
  <1>9. Cardinality(Q) <= Cardinality(R) + 1 /\ Cardinality(R) <= Cardinality(P)
    BY <1>8
  <1>10. ASSUME r \in Q => r \in P
         PROVE  Cardinality(Q) <= Cardinality(P)
    <2>1. CASE r \in Q
      BY <1>5, <1>7, <1>8, <1>10, <2>1
    <2>2. CASE r \notin Q
      BY <1>6, <1>9, <2>2
    <2> QED
      BY <2>1, <2>2
  <1>11. ASSUME r \in P, r \notin Q
         PROVE  Cardinality(Q) + 1 <= Cardinality(P)
    BY <1>1, <1>2, <1>5, <1>6, <1>11
  <1> QED
    BY <1>1, <1>8, <1>9, <1>10, <1>11

\* A reader r moves to state s.
LEMMA ReaderMoves ==
    ASSUME TypeOK, NEW r \in Reader, NEW s, reader' = [reader EXCEPT ![r] = s], UNCHANGED first,
           NEW m \in Message, NEW k \in Row, IsFiniteSet(PendingAt(m, k))
    PROVE  /\ IsFiniteSet(PendingAt(m, k)')
           /\ Cardinality(PendingAt(m, k)) \in Nat /\ Cardinality(PendingAt(m, k)') \in Nat
           /\ Cardinality(PendingAt(m, k)') <= Cardinality(PendingAt(m, k)) + 1
           /\ (Pending(s, first, m, k) => Pending(reader[r], first, m, k)) =>
                 Cardinality(PendingAt(m, k)') <= Cardinality(PendingAt(m, k))
           /\ Pending(reader[r], first, m, k) /\ ~ Pending(s, first, m, k) =>
                 Cardinality(PendingAt(m, k)') + 1 <= Cardinality(PendingAt(m, k))
  <1> DEFINE P == PendingAt(m, k)
             Q == {v \in Reader : Pending(reader'[v], first, m, k)}
  <1>1. PendingAt(m, k)' = Q
    BY DEF PendingAt, Pending
  <1>2. \A v \in Reader : reader'[v] = IF v = r THEN s ELSE reader[v]
    BY TypeParts DEF ReadersType
  <1>3. P \ {r} = Q \ {r}
    BY <1>2 DEF PendingAt
  <1>4. r \in P <=> Pending(reader[r], first, m, k)
    BY DEF PendingAt
  <1>5. r \in Q <=> Pending(s, first, m, k)
    BY <1>2
  <1> HIDE DEF P, Q
  <1>6. /\ IsFiniteSet(Q) /\ Cardinality(P) \in Nat /\ Cardinality(Q) \in Nat
        /\ Cardinality(Q) <= Cardinality(P) + 1
        /\ (r \in Q => r \in P) => Cardinality(Q) <= Cardinality(P)
        /\ r \in P /\ r \notin Q => Cardinality(Q) + 1 <= Cardinality(P)
    BY <1>3, OneMoves DEF P
  <1> QED
    BY <1>1, <1>4, <1>5, <1>6 DEF P

\* After a row only what comes behind it is pending.
LEMMA AfterRowPending ==
    ASSUME TypeOK, NEW r \in Reader, Storing(r), NEW m \in Message, NEW k \in Row
    PROVE  Pending(AfterRow(reader[r]), first, m, k) =>
              /\ Pending(reader[r], first, m, k)
              /\ ~ (m = reader[r].next /\ k = reader[r].row)
  <1>1. PICK c : c = reader[r]
    OBVIOUS
  <1>2. LogType /\ c \in ReaderState /\ StateOK(c) /\ c.pc = "storing"
    BY <1>1, StoringMessage
  <1>3. m \in Nat /\ k \in Nat /\ c.next \in Nat /\ c.row \in Nat /\ c.id \in Nat
    BY <1>1, CountTypes
  <1>4. PICK a : a = AfterRow(c)
    OBVIOUS
  <1>5. CASE c.row < log[c.next]
    <2>1. a.pc = "storing" /\ a.next = c.next /\ a.row = c.row + 1
      BY <1>2, <1>4, <1>5, AfterRowCases
    <2> QED
      BY <1>1, <1>2, <1>3, <1>4, <2>1 DEF Pending
  <1>6. CASE ~ c.row < log[c.next] /\ c.next < c.upto
    <2>1. a.pc = "storing" /\ a.next = c.next + 1 /\ a.row = 1
      BY <1>2, <1>4, <1>6, AfterRowCases
    <2> QED
      BY <1>1, <1>2, <1>3, <1>4, <2>1 DEF Pending
  <1>7. CASE ~ c.row < log[c.next] /\ ~ c.next < c.upto
    <2>1. a.pc = "reading" /\ a.id = c.next
      BY <1>2, <1>4, <1>7, AfterRowCases DEF Reading
    <2> QED
      BY <1>1, <1>2, <1>3, <1>4, <2>1 DEF Pending
  <1> QED
    BY <1>5, <1>6, <1>7

\* A reader that breaks off has, of other messages, nothing pending it had not before.
LEMMA BreakOffPending ==
    ASSUME TypeOK, Contiguous, NEW r \in Reader, Storing(r), NEW m \in Message, NEW k \in Row,
           m # reader[r].next, Pending(RestartMessage(reader[r]), first, m, k)
    PROVE  Pending(reader[r], first, m, k)
  <1>1. m > reader[r].id /\ m >= first
    BY DEF Pending, RestartMessage, Reading
  <1>2. reader[r].next = reader[r].id + 1 \/ reader[r].next <= first
    BY DEF Contiguous
  <1>3. m \in Nat /\ first \in Nat /\ reader[r].id \in Nat /\ reader[r].next \in Nat
    BY CountTypes
  <1>4. m > reader[r].next
    BY <1>1, <1>2, <1>3
  <1> QED
    BY <1>4 DEF Pending, Storing

LEMMA CappedSteps ==
    ASSUME NEW n \in Nat
    PROVE  /\ Capped(n) \in Nat /\ Capped(n) <= n + 1 /\ Capped(n) >= n
           /\ n <= MaxCopies => Capped(n) <= MaxCopies
           /\ Capped(n) = n + 1 \/ Capped(n) >= MaxCopies
  BY BoundsAssumption DEF Capped

\* What a step may change of the account of a row.
LEMMA Balance ==
    ASSUME TypeOK, TypeOK', NEW m \in Message, NEW k \in Row, Counted(m, k),
           IsFiniteSet(PendingAt(m, k)'), copies'[m][k] <= MaxCopies, failedIn'[m] >= failedIn[m],
           \/ failedIn'[m] >= MaxCopies
           \/ copies'[m][k] + Cardinality(PendingAt(m, k)') + begun + failedIn[m]
                <= copies[m][k] + Cardinality(PendingAt(m, k)) + begun' + failedIn'[m]
    PROVE  Counted(m, k)'
  <1>1. /\ copies[m][k] \in Nat /\ failedIn[m] \in Nat /\ begun \in Nat /\ MaxCopies \in Nat
    BY CountTypes
  <1>2. copies'[m][k] \in Nat /\ failedIn'[m] \in Nat /\ begun' \in Nat
    BY TypeParts DEF CountType
  <1>3. Cardinality(PendingAt(m, k)) \in Nat /\ Cardinality(PendingAt(m, k)') \in Nat
    BY FS_CardinalityType DEF Counted
  <1>4. \/ failedIn'[m] >= MaxCopies
        \/ copies'[m][k] + Cardinality(PendingAt(m, k)') <= begun' + failedIn'[m]
    BY <1>1, <1>2, <1>3 DEF Counted
  <1> QED
    BY <1>4 DEF Counted

\* What Stored does to the copies of a row.
LEMMA StoredCopies ==
    ASSUME TypeOK, NEW r \in Reader, Stored(r), NEW m \in Message, NEW k \in Row
    PROVE  IF m = reader[r].next /\ k = reader[r].row
           THEN copies'[m][k] = Capped(copies[m][k])
           ELSE copies'[m][k] = copies[m][k]
  <1>1. PICK n : n = reader[r].next
    OBVIOUS
  <1>2. PICK i : i = reader[r].row
    OBVIOUS
  <1>3. /\ n \in Message /\ i \in Row
        /\ OneMore(n, i)
    BY <1>1, <1>2, StoredFacts
  <1>4. copies \in [Message -> [Row -> Nat]]
    BY TypeParts DEF CountType
  <1>5. copies' = [copies EXCEPT ![n] = [copies[n] EXCEPT ![i] = Capped(copies[n][i])]]
    BY <1>3 DEF OneMore
  <1>6. copies'[m] = IF m = n THEN [copies[n] EXCEPT ![i] = Capped(copies[n][i])] ELSE copies[m]
    BY <1>4, <1>5
  <1>7. copies[n] \in [Row -> Nat]
    BY <1>3, <1>4
  <1> QED
    BY <1>1, <1>2, <1>3, <1>6, <1>7

\* What a broken-off message counts.
LEMMA FailedSteps ==
    ASSUME TypeOK, NEW n \in Message, NEW m \in Message,
           failedIn' = [failedIn EXCEPT ![n] = Capped(failedIn[n])]
    PROVE  failedIn'[m] = IF m = n THEN Capped(failedIn[m]) ELSE failedIn[m]
  <1>1. failedIn \in [Message -> Nat]
    BY TypeParts DEF CountType
  <1> QED
    BY <1>1

LEMMA PublishCounted ==
    ASSUME TypeOK, TypeOK', TrimmedTo, NEW n \in 0..MaxRows, NEW unstorable \in BOOLEAN,
           Publish(n, unstorable)
    PROVE  /\ first' >= first /\ TrimmedTo'
           /\ \A m \in Message, k \in Row : Counted(m, k) => Counted(m, k)'
  <1>1. /\ Len(log) \in Nat /\ Len(log') = Len(log) + 1 /\ TrimSize \in Nat \ {0}
        /\ first' = (IF Len(log) + 1 > TrimSize THEN Len(log) + 2 - TrimSize ELSE 1)
        /\ UNCHANGED <<copies, up, reader, failedIn, begun, faults>>
    <2>1. Len(log) \in Nat /\ Len(log') = Len(log) + 1
      BY PublishType, TypeParts, LogEntries DEF StreamType
    <2> QED
      BY <2>1, BoundsAssumption DEF Publish, boundVars
  <1>2. first' >= first /\ TrimmedTo'
    BY <1>1 DEF TrimmedTo
  <1>3. ASSUME NEW m \in Message, NEW k \in Row, Counted(m, k)
        PROVE  Counted(m, k)'
    <2> DEFINE P == PendingAt(m, k)
               Q == {r \in Reader : Pending(reader[r], first', m, k)}
    <2>1. PendingAt(m, k)' = Q
      BY <1>1 DEF PendingAt, Pending
    <2>2. first \in Nat /\ first' \in Nat /\ m \in Nat
      BY <1>1, CountTypes
    <2>3. Q \subseteq P
      BY <1>2, <2>2 DEF PendingAt, Pending
    <2> HIDE DEF P, Q
    <2>4. IsFiniteSet(P)
      BY <1>3 DEF Counted, P
    <2>5. IsFiniteSet(Q) /\ Cardinality(Q) <= Cardinality(P)
      BY <2>3, <2>4, FS_Subset
    <2>6. Cardinality(Q) \in Nat /\ Cardinality(P) \in Nat
      BY <2>4, <2>5, FS_CardinalityType
    <2>7. copies[m][k] \in Nat /\ failedIn[m] \in Nat /\ begun \in Nat /\ copies[m][k] <= MaxCopies
      BY <1>3, CountTypes DEF Counted
    <2>8. copies'[m][k] + Cardinality(PendingAt(m, k)') + begun + failedIn[m]
            <= copies[m][k] + Cardinality(PendingAt(m, k)) + begun' + failedIn'[m]
      <3>1. PendingAt(m, k) = P /\ PendingAt(m, k)' = Q
        BY <2>1 DEF P
      <3>2. copies'[m][k] = copies[m][k] /\ failedIn'[m] = failedIn[m] /\ begun' = begun
        BY <1>1
      <3> QED
        BY <2>5, <2>6, <2>7, <3>1, <3>2
    <2>9. /\ IsFiniteSet(PendingAt(m, k)') /\ copies'[m][k] <= MaxCopies
          /\ failedIn'[m] >= failedIn[m]
      BY <1>1, <2>1, <2>5, <2>7
    <2> QED
      BY <1>3, <2>8, <2>9, Balance
  <1> QED
    BY <1>2, <1>3

\* A worker has a reader for every time its list names the stream.
LEMMA ReadersOfWorker ==
    ASSUME NEW w \in Worker
    PROVE  /\ \A r \in Reader : r[1] = w => r \in {w} \X (1..Listed[w])
           /\ IsFiniteSet({w} \X (1..Listed[w])) /\ Cardinality({w} \X (1..Listed[w])) = Listed[w]
  <1>1. Listed[w] \in Nat
    BY ListedAssumption
  <1>2. IsFiniteSet(1..Listed[w]) /\ Cardinality(1..Listed[w]) = Listed[w]
    <2>1. IsFiniteSet(1..Listed[w]) /\ Cardinality(1..Listed[w]) = IF 1 > Listed[w] THEN 0 ELSE Listed[w] - 1 + 1
      BY <1>1, FS_Interval
    <2> QED
      BY <1>1, <2>1
  <1>3. IsFiniteSet({w}) /\ Cardinality({w}) = 1
    BY FS_Singleton
  <1>4. IsFiniteSet({w} \X (1..Listed[w])) /\ Cardinality({w} \X (1..Listed[w])) = Listed[w]
    <2> DEFINE I == 1..Listed[w]
    <2>1. IsFiniteSet({w}) /\ IsFiniteSet(I)
      BY <1>2, <1>3
    <2> HIDE DEF I
    <2>2. /\ IsFiniteSet({w} \X I)
          /\ Cardinality({w} \X I) = Cardinality({w}) * Cardinality(I)
      BY <2>1, FS_Product
    <2>3. Cardinality({w}) * Cardinality(I) = Listed[w]
      BY <1>1, <1>2, <1>3 DEF I
    <2> QED
      BY <2>2, <2>3 DEF I
  <1>5. ASSUME NEW r \in Reader, r[1] = w
        PROVE  r \in {w} \X (1..Listed[w])
    <2>1. PICK v \in Worker : r \in {v} \X (1..Listed[v])
      BY DEF Reader
    <2> QED
      BY <1>5, <2>1
  <1> QED
    BY <1>1, <1>4, <1>5

\* As many rows become pending as readers begin.
LEMMA StartCounted ==
    ASSUME TypeOK, TypeOK', NEW w \in Worker, Start(w), NEW m \in Message, NEW k \in Row,
           Counted(m, k)
    PROVE  Counted(m, k)'
  <1> DEFINE P == PendingAt(m, k)
             N == {w} \X (1..Listed[w])
             Q == {r \in Reader : Pending(reader'[r], first, m, k)}
  <1>1. /\ IsFiniteSet(P) /\ copies[m][k] <= MaxCopies /\ Listed[w] \in Nat
        /\ copies[m][k] \in Nat /\ failedIn[m] \in Nat /\ begun \in Nat
        /\ UNCHANGED <<copies, failedIn, first>>
    BY CountTypes, ListedAssumption DEF Counted, Start, streamVars
  <1>2. PendingAt(m, k)' = Q
    BY <1>1 DEF PendingAt, Pending
  <1>3. /\ IsFiniteSet(Q) /\ Cardinality(Q) \in Nat /\ Cardinality(P) \in Nat
        /\ Cardinality(Q) + begun <= Cardinality(P) + begun'
    <2>1. CASE UNCHANGED <<reader, begun>>
      <3>1. Q = P
        BY <2>1 DEF PendingAt
      <3>2. Cardinality(P) \in Nat
        BY <1>1, FS_CardinalityType
      <3> HIDE DEF P, Q, N
      <3> QED
        BY <1>1, <2>1, <3>1, <3>2
    <2>2. CASE /\ begun' = begun + Listed[w]
               /\ reader' = [r \in Reader |-> IF r[1] = w THEN Reading(StartID) ELSE reader[r]]
      <3>1. Q \subseteq P \cup N
        <4>1. ASSUME NEW r \in Reader, r[1] # w PROVE reader'[r] = reader[r]
          BY <2>2, <4>1
        <4> QED
          BY <4>1, ReadersOfWorker DEF PendingAt
      <3>2. IsFiniteSet(N) /\ Cardinality(N) = Listed[w]
        BY ReadersOfWorker
      <3> HIDE DEF P, Q, N
      <3>3. /\ IsFiniteSet(P \cup N)
            /\ Cardinality(P \cup N) = Cardinality(P) + Cardinality(N) - Cardinality(P \cap N)
        BY <1>1, <3>2, FS_Union
      <3>4. IsFiniteSet(P \cap N)
        BY <1>1, FS_Subset
      <3>5. IsFiniteSet(Q) /\ Cardinality(Q) <= Cardinality(P \cup N)
        BY <3>1, <3>3, FS_Subset
      <3>6. /\ Cardinality(P) \in Nat /\ Cardinality(P \cap N) \in Nat /\ Cardinality(Q) \in Nat
            /\ Cardinality(P \cup N) \in Nat
        BY <1>1, <3>3, <3>4, <3>5, FS_CardinalityType
      <3> QED
        BY <1>1, <2>2, <3>2, <3>3, <3>5, <3>6
    <2> QED
      BY <2>1, <2>2 DEF Start
  <1> HIDE DEF P, Q
  <1>4. begun' \in Nat /\ PendingAt(m, k) = P
    BY StartStop DEF P
  <1>5. /\ copies'[m][k] + Cardinality(PendingAt(m, k)') + begun + failedIn[m]
             <= copies[m][k] + Cardinality(PendingAt(m, k)) + begun' + failedIn'[m]
        /\ IsFiniteSet(PendingAt(m, k)')
        /\ failedIn'[m] >= failedIn[m] /\ copies'[m][k] <= MaxCopies
    BY <1>1, <1>2, <1>3, <1>4
  <1> QED
    BY <1>5, Balance

\* A step after which reader r has nothing pending that it had not before.
LEMMA NothingMorePending ==
    ASSUME TypeOK, TypeOK', NEW r \in Reader, NEW s, reader' = [reader EXCEPT ![r] = s],
           UNCHANGED <<first, begun>>, NEW m \in Message, NEW k \in Row, Counted(m, k),
           copies'[m][k] = copies[m][k], failedIn'[m] >= failedIn[m],
           Pending(s, first, m, k) => Pending(reader[r], first, m, k)
    PROVE  Counted(m, k)'
  <1>1. IsFiniteSet(PendingAt(m, k)) /\ copies[m][k] <= MaxCopies
    BY DEF Counted
  <1>2. /\ IsFiniteSet(PendingAt(m, k)')
        /\ Cardinality(PendingAt(m, k)) \in Nat /\ Cardinality(PendingAt(m, k)') \in Nat
        /\ Cardinality(PendingAt(m, k)') <= Cardinality(PendingAt(m, k))
    BY <1>1, ReaderMoves
  <1>3. copies[m][k] \in Nat /\ failedIn[m] \in Nat /\ begun \in Nat /\ failedIn'[m] \in Nat
    BY CountTypes, TypeParts DEF CountType
  <1>4. copies'[m][k] + Cardinality(PendingAt(m, k)') + begun + failedIn[m]
             <= copies[m][k] + Cardinality(PendingAt(m, k)) + begun' + failedIn'[m]
    BY <1>2, <1>3
  <1> QED
    BY <1>1, <1>2, <1>4, Balance

\* A worker that stops takes what was pending at its readers with it.
LEMMA StopCounted ==
    ASSUME TypeOK, TypeOK', NEW w \in Worker, Stop(w), NEW m \in Message, NEW k \in Row,
           Counted(m, k)
    PROVE  Counted(m, k)'
  <1>1. /\ IsFiniteSet(PendingAt(m, k)) /\ copies[m][k] <= MaxCopies
        /\ copies[m][k] \in Nat /\ failedIn[m] \in Nat /\ begun \in Nat
        /\ UNCHANGED <<copies, failedIn, first, begun>>
    BY CountTypes DEF Counted, Stop, streamVars, boundVars
  <1>2. PendingAt(m, k)' \subseteq PendingAt(m, k)
    <2>1. ~ Pending(Down, first, m, k)
      BY DEF Pending, Down
    <2>2. ASSUME NEW r \in Reader, Pending(reader'[r], first, m, k)
          PROVE  Pending(reader[r], first, m, k)
      <3>1. reader'[r] = Down \/ reader'[r] = reader[r]
        BY DEF Stop
      <3> QED
        BY <2>1, <2>2, <3>1
    <2>3. PendingAt(m, k)' = {r \in Reader : Pending(reader'[r], first, m, k)}
      BY <1>1 DEF PendingAt, Pending
    <2> QED
      BY <2>2, <2>3 DEF PendingAt
  <1>3. /\ IsFiniteSet(PendingAt(m, k)')
        /\ Cardinality(PendingAt(m, k)') <= Cardinality(PendingAt(m, k))
        /\ Cardinality(PendingAt(m, k)') \in Nat /\ Cardinality(PendingAt(m, k)) \in Nat
    BY <1>1, <1>2, FS_Subset, FS_CardinalityType
  <1>4. /\ copies'[m][k] + Cardinality(PendingAt(m, k)') + begun + failedIn[m]
             <= copies[m][k] + Cardinality(PendingAt(m, k)) + begun' + failedIn'[m]
        /\ failedIn'[m] >= failedIn[m] /\ copies'[m][k] <= MaxCopies
    BY <1>1, <1>3
  <1> QED
    BY <1>3, <1>4, Balance

LEMMA xReadCounted ==
    ASSUME TypeOK, TypeOK', NEW r \in Reader, xRead(r), NEW m \in Message, NEW k \in Row,
           Counted(m, k)
    PROVE  Counted(m, k)'
  <1>1. PICK o : o = Oldest(r)
    OBVIOUS
  <1>2. PICK s : s = ReplyState(reader[r], o)
    OBVIOUS
  <1>3. /\ reader' = [reader EXCEPT ![r] = s] /\ UNCHANGED <<first, begun, copies, failedIn>>
        /\ reader[r].pc = "reading" /\ o \in 1..Len(log)
        /\ s.pc = "storing" /\ s.next = o
    BY <1>1, <1>2, xReadReply, ReplyType, TypeParts DEF streamVars, boundVars, StreamType
  <1>4. /\ m \in Nat /\ first \in Nat /\ reader[r].id \in Nat /\ o \in Nat
        /\ failedIn[m] \in Nat
    BY <1>3, CountTypes
  <1>5. ASSUME Pending(s, first, m, k) PROVE Pending(reader[r], first, m, k)
    <2>1. m >= o
      BY <1>3, <1>4, <1>5 DEF Pending
    <2>2. m > reader[r].id /\ m >= first
      BY <1>1, <1>4, <2>1 DEF Oldest
    <2> QED
      BY <1>3, <2>2 DEF Pending
  <1>6. failedIn'[m] >= failedIn[m]
    BY <1>3, <1>4
  <1> QED
    BY <1>3, <1>5, <1>6, NothingMorePending

LEMMA SkipCounted ==
    ASSUME TypeOK, TypeOK', NEW r \in Reader, SkipMessage(r), NEW m \in Message, NEW k \in Row,
           Counted(m, k)
    PROVE  Counted(m, k)'
  <1>1. /\ reader' = [reader EXCEPT ![r] = AfterRow(reader[r])] /\ Storing(r)
        /\ UNCHANGED <<first, begun, copies, failedIn>>
    BY DEF SkipMessage, streamVars, boundVars
  <1>2. failedIn'[m] >= failedIn[m]
    BY <1>1, CountTypes
  <1> QED
    BY <1>1, <1>2, AfterRowPending, NothingMorePending

LEMMA createCounted ==
    ASSUME TypeOK, TypeOK', NEW r \in Reader, create(r), NEW m \in Message, NEW k \in Row,
           Counted(m, k)
    PROVE  Counted(m, k)'
  <1>1. /\ reader' = [reader EXCEPT ![r] = AfterRow(reader[r])] /\ Stored(r) /\ Storing(r)
        /\ UNCHANGED <<first, begun, failedIn>>
    BY DEF create, Stored, streamVars, boundVars
  <1>2. failedIn'[m] >= failedIn[m] /\ failedIn[m] \in Nat /\ copies[m][k] \in Nat /\ begun \in Nat
    BY <1>1, CountTypes
  <1>3. CASE m = reader[r].next /\ k = reader[r].row
    <2>1. copies'[m][k] <= copies[m][k] + 1 /\ copies'[m][k] <= MaxCopies /\ copies'[m][k] \in Nat
      BY <1>1, <1>2, <1>3, StoredCopies, CappedSteps DEF Counted
    <2>2. Pending(reader[r], first, m, k) /\ ~ Pending(AfterRow(reader[r]), first, m, k)
      <3>1. k \in Nat
        BY CountTypes
      <3>2. Pending(reader[r], first, m, k)
        BY <1>1, <1>3, <3>1 DEF Pending, Storing
      <3> QED
        BY <1>1, <1>3, <3>2, AfterRowPending
    <2>3. IsFiniteSet(PendingAt(m, k))
      BY DEF Counted
    <2>4. /\ IsFiniteSet(PendingAt(m, k)')
          /\ Cardinality(PendingAt(m, k)) \in Nat /\ Cardinality(PendingAt(m, k)') \in Nat
          /\ Cardinality(PendingAt(m, k)') + 1 <= Cardinality(PendingAt(m, k))
      BY <1>1, <2>2, <2>3, ReaderMoves
    <2>5. copies'[m][k] + Cardinality(PendingAt(m, k)') + begun + failedIn[m]
             <= copies[m][k] + Cardinality(PendingAt(m, k)) + begun' + failedIn'[m]
      BY <1>1, <1>2, <2>1, <2>4
    <2> QED
      BY <1>2, <2>1, <2>4, <2>5, Balance
  <1>4. CASE ~ (m = reader[r].next /\ k = reader[r].row)
    <2>1. copies'[m][k] = copies[m][k]
      BY <1>1, <1>4, StoredCopies
    <2> QED
      BY <1>1, <1>2, <2>1, AfterRowPending, NothingMorePending
  <1> QED
    BY <1>3, <1>4

LEMMA BreakOffCounted ==
    ASSUME TypeOK, TypeOK', Contiguous, NEW r \in Reader, Reject(r) \/ LoseAnswer(r),
           NEW m \in Message, NEW k \in Row, Counted(m, k)
    PROVE  Counted(m, k)'
  <1>1. /\ reader' = [reader EXCEPT ![r] = RestartMessage(reader[r])] /\ Storing(r)
        /\ failedIn' = [failedIn EXCEPT ![reader[r].next] = Capped(failedIn[reader[r].next])]
        /\ UNCHANGED <<first, begun>>
        /\ UNCHANGED copies \/ Stored(r)
    BY DEF Reject, LoseAnswer, Stored, BreakOff, streamVars
  <1>2. failedIn[m] \in Nat /\ copies[m][k] \in Nat /\ begun \in Nat /\ k \in Nat
    BY CountTypes
  <1>3. failedIn'[m] = IF m = reader[r].next THEN Capped(failedIn[m]) ELSE failedIn[m]
    <2>1. reader[r].next \in Message
      BY <1>1, StoringMessage
    <2> QED
      BY <1>1, <2>1, FailedSteps
  <1>4. CASE m # reader[r].next
    <2>1. copies'[m][k] = copies[m][k] /\ failedIn'[m] >= failedIn[m]
      BY <1>1, <1>2, <1>3, <1>4, StoredCopies
    <2> QED
      BY <1>1, <1>4, <2>1, BreakOffPending, NothingMorePending
  <1>5. CASE m = reader[r].next
    <2>1. /\ failedIn'[m] \in Nat /\ failedIn'[m] >= failedIn[m]
          /\ failedIn'[m] = failedIn[m] + 1 \/ failedIn'[m] >= MaxCopies
      BY <1>2, <1>3, <1>5, CappedSteps
    <2>2. IsFiniteSet(PendingAt(m, k)) /\ copies[m][k] <= MaxCopies
      BY DEF Counted
    <2>3. /\ IsFiniteSet(PendingAt(m, k)')
          /\ Cardinality(PendingAt(m, k)) \in Nat /\ Cardinality(PendingAt(m, k)') \in Nat
          /\ Cardinality(PendingAt(m, k)') <= Cardinality(PendingAt(m, k)) + 1
          /\ Pending(reader[r], first, m, k) =>
                Cardinality(PendingAt(m, k)') <= Cardinality(PendingAt(m, k))
      BY <1>1, <2>2, ReaderMoves
    <2>4. CASE copies'[m][k] = copies[m][k]
      <3>1. \/ failedIn'[m] >= MaxCopies
            \/ copies'[m][k] + Cardinality(PendingAt(m, k)') + begun + failedIn[m]
                 <= copies[m][k] + Cardinality(PendingAt(m, k)) + begun' + failedIn'[m]
        BY <1>1, <1>2, <2>1, <2>3, <2>4
      <3> QED
        BY <2>1, <2>2, <2>3, <2>4, <3>1, Balance
    <2>5. CASE k = reader[r].row /\ copies'[m][k] = Capped(copies[m][k])
      <3>1. copies'[m][k] <= copies[m][k] + 1 /\ copies'[m][k] <= MaxCopies /\ copies'[m][k] \in Nat
        BY <1>2, <2>2, <2>5, CappedSteps
      <3>2. Pending(reader[r], first, m, k)
        BY <1>1, <1>2, <1>5, <2>5 DEF Pending, Storing
      <3>3. \/ failedIn'[m] >= MaxCopies
            \/ copies'[m][k] + Cardinality(PendingAt(m, k)') + begun + failedIn[m]
                 <= copies[m][k] + Cardinality(PendingAt(m, k)) + begun' + failedIn'[m]
        BY <1>1, <1>2, <2>1, <2>3, <3>1, <3>2
      <3> QED
        BY <2>1, <2>2, <2>3, <3>1, <3>3, Balance
    <2> QED
      BY <1>1, <1>5, <2>4, <2>5, StoredCopies
  <1> QED
    BY <1>4, <1>5

-----------------------------------------------------------------------------
(* The account is kept by every step. *)

\* A reader that begins, ends or breaks off is not within a reply; xRead and AfterRow
\* put it at the message behind its id, or at the oldest one.
LEMMA ContiguousStep ==
    ASSUME TypeOK, TypeOK', TrimmedTo, Contiguous, [Next]_vars
    PROVE  Contiguous'
  <1> DEFINE Fits(s) == s.pc = "storing" => s.next = s.id + 1 \/ s.next <= first
  <1>1. ASSUME NEW r \in Reader, NEW s, reader' = [reader EXCEPT ![r] = s],
               UNCHANGED streamVars, Fits(s)
        PROVE  Contiguous'
    <2>1. \A v \in Reader : reader'[v] = IF v = r THEN s ELSE reader[v]
      BY <1>1, TypeParts DEF ReadersType
    <2> QED
      BY <1>1, <2>1 DEF Contiguous, Storing, streamVars
  <1>2. ASSUME UNCHANGED reader, first' >= first
        PROVE  Contiguous'
    <2>1. first \in Nat /\ first' \in Nat /\ \A v \in Reader : reader[v].next \in Nat
      BY TypeParts, LogEntries DEF StreamType, ReadersType, ReaderState
    <2> QED
      BY <1>2, <2>1 DEF Contiguous, Storing
  <1>3. ASSUME NEW n \in 0..MaxRows, NEW unstorable \in BOOLEAN, Publish(n, unstorable)
        PROVE  Contiguous'
    BY <1>2, <1>3, PublishCounted DEF Publish
  <1>4. ASSUME NEW w \in Worker, Start(w) \/ Stop(w)
        PROVE  Contiguous'
    <2>1. ASSUME NEW r \in Reader, reader'[r].pc = "storing"
          PROVE  reader'[r].next = reader'[r].id + 1 \/ reader'[r].next <= first'
      <3>1. reader'[r] = reader[r] /\ first' = first
        BY <1>4, <2>1, StartStop DEF Reading, Down, streamVars
      <3> QED
        BY <2>1, <3>1 DEF Contiguous, Storing
    <2> QED
      BY <2>1 DEF Contiguous, Storing
  <1>6. ASSUME NEW r \in Reader, xRead(r)
        PROVE  Contiguous'
    <2>1. PICK s : s = ReplyState(reader[r], Oldest(r))
      OBVIOUS
    <2>2. /\ reader' = [reader EXCEPT ![r] = s] /\ UNCHANGED streamVars
          /\ s.next = Oldest(r) /\ s.id = reader[r].id
      BY <1>6, <2>1, xReadReply, ReplyType, TypeParts DEF StreamType
    <2>3. Fits(s)
      <3>1. first \in Nat
        BY TypeParts, LogEntries DEF StreamType
      <3> QED
        BY <2>2, <3>1 DEF Oldest
    <2> QED
      BY <1>1, <2>2, <2>3
  <1>7. ASSUME NEW r \in Reader, SkipMessage(r) \/ create(r)
        PROVE  Contiguous'
    <2>1. PICK c : c = reader[r]
      OBVIOUS
    <2>2. PICK s : s = AfterRow(c)
      OBVIOUS
    <2>3. /\ reader' = [reader EXCEPT ![r] = s] /\ UNCHANGED streamVars /\ Storing(r)
      BY <1>7, <2>1, <2>2 DEF SkipMessage, create, Stored
    <2>4. LogType /\ c \in ReaderState /\ StateOK(c) /\ c.pc = "storing" /\ Fits(c)
      BY <2>1, <2>3, StoringMessage DEF Contiguous
    <2>5. CASE c.row < log[c.next]
      BY <1>1, <2>2, <2>3, <2>4, <2>5, AfterRowCases
    <2>6. CASE ~ c.row < log[c.next] /\ c.next < c.upto
      BY <1>1, <2>2, <2>3, <2>4, <2>6, AfterRowCases
    <2>7. CASE ~ c.row < log[c.next] /\ ~ c.next < c.upto
      <3>1. s.pc = "reading"
        BY <2>2, <2>4, <2>7, AfterRowCases DEF Reading
      <3> QED
        BY <1>1, <2>3, <3>1
    <2> QED
      BY <2>5, <2>6, <2>7
  <1>8. ASSUME NEW r \in Reader, Reject(r) \/ LoseAnswer(r)
        PROVE  Contiguous'
    <2>1. Fits(RestartMessage(reader[r]))
      BY DEF RestartMessage, Reading
    <2> QED
      BY <1>1, <1>8, <2>1 DEF Reject, LoseAnswer, BreakOff
  <1>9. CASE UNCHANGED vars
    <2>1. first \in Nat
      BY TypeParts, LogEntries DEF StreamType
    <2> QED
      BY <1>2, <1>9, <2>1 DEF vars, streamVars
  <1> QED
    BY <1>3, <1>4, <1>6, <1>7, <1>8, <1>9, SizesAssumption DEF Next, syncAsset

LEMMA CountStep ==
    ASSUME TypeOK, TypeOK', TrimmedTo, Contiguous, AllCounted, [Next]_vars
    PROVE  TrimmedTo' /\ AllCounted'
  <1>1. ASSUME NEW n \in 0..MaxRows, NEW unstorable \in BOOLEAN, Publish(n, unstorable)
        PROVE  TrimmedTo' /\ AllCounted'
    BY <1>1, PublishCounted DEF AllCounted
  <1>2. ASSUME UNCHANGED streamVars
        PROVE  TrimmedTo'
    BY <1>2 DEF streamVars, TrimmedTo
  <1>3. ASSUME NEW w \in Worker, Start(w) \/ Stop(w)
        PROVE  TrimmedTo' /\ AllCounted'
    BY <1>2, <1>3, StartStop, StartCounted, StopCounted DEF AllCounted
  <1>5. ASSUME NEW r \in Reader, syncAsset(r)
        PROVE  TrimmedTo' /\ AllCounted'
    <2>1. UNCHANGED streamVars
      BY <1>5 DEF syncAsset, xRead, SkipMessage, create, Reject, LoseAnswer
    <2>2. ASSUME NEW m \in Message, NEW k \in Row
          PROVE  Counted(m, k)'
      <3>1. Counted(m, k)
        BY DEF AllCounted
      <3> QED
        BY <1>5, <3>1, xReadCounted, SkipCounted, createCounted, BreakOffCounted DEF syncAsset
    <2> QED
      BY <1>2, <2>1, <2>2 DEF AllCounted
  <1>4. CASE UNCHANGED vars
    BY <1>4 DEF vars, streamVars, boundVars, TrimmedTo, AllCounted, Counted, PendingAt, Pending
  <1> QED
    BY <1>1, <1>3, <1>4, <1>5, SizesAssumption DEF Next

LEMMA CountInit == Init => TrimmedTo /\ Contiguous /\ AllCounted
  <1> SUFFICES ASSUME Init
               PROVE  TrimmedTo /\ Contiguous /\ AllCounted
    OBVIOUS
  <1>1. Len(log) = 0 /\ first = 1 /\ \A r \in Reader : reader[r] = Down
    BY DEF Init
  <1>2. TrimmedTo
    BY <1>1, BoundsAssumption DEF TrimmedTo
  <1>3. Contiguous
    BY <1>1 DEF Contiguous, Storing, Down
  <1>4. ASSUME NEW m \in Message, NEW k \in Row
        PROVE  Counted(m, k)
    <2>1. PendingAt(m, k) = {}
      BY <1>1 DEF PendingAt, Pending, Down
    <2>2. copies[m][k] = 0 /\ failedIn[m] = 0 /\ begun = 0
      BY DEF Init
    <2> QED
      BY <2>1, <2>2, FS_EmptySet, BoundsAssumption DEF Counted
  <1> QED
    BY <1>2, <1>3, <1>4 DEF AllCounted

\* A row is in its table at most once for every reader that was begun and for every time
\* the storing of its message was broken off: lists that name the stream several times,
\* overlapping or restarted workers, rejected inserts and lost answers are the only reasons
\* for a duplicate.
THEOREM DuplicatesAreExplained == Spec => []CopiesExplained
  <1>1. TypeOK /\ AllCounted => CopiesExplained
    <2> SUFFICES ASSUME TypeOK, AllCounted, NEW m \in Message, NEW k \in Row
                 PROVE  copies[m][k] <= begun + failedIn[m]
      BY DEF CopiesExplained
    <2>1. Counted(m, k)
      BY DEF AllCounted
    <2>2. /\ copies[m][k] \in Nat /\ failedIn[m] \in Nat /\ begun \in Nat /\ MaxCopies \in Nat
          /\ Cardinality(PendingAt(m, k)) \in Nat
      BY <2>1, CountTypes, FS_CardinalityType DEF Counted
    <2> QED
      BY <2>1, <2>2 DEF Counted
  <1> QED
    BY <1>1, TypeInit, TypeStep, CountInit, ContiguousStep, CountStep, PTL DEF Spec

================================================================================
