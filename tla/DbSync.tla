-------------------------------- MODULE DbSync --------------------------------
(***************************************************************************)
(* How the messages of a stream become rows of the database.               *)
(*                                                                         *)
(* One asset (stream) is modelled: assets share the connections, and       *)
(* nothing else.  A balance gives one row per currency, an order or a book *)
(* one row; a row is inserted and awaited before the next.  The reader     *)
(* notes the id of a message after its last row and starts the message     *)
(* over when an insert is rejected.                                        *)
(*                                                                         *)
(* A worker begins one reader for every time its list names the stream: a  *)
(* list the API server wrote names a balance once per pair of the plan     *)
(* (ConfigStore).  Every reader reads the stream from its start, and two   *)
(* workers may run for a while when reloads of dbsync overlap              *)
(* (AgentReload).                                                          *)
(*                                                                         *)
(* Messages are numbered as they come, and an id is a number.  What a row  *)
(* holds is left out.                                                      *)
(***************************************************************************)
EXTENDS Naturals, Sequences

CONSTANTS
    Worker,      \* workers that may run at the same time
    Listed,      \* how often the list of each names the stream
    Sizes,       \* numbers of rows a message may have
    MaxRows,     \* the most of them
    TrimSize,    \* entries a stream keeps (REDIS_STREAM_TRIM_SIZE)
    MaxMessages, \* bound: messages written
    MaxReaders,  \* bound: readers begun
    MaxFaults,   \* bound: inserts and connections that fail
    MaxCopies    \* bound: copies of a row and failures of a message counted

ASSUME ListedAssumption == Listed \in [Worker -> Nat]

ASSUME SizesAssumption == Sizes \subseteq 0..MaxRows

ASSUME BoundsAssumption ==
    /\ MaxRows \in Nat /\ TrimSize \in Nat \ {0} /\ MaxMessages \in Nat
    /\ MaxReaders \in Nat /\ MaxFaults \in Nat /\ MaxCopies \in Nat \ {0}

VARIABLES
    log,      \* the messages ever written, each by the number of its rows
    bad,      \* messages whose last row the database never accepts
    first,    \* the oldest message the stream still holds
    copies,   \* copies[m][k]: how often row k of message m is in its table
    up,       \* the workers that run
    reader,   \* their readers
    gone,     \* history: messages that left the stream before all their rows were stored
    failedIn, \* history: how often the storing of a message was broken off
    begun,    \* history: readers begun
    faults

streamVars == <<log, bad, first, gone>>
boundVars  == <<begun, faults>>
vars == <<streamVars, copies, up, reader, failedIn, boundVars>>

Message == 1..MaxMessages
Row == 1..MaxRows

\* The readers a worker may have.
Reader == UNION {{w} \X (1..Listed[w]) : w \in Worker}

Down == [pc |-> "down", id |-> 0, next |-> 0, upto |-> 0, row |-> 0]

\* A reader that waits for XREAD, behind message i.
Reading(i) == [pc |-> "reading", id |-> i, next |-> 0, upto |-> 0, row |-> 0]

Whole(m) == \A k \in 1..log[m] : copies[m][k] > 0

Capped(n) == IF n < MaxCopies THEN n + 1 ELSE n

-----------------------------------------------------------------------------
\* XADD and XTRIM of a writer.
Publish(n, unstorable) ==
    LET oldest == IF Len(log) + 1 > TrimSize THEN Len(log) + 2 - TrimSize ELSE 1
    IN  /\ Len(log) < MaxMessages
        /\ log' = Append(log, n)
        /\ bad' = IF unstorable THEN bad \cup {Len(log) + 1} ELSE bad
        /\ first' = oldest
        /\ gone' = gone \cup {m \in first..(oldest - 1) : ~ Whole(m)}
        /\ UNCHANGED <<copies, up, reader, failedIn, boundVars>>

\* Variant: only what is written from now on.
StartIDNow == Len(log)
\* The id the reader of an asset starts behind.
StartID == 0

\* A worker is started and connects to the database; its readers read from StartID.
\* Without the database it stays up and reads nothing.
Start(w) ==
    /\ w \notin up
    /\ up' = up \cup {w}
    /\ \/ /\ begun + Listed[w] <= MaxReaders /\ begun' = begun + Listed[w]
          /\ reader' = [r \in Reader |-> IF r[1] = w THEN Reading(StartID) ELSE reader[r]]
          /\ UNCHANGED faults
       \/ faults < MaxFaults /\ faults' = faults + 1 /\ UNCHANGED <<reader, begun>>
    /\ UNCHANGED <<streamVars, copies, failedIn>>

\* It is terminated, or dies, and its readers with it.
Stop(w) ==
    /\ w \in up
    /\ up' = up \ {w}
    /\ reader' = [r \in Reader |-> IF r[1] = w THEN Down ELSE reader[r]]
    /\ UNCHANGED <<streamVars, copies, failedIn, boundVars>>

\* What the stream still holds behind the id.
xRead(r) ==
    LET oldest == IF reader[r].id < first THEN first ELSE reader[r].id + 1
    IN  /\ reader[r].pc = "reading" /\ oldest <= Len(log)
        /\ reader' = [reader EXCEPT ![r] = [@ EXCEPT !.pc = "storing", !.next = oldest,
                                                     !.upto = Len(log), !.row = 1]]
        /\ UNCHANGED <<streamVars, copies, up, failedIn, boundVars>>

\* Variant: one row too many.
AfterRowBeyond(s) ==
    IF s.row <= log[s.next] THEN [s EXCEPT !.row = @ + 1] ELSE Reading(s.next)

\* Variant: the id of the last message of a reply is not noted.
AfterRowForgets(s) ==
    IF s.row < log[s.next] THEN [s EXCEPT !.row = @ + 1]
    ELSE IF s.next < s.upto THEN [s EXCEPT !.id = s.next, !.next = @ + 1, !.row = 1]
    ELSE Reading(s.id)

\* Variant: the id is noted before the rows are stored.
AfterRowEager(s) ==
    IF s.row < log[s.next] THEN [s EXCEPT !.row = @ + 1, !.id = s.next]
    ELSE IF s.next < s.upto THEN [s EXCEPT !.id = s.next, !.next = @ + 1, !.row = 1]
    ELSE Reading(s.next)

\* The next row, or, with the id noted, the next message, or XREAD.
AfterRow(s) ==
    IF s.row < log[s.next] THEN [s EXCEPT !.row = @ + 1]
    ELSE IF s.next < s.upto THEN [s EXCEPT !.id = s.next, !.next = @ + 1, !.row = 1]
    ELSE Reading(s.next)

Storing(r) == reader[r].pc = "storing"

\* A balance without currencies has no row.
SkipMessage(r) ==
    /\ Storing(r) /\ log[reader[r].next] = 0
    /\ reader' = [reader EXCEPT ![r] = AfterRow(@)]
    /\ UNCHANGED <<streamVars, copies, up, failedIn, boundVars>>

Unstorable(s) == s.next \in bad /\ s.row = log[s.next]

\* The database gets the row.
Stored(r) ==
    /\ Storing(r) /\ reader[r].row <= log[reader[r].next]
    /\ ~ Unstorable(reader[r])
    /\ copies' = [copies EXCEPT ![reader[r].next][reader[r].row] = Capped(@)]

create(r) ==
    /\ Stored(r)
    /\ reader' = [reader EXCEPT ![r] = AfterRow(@)]
    /\ UNCHANGED <<streamVars, up, failedIn, boundVars>>

\* Variant: what failed is not read again.
RestartBehind(s) == Reading(s.next)
\* Behind the last message that was stored completely.
RestartMessage(s) == Reading(s.id)

\* The insert is rejected, and the rest of the reply is dropped.
BreakOff(r) ==
    /\ reader' = [reader EXCEPT ![r] = RestartMessage(@)]
    /\ failedIn' = [failedIn EXCEPT ![reader[r].next] = Capped(@)]

Reject(r) ==
    /\ Storing(r) /\ reader[r].row <= log[reader[r].next]
    /\ \/ Unstorable(reader[r]) /\ UNCHANGED faults
       \/ ~ Unstorable(reader[r]) /\ faults < MaxFaults /\ faults' = faults + 1
    /\ BreakOff(r)
    /\ UNCHANGED <<streamVars, copies, up, begun>>

\* The row is inserted and the answer lost.
LoseAnswer(r) ==
    /\ faults < MaxFaults /\ faults' = faults + 1
    /\ Stored(r)
    /\ BreakOff(r)
    /\ UNCHANGED <<streamVars, up, begun>>

-----------------------------------------------------------------------------
Init ==
    /\ log = <<>> /\ bad = {} /\ first = 1 /\ gone = {}
    /\ copies = [m \in Message |-> [k \in Row |-> 0]]
    /\ up = {} /\ reader = [r \in Reader |-> Down]
    /\ failedIn = [m \in Message |-> 0]
    /\ begun = 0 /\ faults = 0

syncAsset(r) == xRead(r) \/ SkipMessage(r) \/ create(r) \/ Reject(r) \/ LoseAnswer(r)

Next ==
    \/ \E n \in Sizes, unstorable \in BOOLEAN : (unstorable => n > 0) /\ Publish(n, unstorable)
    \/ \E w \in Worker : Start(w) \/ Stop(w)
    \/ \E r \in Reader : syncAsset(r)

Spec == Init /\ [][Next]_vars

\* The loop of a reader goes on as long as its worker.
FairSpec == Spec /\ \A r \in Reader : WF_vars(syncAsset(r))

-----------------------------------------------------------------------------
(* Properties *)

ReaderState ==
    [pc : {"down", "reading", "storing"}, id : Nat, next : Nat, upto : Nat, row : Nat]

\* A reader stores a row of a message it has got.
TypeOK ==
    /\ log \in Seq(0..MaxRows) /\ Len(log) \in 0..MaxMessages
    /\ bad \subseteq 1..Len(log)
    /\ first \in 1..(Len(log) + 1)
    /\ gone \subseteq 1..Len(log)
    /\ copies \in [Message -> [Row -> Nat]]
    /\ up \subseteq Worker
    /\ reader \in [Reader -> ReaderState]
    /\ \A r \in Reader : Storing(r) =>
          /\ reader[r].next \in 1..reader[r].upto /\ reader[r].upto <= Len(log)
          /\ reader[r].row \in 1..(IF log[reader[r].next] = 0 THEN 1 ELSE log[reader[r].next])
    /\ failedIn \in [Message -> Nat]
    /\ begun \in Nat /\ faults \in Nat

\* A row is there more than once only for a reason: each reader that was begun, and a
\* worker begins one for every time its list names the stream, stores it once, and once
\* more for every time the message was broken off.
CopiesExplained ==
    \A m \in Message, k \in Row : copies[m][k] <= begun + failedIn[m]

\* The rows of a message are there once a reader is past it, unless the message left
\* the stream first: a failure in the middle of a balance, a lost answer, a restart
\* or a second reader never make a reader skip one.
NothingSkipped ==
    \A r \in Reader : \A m \in 1..reader[r].id : m \in gone \/ Whole(m)

\* As long as some reader runs, a message in the stream gets all its rows, unless one
\* before it, or itself, can never be stored.
EventuallyStored ==
    \A m \in Message :
        [](bad \cap 1..m = {}) /\ <>[](\E r \in Reader : reader[r].pc # "down")
            => (m <= Len(log) ~> (m \in gone \/ (m <= Len(log) /\ Whole(m))))

\* Rows appear message by message, in the order of the stream.
present == {r \in Message \X Row : copies[r[1]][r[2]] > 0}
Abstract == INSTANCE Delivery
IsDelivery == Abstract!Spec
=============================================================================
