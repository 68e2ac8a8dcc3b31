------------------------------- MODULE Delivery -------------------------------
(***************************************************************************)
(* What the database may promise of a stream: its rows appear message by   *)
(* message, in the order of the stream.  The rows of a message may appear  *)
(* only when those of every earlier message are there, but for messages    *)
(* that left the stream first.                                             *)
(***************************************************************************)
EXTENDS Naturals, Sequences

CONSTANT MaxRows  \* rows of a message

VARIABLES
    log,     \* the messages ever written, each by the number of its rows
    gone,    \* messages that left the stream before all their rows appeared
    present  \* the rows that appeared, <<message, row>>

Whole(m) == \A k \in 1..log[m] : <<m, k>> \in present

Init == log = <<>> /\ gone = {} /\ present = {}

Publish ==
    /\ \E n \in 0..MaxRows : log' = Append(log, n)
    /\ \E left \in SUBSET {m \in 1..Len(log) : ~ Whole(m)} : gone' = gone \cup left
    /\ UNCHANGED present

Appear(m, k) ==
    /\ m \in 1..Len(log) /\ k \in 1..log[m]
    /\ \A e \in 1..(m - 1) : e \in gone \/ Whole(e)
    /\ \A i \in 1..(k - 1) : <<m, i>> \in present
    /\ present' = present \cup {<<m, k>>}
    /\ UNCHANGED <<log, gone>>

Next == Publish \/ \E m \in 1..Len(log) : \E k \in 1..log[m] : Appear(m, k)

Spec == Init /\ [][Next]_<<log, gone, present>>
=============================================================================
