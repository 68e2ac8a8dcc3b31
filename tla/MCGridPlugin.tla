---------------------------- MODULE MCGridPlugin ----------------------------
(* GridPlugin on small instances. *)
EXTENDS GridPlugin

CONSTANT w1

MCOneWalk == {w1}
MCNoWalk == {}

\* Between the levels 90 and 110, and the same without asks.
MCOneSided == {[bid |-> 99, ask |-> 101], [bid |-> 99, ask |-> 0]}
MCNoQuotes == {}
=============================================================================
