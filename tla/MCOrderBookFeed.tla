-------------------------- MODULE MCOrderBookFeed --------------------------
(* OrderBookFeed on a small instance. *)
EXTENDS OrderBookFeed, TLC

CONSTANTS l1, l2

MCLevel == {l1, l2}

MCOneLevel == {l1}

Symmetry == Permutations(MCLevel)
=============================================================================
