---------------------------- MODULE MCBalanceFeed ----------------------------
(* BalanceFeed on a small instance: the account changes in either currency or in  *)
(* both, and back.  What it does not hold, v of a and w of b, is what it does,    *)
(* with the currencies swapped.                                                   *)
EXTENDS BalanceFeed, TLC

CONSTANTS a, b, v, w

MCOpening == a :> v @@ b :> v
MCHoldings == {MCOpening, a :> w @@ b :> v, a :> w @@ b :> w}
==============================================================================
