------------------------------ MODULE MCDbSync ------------------------------
(* DbSync on a small instance: a worker with a list that the API server wrote for *)
(* two pairs, and two with lists that a page wrote.                               *)
EXTENDS DbSync, TLC

CONSTANTS w1, w2, w3

MCWorker == {w1, w2, w3}
MCListed == w1 :> 2 @@ w2 :> 1 @@ w3 :> 1
=============================================================================
