-------------------------- MODULE MCOrderPipeline --------------------------
(* OrderPipeline on a small instance. *)
EXTENDS OrderPipeline, TLC

CONSTANTS o1, o2, h1, h2, r1, c1

MCOrder == {o1, o2}
MCOneOrder == {o1}
MCSlot == {h1, h2}
MCOneSlot == {h1}
MCCreates == {r1}
MCCancels == {c1}
MCNoCancels == {}

SlotSymmetry == Permutations(MCSlot)
=============================================================================
