--------------------------- MODULE MCConfigStore ---------------------------
(* ConfigStore on a small instance. *)
EXTENDS ConfigStore, TLC

CONSTANTS x1, k1, p1, r1, r2, g1

MCExchange == {x1}
MCCredential == {k1}
MCPlan == {p1}
MCWorkplan ==
    {{}, {"watchOrderBook"}, {"watchBalance", "watchOrders"}, {"watchOrderBook", "watchBalance", "watchOrders"}}
MCRequest == {r1, r2}
MCPage == {g1}

Symmetry == Permutations(MCRequest)
=============================================================================
