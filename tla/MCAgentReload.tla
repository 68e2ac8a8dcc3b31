--------------------------- MODULE MCAgentReload ---------------------------
(* AgentReload on small instances. *)
EXTENDS AgentReload

CONSTANTS t1, t2

\* Stopped, one tenant, two tenants.
MCSettings == {[started |-> FALSE, tenants |-> {t1, t2}],
               [started |-> TRUE, tenants |-> {t1}],
               [started |-> TRUE, tenants |-> {t1, t2}]}
=============================================================================
