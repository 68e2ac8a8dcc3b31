----------------------------- MODULE ConfigMirror -----------------------------
(***************************************************************************)
(* What a process may rely on when it asks ConfigurationService for its    *)
(* configuration: a copy of the stored one that may lag behind and skip    *)
(* configurations, but is never invented and never goes back to an older   *)
(* one, unless the process starts again.  A process without one may        *)
(* supply the stored one itself.  0 is no configuration.                   *)
(***************************************************************************)
EXTENDS Naturals

VARIABLES
    source,  \* the number of the stored configuration
    copy     \* the number of the copy

Init == source \in {0, 1} /\ copy = 0

Change == source' = source + 1 /\ UNCHANGED copy

Refresh ==
    /\ copy' \in (copy + 1)..source
    /\ UNCHANGED source

Supply ==
    /\ copy = 0
    /\ source' = source + 1
    /\ copy' = source'

Forget == copy' = 0 /\ UNCHANGED source

Spec == Init /\ [][Change \/ Refresh \/ Supply \/ Forget]_<<source, copy>>
=============================================================================
