--------------------------- MODULE MCSpreadTrader ---------------------------
(* SpreadTrader on small instances; its constants are numbers. *)
EXTENDS SpreadTrader
=============================================================================
