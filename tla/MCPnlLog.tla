------------------------------ MODULE MCPnlLog ------------------------------
(* Small instances of PnlLog for TLC; a cfg cannot hold a negative number. *)
EXTENDS PnlLog

ProfitsAndLosses == {-2, 0, 5}
=============================================================================
