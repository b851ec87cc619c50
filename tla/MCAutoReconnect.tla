--------------------------- MODULE MCAutoReconnect ---------------------------
(* AutoReconnect for TLC. *)
EXTENDS AutoReconnect, TLC
=============================================================================
