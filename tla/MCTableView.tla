---------------------------- MODULE MCTableView ----------------------------
(* Small instances of TableView. *)
EXTENDS TableView

CONSTANTS p1, p2, u1, r1, r2
=============================================================================
