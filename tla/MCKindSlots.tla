---------------------------- MODULE MCKindSlots ----------------------------
(* Model values for checking KindSlots with TLC. *)
EXTENDS KindSlots

CONSTANTS v1, v2, v3

OneView == {v1}
TwoViews == {v1, v2}
LastView == {v3}
=============================================================================
