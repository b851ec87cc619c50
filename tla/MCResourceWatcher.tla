------------------------- MODULE MCResourceWatcher -------------------------
(* Model values for checking ResourceWatcher with TLC. *)
EXTENDS ResourceWatcher

CONSTANTS u1, u2, r1, r2

MCUids == {u1, u2}
MCRows == {r1, r2}
=============================================================================
