-------------------------- MODULE MCClusterRegistry --------------------------
(* Small instances of ClusterRegistry. *)
EXTENDS ClusterRegistry, TLC

CONSTANTS k1, k2, f1, d1, v1
=============================================================================
