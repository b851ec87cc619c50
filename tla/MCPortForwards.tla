--------------------------- MODULE MCPortForwards ---------------------------
EXTENDS PortForwards, TLC
Symmetry == Permutations(Cmds)
=============================================================================
