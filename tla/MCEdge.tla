------------------------------- MODULE MCEdge -------------------------------
EXTENDS Edge, TLC
HandlerSymmetry == Permutations(Handler)
=============================================================================
