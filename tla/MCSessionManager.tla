---- MODULE MCSessionManager ----
EXTENDS SessionManager, TLC
Symmetry == Permutations(Imsi)
====
