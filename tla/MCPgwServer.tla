---- MODULE MCPgwServer ----
EXTENDS PgwServer, TLC
Symmetry == Permutations(Imsi)
====
