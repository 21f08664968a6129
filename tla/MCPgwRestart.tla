---- MODULE MCPgwRestart ----
EXTENDS PgwRestart, TLC

(* The repository's server_config.json, and files that differ from it in   *)
(* one thing, but for the name of the CDR file; two databases are enough.  *)
Usual == [opens |-> TRUE, parses |-> TRUE,
          field |-> [k \in Required \cup Optional |->
                       CASE k = "session_store" -> "sqlite"
                         [] k = "sqlite_db_path" -> "default"
                         [] OTHER -> "other"]]

Changed == {[Usual EXCEPT !.field[k] = c] : k \in Required \cup Optional, c \in Content}

MCFiles ==
  {[Usual EXCEPT !.opens = FALSE], [Usual EXCEPT !.parses = FALSE]}
    \cup {f \in Changed : /\ Starts(f) => f.field["cdr_file"] = "other"
                          /\ f.field["sqlite_db_path"] # "sqlite"}

Symmetry == Permutations(Imsi)
====
