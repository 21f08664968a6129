---- MODULE Config ----
(***************************************************************************)
(* Config::load_from_file (config.cpp) and what main makes of it           *)
(* (main.cpp).  A configuration file is an object of fields; of each       *)
(* field's content only what decides something is kept.                    *)
(***************************************************************************)

Required == {"udp_ip", "udp_port", "session_timeout_sec", "cdr_file", "http_port",
             "graceful_shutdown_rate", "log_file", "log_level", "blacklist"}

Optional == {"session_store", "sqlite_db_path"}

(* A field may be left out, be of a type that get<T> does not take, be an  *)
(* empty string, the string "sqlite", the one that load_from_file puts for *)
(* an optional field that is missing, or anything else.                    *)
Content == {"absent", "mistyped", "empty", "sqlite", "default", "other"}

ConfigFile == [opens : BOOLEAN, parses : BOOLEAN, field : [Required \cup Optional -> Content]]

(* No exception: the file opens, is JSON, at() finds every required field  *)
(* and get<T> and value() can convert what they find.                      *)
Loads(f) ==
  /\ f.opens /\ f.parses
  /\ \A k \in Required : f.field[k] \notin {"absent", "mistyped"}
  /\ \A k \in Optional : f.field[k] # "mistyped"

(* main goes on: the log file's sink refuses an empty name, and so does    *)
(* CdrWriter's constructor; neither exception is caught.                   *)
Starts(f) == Loads(f) /\ f.field["log_file"] # "empty" /\ f.field["cdr_file"] # "empty"

(* Any other name than "sqlite", and none at all, means memory.            *)
StoreOf(f) == IF f.field["session_store"] = "sqlite" THEN "sqlite" ELSE "in_memory"

(* The names of database files.                                            *)
Database == {"sqlite", "default", "other"}

(* The database that SqliteSessionStore is given.  An empty name is none:  *)
(* sqlite3_open then makes a database that goes with the process.          *)
DatabaseOf(f) ==
  IF f.field["sqlite_db_path"] = "absent" THEN "default" ELSE f.field["sqlite_db_path"]

(* Where the sessions are: in a file, or in a table of the process's own.  *)
TableOf(f) ==
  IF StoreOf(f) = "sqlite" /\ DatabaseOf(f) \in Database THEN DatabaseOf(f) ELSE "private"

====
