---- MODULE PgwRestart ----
(***************************************************************************)
(* The server through several lives of its process.  Put together from     *)
(* what the parts promise - SessionLifecycle for SessionManager and its    *)
(* threads, CdrLog for CdrWriter - with the configuration read at each     *)
(* start, the databases and the CDR file that stay, and a process that may *)
(* end at any step: by std::exit in http_api.cpp, with all its threads at  *)
(* work, or by a kill.  SQLite opens its databases here, and its           *)
(* statements succeed and commit one by one.                               *)
(***************************************************************************)
EXTENDS SessionLifecycle, Config

CONSTANTS
  Files,       \* the configuration files that may be there at a start
  MaxRecords,  \* bound: records in the file and queued for it
  MaxExits     \* bound: ends of the process

ASSUME RestartAssumption ==
  Files \subseteq ConfigFile /\ MaxRecords \in Nat /\ MaxExits \in Nat

(* There is one CDR file: configurations that name different ones are not  *)
(* mixed.                                                                  *)
ASSUME OneCdrFile ==
  \A f, g \in Files : Starts(f) /\ Starts(g) => f.field["cdr_file"] = g.field["cdr_file"]

VARIABLES
  table,  \* what the process has its sessions in, "none" while it does not run
  disk,   \* sessions in each database, but for the one the process has open
  log,    \* the records in the CDR file
  good,   \* the stream to it has not failed
  exits,  \* ends of the process so far
  losses  \* how many of them have lost something

restartVars == <<lifeVars, table, disk, log, good, exits, losses>>

Log == INSTANCE CdrLog WITH Record <- CdrRecord, accepted <- cdr

(* A session the cleaner will delete has a session in the table, and what  *)
(* is in the file is the beginning of what was handed to CdrWriter.        *)
RestartTypeOK ==
  /\ stored \subseteq Imsi /\ ended \subseteq stored /\ listed \subseteq Imsi
  /\ due \subseteq CdrRecord
  /\ cdr \in Seq(CdrRecord) /\ old \in 0..Len(log)
  /\ table \in Database \cup {"private", "none"}
  /\ disk \in [Database -> SUBSET Imsi]
  /\ Len(log) <= Len(cdr) /\ log = SubSeq(cdr, 1, Len(log))
  /\ good \in BOOLEAN
  /\ exits \in 0..MaxExits /\ losses \in 0..exits

RestartInit ==
  /\ LifeInit /\ stored = {}
  /\ Log!LogInit
  /\ table = "none" /\ disk = [d \in Database |-> {}]
  /\ exits = 0 /\ losses = 0

Up == table # "none"

(* Mutant: the table is made anew at each start.                           *)
TableAtStartMutant(t) == {}

(* SQLite's constructor creates a table only if there is none; a private   *)
(* one starts empty.                                                       *)
TableAtStart(t) == IF t \in Database THEN disk[t] ELSE {}

(* A start that comes through: the store is chosen, the sessions are what  *)
(* its table holds, and the CDR file opens or fails to, which nobody but   *)
(* the log is told.  A start that fails has touched nothing.               *)
Boot(f) ==
  /\ ~Up /\ Starts(f)
  /\ table' = TableOf(f)
  /\ stored' = TableAtStart(table')
  /\ disk' = [d \in Database |-> IF d = table' THEN {} ELSE disk[d]]
  /\ good' \in BOOLEAN
  /\ UNCHANGED <<ended, listed, due, cdr, old, log, exits, losses>>

(* SessionManager: the UDP thread, HTTP workers, the cleaner.              *)
Serve ==
  /\ Up /\ LifeNext /\ Len(cdr') <= MaxRecords
  /\ UNCHANGED <<table, disk, log, good, exits, losses>>

(* CdrWriter's thread.                                                     *)
Write ==
  /\ Up
  /\ Log!Commit \/ Log!Fail
  /\ UNCHANGED <<stored, ended, listed, due, old, table, disk, exits, losses>>

(* An end now would lose a record, queued or owed, or a private table.     *)
Losing == Len(log) < Len(cdr) \/ due # {} \/ (table = "private" /\ stored # {})

(* The end: no destructor runs, so that the queue is not drained and a     *)
(* record owed is not written.                                             *)
End ==
  /\ Up /\ exits < MaxExits
  /\ table' = "none"
  /\ disk' = [d \in Database |-> IF d = table THEN stored ELSE disk[d]]
  /\ stored' = {} /\ ended' = {} /\ listed' = {} /\ due' = {}
  /\ Log!Restart
  /\ old' = Len(log)
  /\ exits' = exits + 1
  /\ losses' = losses + (IF Losing THEN 1 ELSE 0)

(* The bounds are reached.                                                 *)
Full == Len(cdr) = MaxRecords /\ exits = MaxExits /\ UNCHANGED restartVars

RestartNext == (\E f \in Files : Boot(f)) \/ Serve \/ Write \/ End \/ Full

RestartSpec == RestartInit /\ [][RestartNext]_restartVars

----------------------------------------------------------------------------
(* Properties.                                                             *)

(* How many records of one kind a subscriber has among the first n.        *)
CountIn(i, a, n) == Cardinality({k \in 1..n : cdr[k] = CdrOf(i, a)})

(* At any moment, and at any place in the file, a subscriber has no more   *)
(* sessions begun and not ended than there have been ends of the process,  *)
(* and one: each end costs at most one "expired", however much was queued  *)
(* (http_api.cpp:105, session_manager.cpp:77-78 and 126-127).              *)
UnmatchedAreFew ==
  \A i \in Imsi : \A n \in 0..Len(cdr) :
    CountIn(i, "created", n) <= CountIn(i, "expired", n) + exits + 1

(* Once a subscriber's session has left the table, its "expired" written,  *)
(* only the ends of earlier processes can be to blame for one not matched. *)
GoneAreMatched ==
  \A i \in Imsi \ stored :
    CountIn(i, "created", Len(cdr)) <=
      CountIn(i, "expired", Len(cdr)) + exits + (IF CdrOf(i, "expired") \in due THEN 1 ELSE 0)

(* Databases, not open now, that hold a session of the subscriber.         *)
Elsewhere(i) == {d \in Database : i \in disk[d]}

(* An end that loses nothing costs nothing: each "created" has its         *)
(* "expired", or a session in the open table or in a database that another *)
(* configuration will open again, or one of the ends that lost something   *)
(* to account for it (config.cpp:40-41, main.cpp:54-60,                    *)
(* sqlite_session_store.cpp:7-31, http_api.cpp:105).                       *)
OnlyLossesCost ==
  \A i \in Imsi :
    CountIn(i, "created", Len(cdr)) <=
      CountIn(i, "expired", Len(cdr)) + Cardinality(Elsewhere(i)) + losses
        + (IF i \in stored \/ CdrOf(i, "expired") \in due THEN 1 ELSE 0)

(* Until an end has lost something, whatever process writes "expired" for  *)
(* a subscriber, some process has written "created" before: also for the   *)
(* sessions that SQLite kept while the server ran with another table       *)
(* (session_manager.cpp:39-45 and 77-78).                                  *)
CreatedIsFirst ==
  losses = 0 =>
    \A k \in 1..Len(cdr) : cdr[k].action = "expired" =>
      \E j \in 1..(k - 1) : cdr[j] = CdrOf(cdr[k].imsi, "created")

====
