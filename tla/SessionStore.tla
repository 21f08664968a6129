---- MODULE SessionStore ----
(***************************************************************************)
(* The table of sessions behind ISessionStore, in its two implementations: *)
(* the std::unordered_map of in_memory_session_store.cpp and the SQLite    *)
(* table of sqlite_session_store.cpp.  Every operation runs under the      *)
(* store's own mutex, so it is one atomic step here.                       *)
(*                                                                         *)
(* Times are whole seconds, the resolution of the "YYYY-MM-DD HH:MM:SS"    *)
(* strings that the code compares; created_at is written and never read,   *)
(* so a session is its expires_at.                                         *)
(***************************************************************************)
EXTENDS Integers

CONSTANTS
  Imsi,       \* the subscribers
  StoreKind,  \* "in_memory" or "sqlite": main.cpp picks one from the config
  MaxFaults   \* bound: how many SQLite statements may fail

ASSUME StoreAssumption ==
  /\ StoreKind \in {"in_memory", "sqlite"}
  /\ MaxFaults \in Nat

VARIABLES
  store,      \* expires_at of each subscriber's session, or NoSession
  faults      \* SQLite statements that have failed

storeVars == <<store, faults>>

NoSession == -1

StoreTypeOK ==
  /\ store \in [Imsi -> Nat \cup {NoSession}]
  /\ faults \in 0..MaxFaults

Stored == {i \in Imsi : store[i] # NoSession}

(* load_sessions: both implementations ask for expires_at > now.           *)
ActiveRows(now) == {i \in Stored : store[i] > now}

(* What counts as expired differs: SQLite compares with <=, is_before with *)
(* <, so that at expires_at = now an in-memory session is in neither list. *)
Lapsed(e, now) == IF StoreKind = "sqlite" THEN e <= now ELSE e < now

ExpiredRows(now) == {i \in Stored : Lapsed(store[i], now)}

----------------------------------------------------------------------------
(* A statement that SQLite cannot prepare or finish has no effect and its  *)
(* error is not reported: save and delete return a flag that no caller     *)
(* looks at, a query returns the rows it has read so far.                  *)
Fault ==
  /\ StoreKind = "sqlite"
  /\ faults < MaxFaults
  /\ faults' = faults + 1

Query(rows, wanted) ==
  \/ rows = wanted /\ UNCHANGED faults
  \/ rows \subseteq wanted /\ rows # wanted /\ Fault

Execute(table) ==
  \/ store' = table /\ UNCHANGED faults
  \/ UNCHANGED store /\ Fault

load_sessions(now, rows) == Query(rows, ActiveRows(now))

load_expired_sessions(now, rows) == Query(rows, ExpiredRows(now))

(* SELECT 1 ... LIMIT 1 yields no row when it fails.                       *)
session_exists(i, answer) ==
  \/ answer = (i \in Stored) /\ UNCHANGED faults
  \/ i \in Stored /\ ~answer /\ Fault

save_session(i, expires) == Execute([store EXCEPT ![i] = expires])

delete_session(i) == Execute([store EXCEPT ![i] = NoSession])

cleanup_expired_sessions(now) ==
  Execute([i \in Imsi |-> IF i \in ExpiredRows(now) THEN NoSession ELSE store[i]])

====
