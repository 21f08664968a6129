---- MODULE SessionLifecycle ----
(***************************************************************************)
(* What SessionManager promises, without time, locks and threads: which    *)
(* sessions there are, which of them the cleaner is about to delete, and   *)
(* in what order the CDRs about them are written.  touch_session and       *)
(* graceful_stop act one at a time and owe one record while they do; the   *)
(* cleaner acts beside them.                                               *)
(***************************************************************************)
EXTENDS Naturals, Sequences, FiniteSets

CONSTANTS
  Imsi,    \* the subscribers
  Kept     \* subscribers whose session may be there from the start

ASSUME KeptAssumption == Kept \subseteq Imsi

VARIABLES
  stored,  \* subscribers with a session in the table
  ended,   \* sessions the cleaner will delete at the end of its round
  listed,  \* subscribers the cleaner has still to write "expired" for
  due,     \* the record owed for what has just been saved or deleted
  cdr,     \* the records written
  old      \* how many of them earlier processes wrote

lifeVars == <<stored, ended, listed, due, cdr, old>>

CdrRecord == [imsi : Imsi, action : {"created", "expired"}]

CdrOf(i, a) == [imsi |-> i, action |-> a]

(* Subscribers this process has written a record for.                      *)
Recorded == {cdr[k].imsi : k \in (old + 1)..Len(cdr)}

LifeInit ==
  /\ stored \in SUBSET Kept
  /\ ended = {} /\ listed = {} /\ due = {}
  /\ cdr = <<>> /\ old = 0

(* Mutant: touch_session does not look whether there is a session.         *)
CreateMutant(i) ==
  /\ due = {}
  /\ stored' = stored \cup {i}
  /\ due' = {CdrOf(i, "created")}
  /\ UNCHANGED <<ended, listed, cdr, old>>

(* touch_session of a subscriber who has no session.                       *)
Create(i) ==
  /\ due = {} /\ i \notin stored
  /\ stored' = stored \cup {i}
  /\ due' = {CdrOf(i, "created")}
  /\ UNCHANGED <<ended, listed, cdr, old>>

(* touch_session of one who has, or had when it looked: a session that the *)
(* cleaner deletes between the look and the save comes back unrecorded.    *)
Prolong(i) ==
  /\ due = {} /\ i \in stored \cup Recorded
  /\ stored' = stored \cup {i}
  /\ ended' = ended \ {i}
  /\ UNCHANGED <<listed, due, cdr, old>>

(* Mutant: the session is deleted and its record forgotten.                *)
OffloadMutant(i) ==
  /\ due = {} /\ i \in stored \cup Recorded
  /\ stored' = stored \ {i}
  /\ ended' = ended \ {i}
  /\ UNCHANGED <<listed, due, cdr, old>>

(* graceful_stop deletes a session; someone else may have done so before.  *)
Offload(i) ==
  /\ due = {} /\ i \in stored \cup Recorded
  /\ stored' = stored \ {i}
  /\ ended' = ended \ {i}
  /\ due' = {CdrOf(i, "expired")}
  /\ UNCHANGED <<listed, cdr, old>>

WriteDue ==
  /\ \E r \in due : cdr' = Append(cdr, r)
  /\ due' = {}
  /\ UNCHANGED <<stored, ended, listed, old>>

(* Mutant: the list may hold a session that is only just being created.    *)
ListMutant(rows) ==
  /\ ended = {} /\ listed = {}
  /\ rows \subseteq stored
  /\ ended' = rows /\ listed' = rows
  /\ UNCHANGED <<stored, due, cdr, old>>

(* The cleaner begins a round with the sessions that are over: one that is *)
(* only just being created is not.                                         *)
List(rows) ==
  /\ ended = {} /\ listed = {}
  /\ rows \subseteq stored /\ \A r \in due : r.imsi \notin rows
  /\ ended' = rows /\ listed' = rows
  /\ UNCHANGED <<stored, due, cdr, old>>

(* It writes a record for everyone on its list, prolonged since or not, ...*)
Note(i) ==
  /\ i \in listed
  /\ cdr' = Append(cdr, CdrOf(i, "expired"))
  /\ listed' = listed \ {i}
  /\ UNCHANGED <<stored, ended, due, old>>

(* Mutant: the round's sessions are not forgotten with their deletion.     *)
RemoveMutant ==
  /\ listed = {}
  /\ stored' = stored \ ended
  /\ UNCHANGED <<ended, listed, due, cdr, old>>

(* ... and deletes those that have not been prolonged.                     *)
Remove ==
  /\ listed = {}
  /\ stored' = stored \ ended
  /\ ended' = {}
  /\ UNCHANGED <<listed, due, cdr, old>>

LifeNext ==
  \/ \E i \in Imsi : Create(i) \/ Prolong(i) \/ Offload(i) \/ Note(i)
  \/ WriteDue \/ Remove
  \/ \E rows \in SUBSET stored : List(rows)

LifeSpec == LifeInit /\ [][LifeNext]_lifeVars

====
