---- MODULE SessionManager ----
(***************************************************************************)
(* SessionManager (session_manager.cpp): the session table, the call       *)
(* detail records (CDRs) written about it, and the threads that work on    *)
(* both:                                                                   *)
(*   - the UDP thread, the only caller of touch_session;                   *)
(*   - the cleaner thread that the manager starts itself;                  *)
(*   - HTTP worker threads in is_active (Checkers) and in graceful_stop    *)
(*     (Stoppers).                                                         *)
(*                                                                         *)
(* One action is the code from one shared access to the next: a call of    *)
(* the store, a cdr_.write, taking or releasing mtx_.  The cleaner works   *)
(* on the store WITHOUT mtx_, and offload_rate drops mtx_ between picking  *)
(* a session and deleting it: these are the interleavings of interest.     *)
(***************************************************************************)
EXTENDS SessionStore, FiniteSets, Sequences

CONSTANTS
  Udp, Cleaner,        \* the two permanent threads
  Checkers, Stoppers,  \* HTTP worker threads, by the request they serve
  NoOwner,             \* mtx_ is free
  Timeout,             \* session_timeout_sec
  Rate,                \* graceful_shutdown_rate
  Restored,            \* subscribers a previous run may have left in SQLite
  SharedTm,            \* TRUE: std::localtime's one static buffer, as built;
                       \* FALSE: as if each call had a buffer of its own
  MaxTime,             \* bound: the clock stops here
  MaxLag,              \* bound: the longest a touch_session call may take
  MaxTouches           \* bound: calls of touch_session

Threads == {Udp, Cleaner} \cup Checkers \cup Stoppers

ASSUME ThreadsAssumption ==
  /\ Udp # Cleaner
  /\ {Udp, Cleaner} \cap (Checkers \cup Stoppers) = {}
  /\ Checkers \cap Stoppers = {}
  /\ NoOwner \notin Threads

ASSUME ConfigAssumption ==
  /\ Timeout \in Nat /\ Rate \in Nat
  /\ Restored \subseteq Imsi
  /\ StoreKind = "in_memory" => Restored = {}
  /\ SharedTm \in BOOLEAN
  /\ MaxTime \in Nat /\ MaxLag \in Nat /\ MaxTouches \in Nat

VARIABLES
  clock,     \* wall-clock seconds
  mtx,       \* owner of mtx_
  pc,        \* where each thread is
  stamp,     \* the time string a thread holds (or std::tm it will print)
  target,    \* the subscriber a thread works on
  age,       \* seconds the current touch_session call has taken
  todo,      \* cleaner: expired sessions whose CDR is still to be written
  removed,   \* offload_rate: sessions removed by this call
  answer,    \* is_active: the last answer to each checker
  stop,      \* stop_: the destructor has begun
  cdr,       \* the records in the order of their cdr_.write calls
  touches    \* calls of touch_session so far

threadVars == <<mtx, pc, stamp, target, age, todo, removed, answer>>
vars == <<storeVars, threadVars, clock, stop, cdr, touches>>

CdrRecord == [imsi : Imsi, action : {"created", "expired"}]

Record(i, a) == [imsi |-> i, action |-> a]

Count(i, a) == Cardinality({k \in DOMAIN cdr : cdr[k] = Record(i, a)})

(* Where each thread can be; Locked are the places inside mtx_.            *)
UdpPC == {"idle", "locking", "refresh", "create", "created"}
CleanerPC == {"top", "loading", "writing", "sleep", "waiting", "done"}
CheckerPC == {"idle", "checking"}
StopperPC == {"idle", "check", "checking", "offload", "picking", "picked",
              "deleted", "stopped"}
Locked == {"refresh", "create", "created", "checking", "picking", "deleted"}

(* Perhaps still between the std::localtime of now_str or expires_str and  *)
(* its put_time.                                                           *)
Formatting == {"locking", "loading", "checking", "picking"}

PcOK ==
  /\ pc \in [Threads -> UdpPC \cup CleanerPC \cup CheckerPC \cup StopperPC]
  /\ pc[Udp] \in UdpPC /\ pc[Cleaner] \in CleanerPC
  /\ \A c \in Checkers : pc[c] \in CheckerPC
  /\ \A s \in Stoppers : pc[s] \in StopperPC

(* A thread that is about to name a subscriber has one.                    *)
TargetOK ==
  /\ target \in [Threads -> Imsi \cup {NoSession}]
  /\ pc[Udp] # "idle" => target[Udp] \in Imsi
  /\ \A c \in Checkers : pc[c] = "checking" => target[c] \in Imsi
  /\ \A s \in Stoppers : pc[s] \in {"picked", "deleted"} => target[s] \in Imsi

(* offload_rate never removes more than it was asked to.                   *)
TypeOK ==
  /\ StoreTypeOK
  /\ clock \in Nat
  /\ mtx \in Threads \cup {NoOwner}
  /\ PcOK /\ TargetOK
  /\ stamp \in [Threads -> Nat]
  /\ age \in Nat
  /\ todo \subseteq Imsi
  /\ removed \in [Stoppers -> 0..Rate]
  /\ answer \in [Checkers -> BOOLEAN]
  /\ stop \in BOOLEAN
  /\ cdr \in Seq(CdrRecord)
  /\ touches \in Nat

----------------------------------------------------------------------------
Goto(t, label) == pc' = [pc EXCEPT ![t] = label]

(* A call returns, and its local variables are gone.                       *)
Return(t, label) ==
  /\ Goto(t, label)
  /\ stamp' = [stamp EXCEPT ![t] = 0]
  /\ target' = [target EXCEPT ![t] = NoSession]

Lock(t) == mtx = NoOwner /\ mtx' = t

Unlock == mtx' = NoOwner

(* mtx_ is taken and given back within one action.                         *)
LockBriefly == mtx = NoOwner /\ UNCHANGED mtx

(* std::localtime(&t) fills a buffer that put_time reads a moment later.   *)
(* The buffer is one static object: a thread still between the two calls   *)
(* reads what the last caller put there.                                   *)
Localtime(t, time) ==
  \E hit \in SUBSET {u \in Threads \ {t} : SharedTm /\ pc[u] \in Formatting} :
    stamp' = [u \in Threads |-> IF u \in {t} \cup hit THEN time ELSE stamp[u]]

cdr_write(i, a) == cdr' = Append(cdr, Record(i, a))

Init ==
  /\ clock = 1
  /\ store \in [Imsi -> 0..(1 + Timeout) \cup {NoSession}]
  /\ \A i \in Imsi \ Restored : store[i] = NoSession
  /\ faults = 0
  /\ mtx = NoOwner
  /\ pc = [t \in Threads |-> IF t = Cleaner THEN "top" ELSE "idle"]
  /\ stamp = [t \in Threads |-> 0]
  /\ target = [t \in Threads |-> NoSession]
  /\ age = 0
  /\ todo = {}
  /\ removed = [s \in Stoppers |-> 0]
  /\ answer = [c \in Checkers |-> FALSE]
  /\ stop = FALSE
  /\ cdr = <<>>
  /\ touches = 0

(* A second passes, but not while touch_session has already taken MaxLag.  *)
Tick ==
  /\ clock < MaxTime
  /\ clock' = clock + 1
  /\ \/ pc[Udp] = "idle" /\ UNCHANGED age
     \/ pc[Udp] # "idle" /\ age < MaxLag /\ age' = age + 1
  /\ UNCHANGED <<storeVars, mtx, pc, stamp, target, todo, removed, answer, stop, cdr,
                 touches>>

----------------------------------------------------------------------------
(* touch_session(imsi), on the UDP thread.                                 *)

(* expires = expires_str(timeout_), computed before mtx_ is asked for.     *)
(* now_str() before it only dates records; if its present time lands in    *)
(* another thread's buffer, that thread has as good as asked later.        *)
TouchStamp(i) ==
  /\ ~stop /\ pc[Udp] = "idle" /\ touches < MaxTouches
  /\ touches' = touches + 1
  /\ target' = [target EXCEPT ![Udp] = i]
  /\ Localtime(Udp, clock + Timeout)
  /\ Goto(Udp, "locking")
  /\ UNCHANGED <<storeVars, mtx, age, todo, removed, answer, clock, stop, cdr>>

(* lock_guard, then the branch on session_exists.                          *)
TouchLock ==
  /\ pc[Udp] = "locking"
  /\ Lock(Udp)
  /\ \E exists \in BOOLEAN :
       /\ session_exists(target[Udp], exists)
       /\ Goto(Udp, IF exists THEN "refresh" ELSE "create")
  /\ UNCHANGED <<store, stamp, target, age, todo, removed, answer, clock, stop,
                 cdr, touches>>

(* save_session in the branch that prolongs; return true.                  *)
TouchRefresh ==
  /\ pc[Udp] = "refresh"
  /\ save_session(target[Udp], stamp[Udp])
  /\ Unlock
  /\ Return(Udp, "idle")
  /\ age' = 0
  /\ UNCHANGED <<todo, removed, answer, clock, stop, cdr, touches>>

(* Mutant: the lock_guard's scope ends before the CDR is written.          *)
TouchCreateMutant ==
  /\ pc[Udp] = "create"
  /\ save_session(target[Udp], stamp[Udp])
  /\ Unlock
  /\ Goto(Udp, "created")
  /\ UNCHANGED <<stamp, target, age, todo, removed, answer, clock, stop, cdr, touches>>

(* save_session in the branch that creates.                                *)
TouchCreate ==
  /\ pc[Udp] = "create"
  /\ save_session(target[Udp], stamp[Udp])
  /\ Goto(Udp, "created")
  /\ UNCHANGED <<mtx, stamp, target, age, todo, removed, answer, clock, stop, cdr,
                 touches>>

(* cdr_.write(created); notify_one; return true.  The notification only    *)
(* shortens a wait that CleanerWake may end at any time.                   *)
TouchWriteCdr ==
  /\ pc[Udp] = "created"
  /\ cdr_write(target[Udp], "created")
  /\ Unlock
  /\ Return(Udp, "idle")
  /\ age' = 0
  /\ UNCHANGED <<storeVars, todo, removed, answer, clock, stop, touches>>

----------------------------------------------------------------------------
(* Mutant: the time of expires_str where now_str belongs.                  *)
CheckStampMutant(c, i) ==
  /\ ~stop /\ pc[c] = "idle"
  /\ Lock(c)
  /\ Localtime(c, clock + Timeout)
  /\ target' = [target EXCEPT ![c] = i]
  /\ Goto(c, "checking")
  /\ UNCHANGED <<storeVars, age, todo, removed, answer, clock, stop, cdr, touches>>

(* is_active(imsi), on an HTTP worker: both steps inside mtx_.             *)
CheckStamp(c, i) ==
  /\ ~stop /\ pc[c] = "idle"
  /\ Lock(c)
  /\ Localtime(c, clock)
  /\ target' = [target EXCEPT ![c] = i]
  /\ Goto(c, "checking")
  /\ UNCHANGED <<storeVars, age, todo, removed, answer, clock, stop, cdr, touches>>

CheckLoad(c) ==
  /\ pc[c] = "checking"
  /\ \E rows \in SUBSET Imsi :
       /\ load_sessions(stamp[c], rows)
       /\ answer' = [answer EXCEPT ![c] = target[c] \in rows]
  /\ Unlock
  /\ Return(c, "idle")
  /\ UNCHANGED <<store, age, todo, removed, clock, stop, cdr, touches>>

----------------------------------------------------------------------------
(* Mutants: one session too many, and one too few, per call.               *)
AfterRemovingMore(n) == IF n <= Rate THEN "offload" ELSE "check"
AfterRemovingFewer(n) == IF n + 1 < Rate THEN "offload" ELSE "check"

(* graceful_stop(rate) and the offload_rate(rate) it calls, on an HTTP     *)
(* worker.  Where offload_rate stands after n sessions: in its loop, or    *)
(* back in the loop of graceful_stop.                                      *)
AfterRemoving(n) == IF n < Rate THEN "offload" ELSE "check"

StopCall(s) ==
  /\ ~stop /\ pc[s] = "idle"
  /\ Goto(s, "check")
  /\ UNCHANGED <<storeVars, mtx, stamp, target, age, todo, removed, answer, clock,
                 stop, cdr, touches>>

(* lock_guard and now_str() of either loop.                                *)
StopStamp(s) ==
  /\ \/ pc[s] = "check" /\ Goto(s, "checking")
     \/ pc[s] = "offload" /\ Goto(s, "picking")
  /\ Lock(s)
  /\ Localtime(s, clock)
  /\ UNCHANGED <<storeVars, target, age, todo, removed, answer, clock, stop, cdr,
                 touches>>

(* graceful_stop: stop when no session is left, else call offload_rate.    *)
StopLoad(s) ==
  /\ pc[s] = "checking"
  /\ \E rows \in SUBSET Imsi :
       /\ load_sessions(stamp[s], rows)
       /\ Return(s, IF rows = {} THEN "stopped" ELSE AfterRemoving(0))
  /\ Unlock
  /\ removed' = [removed EXCEPT ![s] = 0]
  /\ UNCHANGED <<store, age, todo, answer, clock, stop, cdr, touches>>

(* offload_rate: s = all.front(); no order of the rows is promised.        *)
OffloadPick(s) ==
  /\ pc[s] = "picking"
  /\ \E rows \in SUBSET Imsi :
       /\ load_sessions(stamp[s], rows)
       /\ \/ rows = {} /\ Goto(s, "check") /\ UNCHANGED target
          \/ \E i \in rows : /\ target' = [target EXCEPT ![s] = i]
                             /\ Goto(s, "picked")
  /\ Unlock
  /\ UNCHANGED <<store, stamp, age, todo, removed, answer, clock, stop, cdr, touches>>

(* expire_session_locked: delete_session under a second lock_guard ...     *)
OffloadDelete(s) ==
  /\ pc[s] = "picked"
  /\ Lock(s)
  /\ delete_session(target[s])
  /\ Goto(s, "deleted")
  /\ UNCHANGED <<stamp, target, age, todo, removed, answer, clock, stop, cdr, touches>>

(* ... and the CDR, time-stamped with one more now_str(); ++removed.       *)
OffloadWriteCdr(s) ==
  /\ pc[s] = "deleted"
  /\ cdr_write(target[s], "expired")
  /\ Localtime(s, clock)
  /\ Unlock
  /\ removed' = [removed EXCEPT ![s] = @ + 1]
  /\ Goto(s, AfterRemoving(removed[s] + 1))
  /\ UNCHANGED <<storeVars, target, age, todo, answer, clock, stop, touches>>

----------------------------------------------------------------------------
(* cleaner_loop.                                                           *)

(* Mutant: a stop_ that is not atomic, read once before the loop.          *)
CleanerTopMutant ==
  /\ pc[Cleaner] = "top"
  /\ Goto(Cleaner, "loading") /\ Localtime(Cleaner, clock)
  /\ UNCHANGED <<storeVars, mtx, target, age, todo, removed, answer, clock, stop, cdr,
                 touches>>

(* while (!stop_), and now = now_str().                                    *)
CleanerTop ==
  /\ pc[Cleaner] = "top"
  /\ \/ stop /\ Goto(Cleaner, "done") /\ UNCHANGED stamp
     \/ ~stop /\ Goto(Cleaner, "loading") /\ Localtime(Cleaner, clock)
  /\ UNCHANGED <<storeVars, mtx, target, age, todo, removed, answer, clock, stop, cdr,
                 touches>>

CleanerLoad ==
  /\ pc[Cleaner] = "loading"
  /\ \E rows \in SUBSET Imsi : load_expired_sessions(stamp[Cleaner], rows) /\ todo' = rows
  /\ Goto(Cleaner, "writing")
  /\ UNCHANGED <<store, mtx, stamp, target, age, removed, answer, clock, stop, cdr,
                 touches>>

(* Mutant: sessions are deleted one by one, by the list.                   *)
CleanerWriteCdrMutant(i) ==
  /\ pc[Cleaner] = "writing" /\ i \in todo
  /\ cdr_write(i, "expired")
  /\ delete_session(i)
  /\ todo' = todo \ {i}
  /\ UNCHANGED <<mtx, pc, stamp, target, age, removed, answer, clock, stop, touches>>

(* One turn of the loop over the list.                                     *)
CleanerWriteCdr(i) ==
  /\ pc[Cleaner] = "writing" /\ i \in todo
  /\ cdr_write(i, "expired")
  /\ todo' = todo \ {i}
  /\ UNCHANGED <<storeVars, mtx, pc, stamp, target, age, removed, answer, clock, stop,
                 touches>>

(* Mutant: a second now_str() for the cleanup.                             *)
CleanerCleanupMutant ==
  /\ pc[Cleaner] = "writing" /\ todo = {}
  /\ cleanup_expired_sessions(clock)
  /\ Return(Cleaner, "sleep")
  /\ UNCHANGED <<mtx, age, todo, removed, answer, clock, stop, cdr, touches>>

(* The loop is over; cleanup_expired_sessions with the same `now`.         *)
CleanerCleanup ==
  /\ pc[Cleaner] = "writing" /\ todo = {}
  /\ cleanup_expired_sessions(stamp[Cleaner])
  /\ Return(Cleaner, "sleep")
  /\ UNCHANGED <<mtx, age, todo, removed, answer, clock, stop, cdr, touches>>

(* unique_lock and cv_.wait_for: mtx_ is released as the wait begins.      *)
CleanerSleep ==
  /\ pc[Cleaner] = "sleep"
  /\ LockBriefly
  /\ Goto(Cleaner, "waiting")
  /\ UNCHANGED <<storeVars, stamp, target, age, todo, removed, answer, clock, stop, cdr,
                 touches>>

(* Mutant: wait with no timeout, ended by the destructor only.             *)
CleanerWakeMutant ==
  /\ pc[Cleaner] = "waiting" /\ stop
  /\ LockBriefly
  /\ Goto(Cleaner, "top")
  /\ UNCHANGED <<storeVars, stamp, target, age, todo, removed, answer, clock, stop, cdr,
                 touches>>

(* wait_for has no predicate: its second, a notification or a spurious     *)
(* wake-up ends it.  mtx_ is taken again and dropped at the end of scope.  *)
CleanerWake ==
  /\ pc[Cleaner] = "waiting"
  /\ LockBriefly
  /\ Goto(Cleaner, "top")
  /\ UNCHANGED <<storeVars, stamp, target, age, todo, removed, answer, clock, stop, cdr,
                 touches>>

----------------------------------------------------------------------------
(* ~SessionManager: its owner has no call in progress any more.            *)
Destroy ==
  /\ ~stop
  /\ pc[Udp] = "idle"
  /\ \A c \in Checkers : pc[c] = "idle"
  /\ \A s \in Stoppers : pc[s] \in {"idle", "stopped"}
  /\ stop' = TRUE
  /\ UNCHANGED <<storeVars, threadVars, clock, cdr, touches>>

(* join() has returned: nothing moves but the clock.                       *)
Destroyed == pc[Cleaner] = "done" /\ UNCHANGED vars

UdpStep == TouchLock \/ TouchRefresh \/ TouchCreate \/ TouchWriteCdr

StopperStep(s) ==
  StopStamp(s) \/ StopLoad(s) \/ OffloadPick(s) \/ OffloadDelete(s) \/ OffloadWriteCdr(s)

CleanerStep ==
  \/ CleanerTop \/ CleanerLoad \/ CleanerCleanup \/ CleanerSleep \/ CleanerWake
  \/ \E i \in Imsi : CleanerWriteCdr(i)

Next ==
  \/ Tick
  \/ \E i \in Imsi : TouchStamp(i)
  \/ UdpStep
  \/ \E c \in Checkers : CheckLoad(c) \/ \E i \in Imsi : CheckStamp(c, i)
  \/ \E s \in Stoppers : StopCall(s) \/ StopperStep(s)
  \/ CleanerStep
  \/ Destroy
  \/ Destroyed

Spec == Init /\ [][Next]_vars

(* A thread inside a call keeps running, the cleaner runs for ever, and no *)
(* thread that keeps asking for mtx_ is passed over for ever.  Nobody has  *)
(* to make a call, and the clock need not move.                            *)
Fairness ==
  /\ SF_vars(UdpStep)
  /\ \A c \in Checkers : WF_vars(CheckLoad(c))
  /\ \A s \in Stoppers : SF_vars(StopperStep(s))
  /\ SF_vars(CleanerStep)

FairSpec == Spec /\ Fairness

----------------------------------------------------------------------------
(* Properties.                                                             *)

(* offload_rate has deleted i and not yet written its CDR.                 *)
BeingRecorded(i) == \E s \in Stoppers : pc[s] = "deleted" /\ target[s] = i

(* Each session that ends is recorded: at most one "created" of a          *)
(* subscriber has no "expired" to match, and none once the session has     *)
(* left the store.  The cleaner lists the expired sessions, writes their   *)
(* CDRs and then deletes by time, not by list, outside mtx_; what it       *)
(* deletes must have been on the list (session_manager.cpp:135-143).       *)
(* Which "expired" stands for which session is not said here: see          *)
(* ImplementsLifecycle.                                                    *)
SessionsAccounted ==
  \A i \in Imsi :
    Count(i, "created") <=
      Count(i, "expired") + (IF i \in Stored \/ BeingRecorded(i) THEN 1 ELSE 0)

(* A SQLite statement that fails unnoticed costs each subscriber at most   *)
(* one "created" without "expired", whichever it was: the look, the save   *)
(* (session_manager.cpp:61-77), the cleaner's list or the deletion (136,   *)
(* 143, 126).                                                              *)
FaultsAccounted ==
  \A i \in Imsi :
    Count(i, "created") <=
      Count(i, "expired") + faults + (IF i \in Stored \/ BeingRecorded(i) THEN 1 ELSE 0)

(* The abstract state: the records that are owed, and the sessions that    *)
(* the cleaner will delete at the end of its round.                        *)
RecordsDue ==
  {Record(target[t], IF t = Udp THEN "created" ELSE "expired") :
     t \in {u \in Threads : pc[u] \in {"created", "deleted"}}}

Ended == IF pc[Cleaner] = "writing" THEN ExpiredRows(stamp[Cleaner]) ELSE {}

Lifecycle == INSTANCE SessionLifecycle WITH
  Kept <- Restored,
  stored <- Stored,
  ended <- Ended,
  listed <- todo,
  due <- RecordsDue,
  old <- 0

(* What all threads together do to table and records is what one caller    *)
(* and one cleaner would do: a save or delete and its record are not torn  *)
(* apart by other callers, and the cleaner deletes only what it has listed *)
(* and nobody has prolonged since (session_manager.cpp:58-84, 93-149).     *)
ImplementsLifecycle == Lifecycle!LifeSpec

(* A subscriber's first record in this run is "created", unless SQLite     *)
(* still held the session: a session becomes visible to the other threads  *)
(* with save_session, before its record is written                         *)
(* (session_manager.cpp:77-78).                                            *)
ExpiredOnlyAfterCreated ==
  \A i \in Imsi \ Restored : Count(i, "created") = 0 => Count(i, "expired") = 0

(* Only graceful_stop ends a session before its expires_at, and no step    *)
(* moves expires_at back: a cleaner whose list was made before the         *)
(* session was prolonged must not delete it (session_manager.cpp:143).     *)
LiveSessionKept ==
  [][\A i \in Imsi :
       store[i] > clock =>
         \/ store'[i] >= store[i]
         \/ \E s \in Stoppers : pc[s] = "picked" /\ target[s] = i /\ pc'[s] = "deleted"]_vars

(* is_active says "not active" only of a session that is over, whatever    *)
(* the cleaner and graceful_stop are doing (session_manager.cpp:86-91).    *)
NotActiveOnlyIfOver ==
  [][\A c \in Checkers :
       pc[c] = "checking" /\ pc'[c] = "idle" /\ ~answer'[c] => store[target[c]] <= clock]_vars

(* cdr_writer.hpp:16: "expired" means that the session has ended.  When    *)
(* the record is written the session is deleted or past its time.          *)
ExpiredRecordIsTrue ==
  [][\A i \in Imsi : cdr' = Append(cdr, Record(i, "expired")) => store[i] <= clock]_vars

(* cdr_writer.hpp:16: one session, one end.                                *)
OneExpiredPerSession ==
  \A i \in Imsi \ Restored : Count(i, "expired") <= Count(i, "created")

(* graceful_stop comes back once touch_session is no longer called for     *)
(* ever, even with the cleaner at work on the same sessions.               *)
GracefulStopTerminates ==
  \A s \in Stoppers : pc[s] = "check" ~> pc[s] = "stopped"

(* The join() of the destructor comes back: the cleaner sees stop_ though  *)
(* the notification may fall before its wait (session_manager.cpp:47-52).  *)
DestructorTerminates == stop ~> pc[Cleaner] = "done"

(* A session whose time has passed is removed or prolonged, unless the     *)
(* manager is destroyed first.                                             *)
ExpiredEventuallyRemoved ==
  \A i \in Imsi :
    (i \in Stored /\ store[i] < clock) ~> (i \notin Stored \/ store[i] >= clock \/ stop)

====
