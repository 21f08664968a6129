---- MODULE SessionManagerSafety ----
(***************************************************************************)
(* The safety properties of SessionManager, for every value of the         *)
(* constants, as long as each call of std::localtime has a buffer of its   *)
(* own (~SharedTm) and, where it is said, touch_session takes less than a  *)
(* timeout (MaxLag < Timeout) and no SQLite statement fails.               *)
(***************************************************************************)
EXTENDS SessionManagerProofs, FiniteSetTheorems

(* mtx_ belongs to the thread that is inside it.                           *)
MutexInv == \A t \in Threads : pc[t] \in Locked <=> mtx = t

(* No thread but the UDP thread holds a time that has not come yet.  The   *)
(* UDP thread holds the latest expires_at there is, `age` seconds old.     *)
TimeInv ==
  /\ \A t \in Threads \ {Udp} : stamp[t] <= clock
  /\ \A i \in Imsi : store[i] <= clock + Timeout
  /\ age <= MaxLag
  /\ pc[Udp] = "idle" => age = 0
  /\ pc[Udp] # "idle" => /\ stamp[Udp] = clock - age + Timeout
                         /\ \A i \in Imsi : store[i] <= stamp[Udp]

(* A step of any thread but the UDP thread.                                *)
OtherStep ==
  \/ \E c \in Checkers : CheckLoad(c) \/ \E i \in Imsi : CheckStamp(c, i)
  \/ \E s \in Stoppers : StopCall(s) \/ StopperStep(s)
  \/ CleanerStep
  \/ Destroy \/ Destroyed \/ UNCHANGED vars

----------------------------------------------------------------------------
LEMMA LocaltimeAlone ==
  ASSUME ~SharedTm, stamp \in [Threads -> Nat], NEW t \in Threads, NEW time \in Nat,
         Localtime(t, time)
  PROVE  stamp' = [stamp EXCEPT ![t] = time]
BY DEF Localtime

LEMMA ExecuteEffect ==
  ASSUME NEW table, Execute(table)
  PROVE  store' = table \/ UNCHANGED store
BY DEF Execute

LEMMA LapsedIsPast ==
  ASSUME StoreTypeOK, NEW now \in Nat
  PROVE  /\ \A i \in ExpiredRows(now) : i \in Stored /\ store[i] <= now
         /\ \A i \in ActiveRows(now) : i \in Stored /\ store[i] > now
BY DEF StoreTypeOK, ExpiredRows, ActiveRows, Stored, Lapsed, NoSession

(* What the other threads leave alone, and what they may do to the store.  *)
LEMMA OtherEffect ==
  ASSUME TypeInv, ~SharedTm, OtherStep
  PROVE  /\ UNCHANGED <<clock, age>> /\ pc'[Udp] = pc[Udp] /\ stamp'[Udp] = stamp[Udp]
         /\ target'[Udp] = target[Udp]
         /\ \A t \in Threads \ {Udp} : stamp'[t] \in {stamp[t], clock, 0}
         /\ \A i \in Imsi : store'[i] \in {store[i], NoSession}
<1> USE Kinds
<1> DEFINE Effect ==
      /\ UNCHANGED <<clock, age>> /\ pc'[Udp] = pc[Udp] /\ stamp'[Udp] = stamp[Udp]
      /\ target'[Udp] = target[Udp]
      /\ \A t \in Threads \ {Udp} : stamp'[t] \in {stamp[t], clock, 0}
      /\ \A i \in Imsi : store'[i] \in {store[i], NoSession}
<1>0. /\ clock \in Nat /\ stamp \in [Threads -> Nat] /\ PcOK /\ StoreTypeOK
      /\ target \in [Threads -> Imsi \cup {NoSession}]
  BY DEF TypeInv, TypeOK, TargetOK
<1>a. ASSUME NEW t \in Threads \ {Udp}, NEW l, Goto(t, l) PROVE pc'[Udp] = pc[Udp]
  BY <1>0, <1>a DEF Goto, PcOK
<1>b. ASSUME NEW t \in Threads \ {Udp}, Localtime(t, clock)
      PROVE  /\ stamp'[Udp] = stamp[Udp]
             /\ \A u \in Threads \ {Udp} : stamp'[u] \in {stamp[u], clock, 0}
  BY <1>0, <1>b, LocaltimeAlone
<1>c. ASSUME NEW t \in Threads \ {Udp}, NEW l, Return(t, l)
      PROVE  /\ stamp'[Udp] = stamp[Udp] /\ pc'[Udp] = pc[Udp] /\ target'[Udp] = target[Udp]
             /\ \A u \in Threads \ {Udp} : stamp'[u] \in {stamp[u], clock, 0}
  BY <1>0, <1>a, <1>c DEF Return
<1>1. ASSUME NEW c \in Checkers, CheckLoad(c) PROVE Effect
  BY <1>1, <1>c DEF CheckLoad
<1>2. ASSUME NEW c \in Checkers, NEW i \in Imsi, CheckStamp(c, i) PROVE Effect
  BY <1>0, <1>2, <1>a, <1>b DEF CheckStamp, storeVars
<1>3. ASSUME NEW s \in Stoppers, StopCall(s) PROVE Effect
  BY <1>0, <1>3, <1>a DEF StopCall, storeVars
<1>4. ASSUME NEW s \in Stoppers, StopStamp(s) PROVE Effect
  BY <1>0, <1>4, <1>a, <1>b DEF StopStamp, storeVars
<1>5. ASSUME NEW s \in Stoppers, StopLoad(s) PROVE Effect
  BY <1>5, <1>c DEF StopLoad
<1>6. ASSUME NEW s \in Stoppers, OffloadPick(s) PROVE Effect
  BY <1>0, <1>6, <1>a DEF OffloadPick
<1>7. ASSUME NEW s \in Stoppers, OffloadDelete(s) PROVE Effect
  <2>1. \A i \in Imsi : store'[i] \in {store[i], NoSession}
    BY <1>0, <1>7, ExecuteEffect DEF OffloadDelete, delete_session, StoreTypeOK
  <2> QED  BY <1>0, <1>7, <1>a, <2>1 DEF OffloadDelete
<1>8. ASSUME NEW s \in Stoppers, OffloadWriteCdr(s) PROVE Effect
  BY <1>0, <1>8, <1>a, <1>b DEF OffloadWriteCdr, storeVars
<1>9. ASSUME CleanerTop PROVE Effect
  BY <1>0, <1>9, <1>a, <1>b DEF CleanerTop, storeVars
<1>10. ASSUME CleanerLoad PROVE Effect
  BY <1>0, <1>10, <1>a DEF CleanerLoad
<1>11. ASSUME NEW i \in Imsi, CleanerWriteCdr(i) PROVE Effect
  BY <1>0, <1>11 DEF CleanerWriteCdr, storeVars
<1>12. ASSUME CleanerCleanup PROVE Effect
  <2>1. \A i \in Imsi : store'[i] \in {store[i], NoSession}
    BY <1>0, <1>12, ExecuteEffect DEF CleanerCleanup, cleanup_expired_sessions, StoreTypeOK
  <2> QED  BY <1>12, <1>c, <2>1 DEF CleanerCleanup
<1>13. ASSUME CleanerSleep \/ CleanerWake PROVE Effect
  BY <1>0, <1>13, <1>a DEF CleanerSleep, CleanerWake, storeVars
<1>14. ASSUME Destroy \/ Destroyed \/ UNCHANGED vars PROVE Effect
  BY <1>0, <1>14 DEF Destroy, Destroyed, vars, threadVars, storeVars
<1> QED  BY <1>1, <1>2, <1>3, <1>4, <1>5, <1>6, <1>7, <1>8, <1>9, <1>10, <1>11, <1>12,
            <1>13, <1>14 DEF OtherStep, StopperStep, CleanerStep

----------------------------------------------------------------------------
(* TimeInv.                                                                *)

LEMMA InitTime == Init => TimeInv
BY Kinds, ConfigAssumption DEF Init, TimeInv, NoSession

LEMMA TouchTime ==
  ASSUME TypeInv, ~SharedTm, TimeInv, (\E i \in Imsi : TouchStamp(i)) \/ UdpStep
  PROVE  TimeInv'
<1> USE Kinds, ConfigAssumption
<1>0. /\ clock \in Nat /\ age \in Nat /\ stamp \in [Threads -> Nat]
      /\ PcOK /\ StoreTypeOK /\ pc \in [Threads -> UdpPC \cup CleanerPC \cup CheckerPC \cup StopperPC]
  BY DEF TypeInv, TypeOK, PcOK
<1>1. ASSUME NEW i \in Imsi, TouchStamp(i) PROVE TimeInv'
  <2>1. stamp' = [stamp EXCEPT ![Udp] = clock + Timeout]
    BY <1>0, <1>1, LocaltimeAlone DEF TouchStamp
  <2>2. pc[Udp] = "idle" /\ pc'[Udp] = "locking" /\ UNCHANGED <<store, clock, age>>
    BY <1>0, <1>1 DEF TouchStamp, Goto, storeVars
  <2> QED  BY <1>0, <2>1, <2>2 DEF TimeInv
<1>2. ASSUME TouchLock PROVE TimeInv'
  <2>1. pc[Udp] # "idle" /\ pc'[Udp] # "idle" /\ UNCHANGED <<store, stamp, clock, age>>
    BY <1>0, <1>2 DEF TouchLock, Goto
  <2> QED  BY <2>1 DEF TimeInv
<1>3. ASSUME TouchRefresh \/ TouchCreate \/ TouchWriteCdr PROVE TimeInv'
  <2>1. pc[Udp] # "idle" /\ UNCHANGED clock
    BY <1>3 DEF TouchRefresh, TouchCreate, TouchWriteCdr
  <2>2. \A i \in Imsi : store'[i] \in {store[i], stamp[Udp]}
    BY <1>0, <1>3, ExecuteEffect
       DEF TouchRefresh, TouchCreate, TouchWriteCdr, save_session, storeVars, StoreTypeOK
  <2>3. \A t \in Threads \ {Udp} : stamp'[t] = stamp[t]
    BY <1>0, <1>3 DEF TouchRefresh, TouchCreate, TouchWriteCdr, Return
  <2>4. \/ pc'[Udp] = "idle" /\ age' = 0
        \/ pc'[Udp] = "created" /\ UNCHANGED <<age, stamp>>
    BY <1>0, <1>3 DEF TouchRefresh, TouchCreate, TouchWriteCdr, Return, Goto
  <2>5. /\ stamp[Udp] <= clock + Timeout
        /\ \A i \in Imsi : store'[i] <= stamp[Udp]
    BY <1>0, <2>1, <2>2 DEF TimeInv, StoreTypeOK, NoSession
  <2>6. \A i \in Imsi : store'[i] <= clock + Timeout
    BY <1>0, <2>1, <2>2, <2>5 DEF TimeInv
  <2>7. /\ \A t \in Threads \ {Udp} : stamp'[t] <= clock'
        /\ \A i \in Imsi : store'[i] <= clock' + Timeout
    BY <2>1, <2>3, <2>6 DEF TimeInv
  <2> QED  BY <2>1, <2>4, <2>5, <2>7 DEF TimeInv
<1> QED  BY <1>1, <1>2, <1>3 DEF UdpStep

LEMMA NextTime ==
  ASSUME ~SharedTm
  PROVE  TypeInv /\ TimeInv /\ [Next]_vars => TimeInv'
<1> SUFFICES ASSUME TypeInv, TimeInv, [Next]_vars PROVE TimeInv'
  OBVIOUS
<1> USE Kinds, ConfigAssumption
<1>0. /\ clock \in Nat /\ age \in Nat /\ stamp \in [Threads -> Nat] /\ StoreTypeOK
  BY DEF TypeInv, TypeOK
<1>1. CASE Tick
  BY <1>0, <1>1 DEF Tick, TimeInv, storeVars, StoreTypeOK, NoSession
<1>2. CASE (\E i \in Imsi : TouchStamp(i)) \/ UdpStep
  BY <1>2, TouchTime
<1>3. CASE OtherStep
  <2>1. /\ UNCHANGED <<clock, age>> /\ pc'[Udp] = pc[Udp] /\ stamp'[Udp] = stamp[Udp]
        /\ \A t \in Threads \ {Udp} : stamp'[t] \in {stamp[t], clock, 0}
        /\ \A i \in Imsi : store'[i] \in {store[i], NoSession}
    BY <1>3, OtherEffect
  <2>2. \A i \in Imsi : store'[i] <= store[i]
    BY <1>0, <2>1 DEF StoreTypeOK, NoSession
  <2>3. /\ \A t \in Threads \ {Udp} : stamp'[t] <= clock'
        /\ \A i \in Imsi : store'[i] <= clock' + Timeout
    BY <1>0, <2>1 DEF TimeInv, NoSession
  <2>4. pc[Udp] # "idle" => \A i \in Imsi : store'[i] <= stamp[Udp]
    BY <1>0, <2>1 DEF TimeInv, NoSession
  <2> QED  BY <2>1, <2>3, <2>4 DEF TimeInv
<1> QED  BY <1>1, <1>2, <1>3 DEF Next, OtherStep

LEMMA TimeInvariant == ASSUME ~SharedTm PROVE Spec => [](TypeInv /\ TimeInv)
BY InitType, NextType, InitTime, NextTime, PTL DEF Spec

----------------------------------------------------------------------------
(* No step moves the end of a session that is still to come backwards,     *)
(* save graceful_stop's deletion.  The reason: the time that the cleaner   *)
(* deletes by is never in the future, and the time that touch_session      *)
(* saves is the latest there is.                                           *)

LEMMA StepKeeps ==
  ASSUME ~SharedTm, TypeInv, TimeInv, [Next]_vars, NEW i \in Imsi, store[i] > clock
  PROVE  \/ store'[i] >= store[i]
         \/ \E s \in Stoppers : pc[s] = "picked" /\ target[s] = i /\ pc'[s] = "deleted"
<1> DEFINE Kept == store'[i] >= store[i]
           Deleted == \E s \in Stoppers :
                        pc[s] = "picked" /\ target[s] = i /\ pc'[s] = "deleted"
<1> SUFFICES Kept \/ Deleted
  OBVIOUS
<1> USE Kinds, ConfigAssumption
<1>0. /\ clock \in Nat /\ stamp \in [Threads -> Nat] /\ StoreTypeOK /\ PcOK
      /\ store[i] \in Nat \cup {NoSession}
  BY DEF TypeInv, TypeOK, StoreTypeOK
<1>1. CASE UNCHANGED store
  BY <1>0, <1>1 DEF NoSession
<1>2. CASE TouchRefresh \/ TouchCreate
  <2>1. store[i] <= stamp[Udp]
    BY <1>2 DEF TouchRefresh, TouchCreate, TimeInv
  <2>2. store'[i] \in {store[i], stamp[Udp]}
    BY <1>0, <1>2, ExecuteEffect DEF TouchRefresh, TouchCreate, save_session, StoreTypeOK
  <2> QED  BY <1>0, <2>1, <2>2 DEF NoSession
<1>3. ASSUME NEW s \in Stoppers, OffloadDelete(s) PROVE Kept \/ Deleted
  <2>1. pc[s] = "picked" /\ pc'[s] = "deleted"
    BY <1>0, <1>3 DEF OffloadDelete, Goto, PcOK
  <2>2. target[s] = i \/ store'[i] = store[i]
    BY <1>0, <1>3, ExecuteEffect DEF OffloadDelete, delete_session, StoreTypeOK
  <2> QED  BY <1>0, <2>1, <2>2 DEF NoSession
<1>4. CASE CleanerCleanup
  <2>1. stamp[Cleaner] <= clock
    BY DEF TimeInv
  <2>2. i \notin ExpiredRows(stamp[Cleaner])
    BY <1>0, <2>1, LapsedIsPast DEF NoSession
  <2>3. store'[i] = store[i]
    BY <1>0, <1>4, <2>2, ExecuteEffect
       DEF CleanerCleanup, cleanup_expired_sessions, StoreTypeOK
  <2> QED  BY <1>0, <2>3 DEF NoSession
<1>5. [Next]_vars => \/ UNCHANGED store \/ TouchRefresh \/ TouchCreate \/ CleanerCleanup
                     \/ \E s \in Stoppers : OffloadDelete(s)
  BY DEF Next, Tick, TouchStamp, UdpStep, TouchLock, TouchWriteCdr, CheckLoad, CheckStamp,
         StopCall, StopperStep, StopStamp, StopLoad, OffloadPick, OffloadWriteCdr,
         CleanerStep, CleanerTop, CleanerLoad, CleanerWriteCdr, CleanerSleep, CleanerWake,
         Destroy, Destroyed, vars, storeVars
<1> QED  BY <1>1, <1>2, <1>3, <1>4, <1>5

(* A session that has not run out stays, and its end does not come nearer, *)
(* until graceful_stop deletes it: whatever the cleaner listed before      *)
(* (session_manager.cpp:131-149).                                          *)
THEOREM LiveSessionIsKept == ASSUME ~SharedTm PROVE Spec => LiveSessionKept
<1>1. TypeInv /\ TimeInv /\ [Next]_vars
        => [\A i \in Imsi :
              store[i] > clock =>
                \/ store'[i] >= store[i]
                \/ \E s \in Stoppers :
                     pc[s] = "picked" /\ target[s] = i /\ pc'[s] = "deleted"]_vars
  BY StepKeeps
<1> QED  BY <1>1, TimeInvariant, PTL DEF Spec, LiveSessionKept

----------------------------------------------------------------------------
(* is_active.                                                              *)

LEMMA NoFault ==
  ASSUME TypeInv, MaxFaults = 0
  PROVE  ~Fault
BY DEF TypeInv, TypeOK, StoreTypeOK, Fault

LEMMA CheckIsRight ==
  ASSUME ~SharedTm, MaxFaults = 0, TypeInv, TimeInv, [Next]_vars, NEW c \in Checkers,
         pc[c] = "checking", pc'[c] = "idle", ~answer'[c]
  PROVE  store[target[c]] <= clock
<1> USE Kinds
<1>0. /\ clock \in Nat /\ stamp \in [Threads -> Nat] /\ StoreTypeOK /\ PcOK
      /\ pc \in [Threads -> UdpPC \cup CleanerPC \cup CheckerPC \cup StopperPC]
      /\ answer \in [Checkers -> BOOLEAN] /\ target[c] \in Imsi
  BY DEF TypeInv, TypeOK, TargetOK, PcOK
<1>a. ASSUME NEW t \in Threads \ {c}, NEW l, Goto(t, l) PROVE FALSE
  BY <1>0, <1>a DEF Goto
<1>1. CASE CheckLoad(c)
  <2>1. PICK rows \in SUBSET Imsi :
          load_sessions(stamp[c], rows) /\ answer' = [answer EXCEPT ![c] = target[c] \in rows]
    BY <1>1 DEF CheckLoad
  <2>2. rows = ActiveRows(stamp[c]) /\ stamp[c] <= clock
    BY <2>1, NoFault DEF load_sessions, Query, TimeInv
  <2>3. answer'[c] = (target[c] \in rows)
    BY <1>0, <2>1
  <2>4. target[c] \notin rows
    BY <2>3
  <2>5. target[c] \notin Stored \/ ~(store[target[c]] > stamp[c])
    BY <1>0, <2>2, <2>4 DEF ActiveRows
  <2>6. store[target[c]] \in Nat \cup {NoSession}
    BY <1>0 DEF StoreTypeOK
  <2> QED  BY <1>0, <2>2, <2>5, <2>6 DEF Stored, NoSession
<1>2. CASE Tick \/ Destroy \/ Destroyed \/ UNCHANGED vars \/ \E i \in Imsi : CleanerWriteCdr(i)
  BY <1>2 DEF Tick, Destroy, Destroyed, vars, threadVars, CleanerWriteCdr
<1>3. CASE UdpStep \/ \E i \in Imsi : TouchStamp(i)
  BY <1>3, <1>a DEF UdpStep, TouchStamp, TouchLock, TouchRefresh, TouchCreate, TouchWriteCdr,
                    Return
<1>4. CASE CleanerStep
  BY <1>2, <1>4, <1>a DEF CleanerStep, CleanerTop, CleanerLoad, CleanerCleanup, CleanerSleep,
                          CleanerWake, Return
<1>5. ASSUME NEW s \in Stoppers, StopCall(s) \/ StopperStep(s) PROVE FALSE
  BY <1>5, <1>a DEF StopCall, StopperStep, StopStamp, StopLoad, OffloadPick, OffloadDelete,
                    OffloadWriteCdr, Return
<1>6. ASSUME NEW d \in Checkers, d # c, CheckLoad(d) \/ \E i \in Imsi : CheckStamp(d, i)
      PROVE  FALSE
  BY <1>6, <1>a DEF CheckLoad, CheckStamp, Return
<1>7. ASSUME NEW i \in Imsi, CheckStamp(c, i) PROVE FALSE
  BY <1>7 DEF CheckStamp
<1> QED  BY <1>1, <1>2, <1>3, <1>4, <1>5, <1>6, <1>7 DEF Next

(* is_active denies no session that is still running, whatever the cleaner *)
(* and graceful_stop are doing, if SQLite does not fail                    *)
(* (session_manager.cpp:86-91).                                            *)
THEOREM NotActiveIsRight ==
  ASSUME ~SharedTm, MaxFaults = 0  PROVE Spec => NotActiveOnlyIfOver
<1>1. TypeInv /\ TimeInv /\ [Next]_vars
        => [\A c \in Checkers :
              pc[c] = "checking" /\ pc'[c] = "idle" /\ ~answer'[c]
                => store[target[c]] <= clock]_vars
  BY CheckIsRight
<1> QED  BY <1>1, TimeInvariant, PTL DEF Spec, NotActiveOnlyIfOver

----------------------------------------------------------------------------
(* MutexInv.                                                               *)

LEMMA InitMutex == Init => MutexInv
BY Kinds DEF Init, MutexInv, Locked

(* One thread moves: it takes mtx_, gives it back or does neither.         *)
LEMMA MutexMoves ==
  ASSUME PcOK, MutexInv, NEW t \in Threads, NEW l, Goto(t, l),
         \/ l \in Locked /\ Lock(t)
         \/ l \notin Locked /\ pc[t] \in Locked /\ Unlock
         \/ (l \in Locked <=> pc[t] \in Locked) /\ UNCHANGED mtx
  PROVE  MutexInv'
<1>1. pc'[t] = l /\ \A u \in Threads \ {t} : pc'[u] = pc[u]
  BY DEF Goto, PcOK
<1> QED  BY <1>1, Kinds DEF MutexInv, Lock, Unlock

LEMMA NextMutex == TypeInv /\ MutexInv /\ [Next]_vars => MutexInv'
<1> SUFFICES ASSUME TypeInv, MutexInv, [Next]_vars PROVE MutexInv'
  OBVIOUS
<1> USE Kinds
<1>0. PcOK
  BY DEF TypeInv, TypeOK
<1>1. CASE Tick \/ Destroy \/ Destroyed \/ UNCHANGED vars \/ \E i \in Imsi : CleanerWriteCdr(i)
  BY <1>1 DEF Tick, Destroy, Destroyed, vars, threadVars, CleanerWriteCdr, MutexInv
<1>2. CASE UdpStep \/ \E i \in Imsi : TouchStamp(i)
  <2>1. PICK l : /\ Goto(Udp, l)
                 /\ \/ l \in Locked /\ Lock(Udp)
                    \/ l \notin Locked /\ pc[Udp] \in Locked /\ Unlock
                    \/ (l \in Locked <=> pc[Udp] \in Locked) /\ UNCHANGED mtx
    BY <1>2 DEF UdpStep, TouchStamp, TouchLock, TouchRefresh, TouchCreate, TouchWriteCdr,
                Return, Locked
  <2> QED  BY <1>0, <2>1, MutexMoves
<1>3. ASSUME NEW c \in Checkers, CheckLoad(c) \/ \E i \in Imsi : CheckStamp(c, i)
      PROVE  MutexInv'
  <2>1. PICK l : /\ Goto(c, l)
                 /\ \/ l \in Locked /\ Lock(c)
                    \/ l \notin Locked /\ pc[c] \in Locked /\ Unlock
    BY <1>3 DEF CheckLoad, CheckStamp, Return, Locked
  <2> QED  BY <1>0, <2>1, MutexMoves
<1>4. ASSUME NEW s \in Stoppers, StopCall(s) \/ StopperStep(s) PROVE MutexInv'
  <2>1. PICK l : /\ Goto(s, l)
                 /\ \/ l \in Locked /\ Lock(s)
                    \/ l \notin Locked /\ pc[s] \in Locked /\ Unlock
                    \/ (l \in Locked <=> pc[s] \in Locked) /\ UNCHANGED mtx
    BY <1>4 DEF StopCall, StopperStep, StopStamp, StopLoad, OffloadPick, OffloadDelete,
                OffloadWriteCdr, AfterRemoving, Return, Locked
  <2> QED  BY <1>0, <2>1, MutexMoves
<1>5. CASE CleanerStep
  <2>1. CASE \E i \in Imsi : CleanerWriteCdr(i)
    BY <1>1, <2>1
  <2>2. CASE ~\E i \in Imsi : CleanerWriteCdr(i)
    <3>1. PICK l \in CleanerPC : Goto(Cleaner, l) /\ UNCHANGED mtx
      BY <1>5, <2>2 DEF CleanerStep, CleanerTop, CleanerLoad, CleanerCleanup, CleanerSleep,
                        CleanerWake, LockBriefly, Return, CleanerPC
    <3>2. l \notin Locked /\ pc[Cleaner] \notin Locked
      BY <1>0 DEF PcOK, CleanerPC, Locked
    <3> QED  BY <1>0, <3>1, <3>2, MutexMoves
  <2> QED  BY <2>1, <2>2
<1> QED  BY <1>1, <1>2, <1>3, <1>4, <1>5 DEF Next

====
