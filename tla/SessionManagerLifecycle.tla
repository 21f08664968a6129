---- MODULE SessionManagerLifecycle ----
(***************************************************************************)
(* SessionManager implements SessionLifecycle, for every value of the      *)
(* constants, as long as touch_session takes less than a timeout,          *)
(* std::localtime is not shared and no SQLite statement fails, in the      *)
(* first life of the process and in the later ones.                        *)
(***************************************************************************)
EXTENDS SessionManagerCdrs

Reliable == Timely /\ MaxFaults = 0

(* Subscribers with a record, and those whose session is, or was, there.   *)
Recorded == {cdr[k].imsi : k \in 1..Len(cdr)}

Known(i) == i \in Stored \cup Recorded \/ BeingRecorded(i)

(* What a thread inside mtx_ has seen or done still holds: the cleaner,    *)
(* which does not ask for mtx_, adds nothing and takes only what is over.  *)
HeldInv ==
  /\ pc[Udp] = "create" => target[Udp] \notin Stored
  /\ pc[Udp] = "created" => store[target[Udp]] = stamp[Udp]
  /\ \A s \in Stoppers : pc[s] = "deleted" => target[s] \notin Stored

(* A session that was found in the table, and is no longer there when it   *)
(* is saved or deleted, has been recorded meanwhile.                       *)
KnownInv ==
  /\ pc[Udp] = "refresh" => Known(target[Udp])
  /\ \A s \in Stoppers : pc[s] = "picked" => Known(target[s])

(* What the cleaner will delete it has listed.                             *)
RoundInv ==
  /\ pc[Cleaner] # "writing" => todo = {}
  /\ Ended \subseteq todo \cup Recorded

LifeInv == HeldInv /\ KnownInv /\ RoundInv

Inv == TypeInv /\ TimeInv /\ MutexInv /\ LifeInv

----------------------------------------------------------------------------
(* The records that are owed, as a function of two variables.              *)

DueOf(p, w) ==
  {Record(w[t], IF t = Udp THEN "created" ELSE "expired") :
     t \in {u \in Threads : p[u] \in {"created", "deleted"}}}

LEMMA DueIsDueOf == RecordsDue = DueOf(pc, target) /\ RecordsDue' = DueOf(pc', target')
BY DEF RecordsDue, DueOf

LEMMA DueNone ==
  ASSUME NEW p, NEW w, \A t \in Threads : p[t] \notin {"created", "deleted"}
  PROVE  DueOf(p, w) = {}
BY DEF DueOf

LEMMA DueOne ==
  ASSUME NEW p, NEW w, NEW t \in Threads,
         \A u \in Threads : p[u] \in {"created", "deleted"} <=> u = t
  PROVE  DueOf(p, w) = {Record(w[t], IF t = Udp THEN "created" ELSE "expired")}
BY DEF DueOf

LEMMA DueSame ==
  ASSUME NEW p, NEW w, NEW q, NEW v,
         \A t \in Threads : p[t] \in {"created", "deleted"} <=> q[t] \in {"created", "deleted"},
         \A t \in Threads : p[t] \in {"created", "deleted"} => w[t] = v[t]
  PROVE  DueOf(p, w) = DueOf(q, v)
<1> DEFINE P == {t \in Threads : p[t] \in {"created", "deleted"}}
           Q == {t \in Threads : q[t] \in {"created", "deleted"}}
<1>1. P = Q
  OBVIOUS
<1>2. \A t \in P : w[t] = v[t]
  OBVIOUS
<1> HIDE DEF P, Q
<1>3. {Record(w[t], IF t = Udp THEN "created" ELSE "expired") : t \in P}
        = {Record(v[t], IF t = Udp THEN "created" ELSE "expired") : t \in Q}
  BY <1>1, <1>2
<1> QED  BY <1>3 DEF DueOf, P, Q

(* Only the owner of mtx_ owes a record.                                   *)
LEMMA OwnerOwes ==
  ASSUME MutexInv, NEW t \in Threads, pc[t] \in {"created", "deleted"}
  PROVE  RecordsDue = {Record(target[t], IF t = Udp THEN "created" ELSE "expired")}
<1>1. \A u \in Threads : pc[u] \in {"created", "deleted"} <=> u = t
  BY DEF MutexInv, Locked
<1> QED  BY <1>1, DueOne, DueIsDueOf

LEMMA RecordedGrows ==
  ASSUME cdr \in Seq(CdrRecord), NEW i \in Imsi, NEW a \in {"created", "expired"},
         cdr_write(i, a)
  PROVE  Recorded' = Recorded \cup {i}
<1> DEFINE n == Len(cdr)
<1>1. Record(i, a) \in CdrRecord /\ Record(i, a).imsi = i
  BY DEF Record, CdrRecord
<1>2. /\ n \in Nat /\ Len(cdr') = n + 1 /\ cdr'[n + 1] = Record(i, a)
      /\ \A k \in 1..n : cdr'[k] = cdr[k]
  BY <1>1, AppendProperties, LenProperties DEF cdr_write
<1> HIDE DEF n
<1>3. Recorded' = {cdr'[k].imsi : k \in 1..(n + 1)}
  BY <1>2 DEF Recorded
<1>4. Recorded = {cdr[k].imsi : k \in 1..n}
  BY DEF Recorded, n
<1>5. {cdr'[k].imsi : k \in 1..(n + 1)} = {cdr[k].imsi : k \in 1..n} \cup {i}
  <2>1. 1..(n + 1) = (1..n) \cup {n + 1} /\ n + 1 \notin 1..n
    BY <1>2
  <2>2. \A x : x \in {cdr'[k].imsi : k \in 1..(n + 1)}
                 <=> x = i \/ \E k \in 1..n : x = cdr[k].imsi
    BY <1>1, <1>2, <2>1
  <2> QED  BY <2>2
<1> QED  BY <1>3, <1>4, <1>5

----------------------------------------------------------------------------
(* Steps that are none of SessionLifecycle's.                              *)

Unmoved == UNCHANGED <<Stored, Ended, todo, RecordsDue, cdr>>

LEMMA QuietLife ==
  ASSUME TypeInv, LifeInv, UNCHANGED <<store, cdr, todo>>,
         \A t \in Threads :
           \/ pc'[t] = pc[t] /\ target'[t] = target[t]
           \/ pc[t] \notin {"created", "deleted"} /\ pc'[t] \notin {"created", "deleted"},
         pc'[Cleaner] = "writing" <=> pc[Cleaner] = "writing",
         pc'[Cleaner] = "writing" => stamp'[Cleaner] = stamp[Cleaner],
         pc'[Udp] = "created" => stamp'[Udp] = stamp[Udp],
         pc'[Udp] = "create" => target'[Udp] \notin Stored,
         pc'[Udp] = "refresh" => Known(target'[Udp]),
         \A s \in Stoppers : pc'[s] = "picked" => Known(target'[s])
  PROVE  LifeInv' /\ Unmoved
<1> USE Kinds
<1>1. UNCHANGED <<Stored, Recorded>>
  BY DEF Stored, Recorded
<1>2. UNCHANGED Ended
  BY DEF Ended, ExpiredRows, Stored, Lapsed
<1>3. UNCHANGED RecordsDue
  <2>1. DueOf(pc, target) = DueOf(pc', target')
    BY DueSame
  <2> QED  BY <2>1, DueIsDueOf
<1>4. \A i : BeingRecorded(i)' <=> BeingRecorded(i)
  BY DEF BeingRecorded
<1>5. \A i : Known(i) => i \in Stored' \cup Recorded' \/ BeingRecorded(i)'
  BY <1>1, <1>4 DEF Known
<1>6. HeldInv'
  <2>1. \A s \in Stoppers : pc'[s] = "deleted" => target'[s] \notin Stored
    BY DEF LifeInv, HeldInv
  <2>2. pc'[Udp] = "created" => store[target'[Udp]] = stamp[Udp]
    BY DEF LifeInv, HeldInv
  <2> QED  BY <1>1, <2>1, <2>2 DEF HeldInv
<1>7. KnownInv'
  BY <1>5 DEF KnownInv, Known
<1>8. RoundInv'
  BY <1>1, <1>2 DEF LifeInv, RoundInv
<1> QED  BY <1>1, <1>2, <1>3, <1>6, <1>7, <1>8 DEF LifeInv, Unmoved

LEMMA UdpLooks ==
  ASSUME Reliable, Inv, TouchLock \/ \E i \in Imsi : TouchStamp(i)
  PROVE  LifeInv' /\ Unmoved
<1> USE Kinds
<1>0. /\ stamp \in [Threads -> Nat] /\ PcOK /\ TypeInv /\ LifeInv
      /\ target \in [Threads -> Imsi \cup {NoSession}] /\ clock + Timeout \in Nat
  BY ConfigAssumption DEF Inv, TypeInv, TypeOK, TargetOK
<1>1. UNCHANGED <<store, cdr, todo>>
  BY DEF TouchLock, TouchStamp, storeVars
<1>2. PICK l : /\ Goto(Udp, l) /\ pc[Udp] \notin {"created", "deleted"}
               /\ l \in {"locking", "refresh", "create"}
  BY DEF TouchLock, TouchStamp
<1>3. pc'[Udp] = l /\ \A t \in Threads \ {Udp} : pc'[t] = pc[t] /\ target'[t] = target[t]
  <2>1. \A t \in Threads \ {Udp} : target'[t] = target[t]
    BY <1>0 DEF TouchLock, TouchStamp
  <2> QED  BY <1>0, <1>2, <2>1 DEF Goto, PcOK
<1>4. stamp'[Cleaner] = stamp[Cleaner]
  BY <1>0, LocaltimeAlone DEF TouchLock, TouchStamp, Reliable, Timely
<1>5. /\ pc'[Udp] = "create" => target'[Udp] \notin Stored
      /\ pc'[Udp] = "refresh" => Known(target'[Udp])
  <2>1. CASE TouchLock
    <3>1. PICK exists \in BOOLEAN : /\ session_exists(target[Udp], exists)
                                    /\ Goto(Udp, IF exists THEN "refresh" ELSE "create")
      BY <2>1 DEF TouchLock
    <3>2. exists <=> target[Udp] \in Stored
      BY <1>0, <3>1, NoFault DEF session_exists, Reliable
    <3>3. pc'[Udp] = (IF exists THEN "refresh" ELSE "create") /\ UNCHANGED target
      BY <1>0, <2>1, <3>1 DEF Goto, PcOK, TouchLock
    <3> QED  BY <3>2, <3>3 DEF Known
  <2>2. CASE \E i \in Imsi : TouchStamp(i)
    <3>1. Goto(Udp, "locking")
      BY <2>2 DEF TouchStamp
    <3> QED  BY <1>0, <3>1 DEF Goto, PcOK
  <2> QED  BY <2>1, <2>2
<1>6. \A s \in Stoppers : pc'[s] = "picked" => Known(target'[s])
  BY <1>0, <1>3 DEF LifeInv, KnownInv
<1> QED  BY <1>0, <1>1, <1>2, <1>3, <1>4, <1>5, <1>6, QuietLife

LEMMA CheckerLooks ==
  ASSUME Reliable, Inv, NEW c \in Checkers, CheckLoad(c) \/ \E i \in Imsi : CheckStamp(c, i)
  PROVE  LifeInv' /\ Unmoved
<1> USE Kinds
<1>0. /\ stamp \in [Threads -> Nat] /\ PcOK /\ TypeInv /\ LifeInv /\ clock \in Nat
      /\ target \in [Threads -> Imsi \cup {NoSession}]
  BY DEF Inv, TypeInv, TypeOK, TargetOK
<1>1. UNCHANGED <<store, cdr, todo>>
  BY DEF CheckLoad, CheckStamp, storeVars
<1>2. /\ pc[c] \notin {"created", "deleted"} /\ pc'[c] \notin {"created", "deleted"}
      /\ \A t \in Threads \ {c} : /\ pc'[t] = pc[t] /\ target'[t] = target[t]
                                  /\ stamp'[t] = stamp[t]
  <2>1. PICK l : Goto(c, l) /\ l \in CheckerPC
    BY DEF CheckLoad, CheckStamp, Return, CheckerPC
  <2>2. pc[c] \in CheckerPC /\ pc'[c] = l /\ \A t \in Threads \ {c} : pc'[t] = pc[t]
    BY <1>0, <2>1 DEF Goto, PcOK
  <2>3. \A t \in Threads \ {c} : target'[t] = target[t] /\ stamp'[t] = stamp[t]
    BY <1>0, LocaltimeAlone DEF CheckLoad, CheckStamp, Return, Reliable, Timely
  <2> QED  BY <2>1, <2>2, <2>3 DEF CheckerPC
<1>3. /\ pc'[Udp] = pc[Udp] /\ target'[Udp] = target[Udp] /\ stamp'[Udp] = stamp[Udp]
      /\ pc'[Cleaner] = pc[Cleaner] /\ stamp'[Cleaner] = stamp[Cleaner]
      /\ \A s \in Stoppers : pc'[s] = pc[s] /\ target'[s] = target[s]
  BY <1>2
<1>4. /\ pc'[Udp] = "create" => target'[Udp] \notin Stored
      /\ pc'[Udp] = "refresh" => Known(target'[Udp])
      /\ \A s \in Stoppers : pc'[s] = "picked" => Known(target'[s])
  BY <1>0, <1>3 DEF LifeInv, HeldInv, KnownInv
<1> QED  BY <1>0, <1>1, <1>2, <1>3, <1>4, QuietLife

LEMMA StopperLooks ==
  ASSUME Reliable, Inv, NEW s \in Stoppers,
         StopCall(s) \/ StopStamp(s) \/ StopLoad(s) \/ OffloadPick(s)
  PROVE  LifeInv' /\ Unmoved
<1> USE Kinds
<1>0. /\ stamp \in [Threads -> Nat] /\ PcOK /\ TypeInv /\ LifeInv /\ clock \in Nat
      /\ target \in [Threads -> Imsi \cup {NoSession}]
  BY DEF Inv, TypeInv, TypeOK, TargetOK
<1>1. UNCHANGED <<store, cdr, todo>>
  BY DEF StopCall, StopStamp, StopLoad, OffloadPick, storeVars
<1>2. /\ pc[s] \notin {"created", "deleted"} /\ pc'[s] \notin {"created", "deleted"}
      /\ \A t \in Threads \ {s} : /\ pc'[t] = pc[t] /\ target'[t] = target[t]
                                  /\ stamp'[t] = stamp[t]
      /\ pc'[s] = "picked" => OffloadPick(s)
  <2>1. PICK l : /\ Goto(s, l) /\ l \notin {"created", "deleted"}
                 /\ pc[s] \notin {"created", "deleted"}
                 /\ l = "picked" => OffloadPick(s)
    BY DEF StopCall, StopStamp, StopLoad, OffloadPick, Return, AfterRemoving
  <2>2. pc'[s] = l /\ \A t \in Threads \ {s} : pc'[t] = pc[t]
    BY <1>0, <2>1 DEF Goto, PcOK
  <2>3. \A t \in Threads \ {s} : target'[t] = target[t] /\ stamp'[t] = stamp[t]
    BY <1>0, LocaltimeAlone
       DEF StopCall, StopStamp, StopLoad, OffloadPick, Return, Reliable, Timely, storeVars
  <2> QED  BY <2>1, <2>2, <2>3
<1>3. /\ pc'[Udp] = pc[Udp] /\ target'[Udp] = target[Udp] /\ stamp'[Udp] = stamp[Udp]
      /\ pc'[Cleaner] = pc[Cleaner] /\ stamp'[Cleaner] = stamp[Cleaner]
      /\ \A r \in Stoppers \ {s} : pc'[r] = pc[r] /\ target'[r] = target[r]
  BY <1>2
<1>4. /\ pc'[Udp] = "create" => target'[Udp] \notin Stored
      /\ pc'[Udp] = "refresh" => Known(target'[Udp])
      /\ \A r \in Stoppers \ {s} : pc'[r] = "picked" => Known(target'[r])
  BY <1>0, <1>3 DEF LifeInv, HeldInv, KnownInv
<1>5. pc'[s] = "picked" => Known(target'[s])
  <2>1. SUFFICES ASSUME OffloadPick(s), pc'[s] = "picked" PROVE target'[s] \in Stored
    BY <1>2 DEF Known
  <2>2. PICK rows \in SUBSET Imsi :
          /\ load_sessions(stamp[s], rows)
          /\ \/ rows = {} /\ Goto(s, "check") /\ UNCHANGED target
             \/ \E i \in rows : /\ target' = [target EXCEPT ![s] = i]
                                /\ Goto(s, "picked")
    BY <2>1 DEF OffloadPick
  <2>3. ~Goto(s, "check")
    BY <1>0, <2>1 DEF Goto, PcOK
  <2>4. PICK i \in rows : target' = [target EXCEPT ![s] = i]
    BY <2>2, <2>3
  <2>5. rows \subseteq ActiveRows(stamp[s])
    BY <2>2 DEF load_sessions, Query
  <2> QED  BY <1>0, <2>4, <2>5 DEF ActiveRows
<1> QED  BY <1>0, <1>1, <1>2, <1>3, <1>4, <1>5, QuietLife

LEMMA CleanerLooks ==
  ASSUME Reliable, Inv, CleanerTop \/ CleanerSleep \/ CleanerWake
  PROVE  LifeInv' /\ Unmoved
<1> USE Kinds
<1>0. /\ stamp \in [Threads -> Nat] /\ PcOK /\ TypeInv /\ LifeInv /\ clock \in Nat
  BY DEF Inv, TypeInv, TypeOK
<1>1. UNCHANGED <<store, cdr, todo, target>>
  BY DEF CleanerTop, CleanerSleep, CleanerWake, storeVars
<1>2. /\ pc[Cleaner] \notin {"writing", "created", "deleted"}
      /\ pc'[Cleaner] \notin {"writing", "created", "deleted"}
      /\ \A t \in Threads \ {Cleaner} : pc'[t] = pc[t] /\ stamp'[t] = stamp[t]
  <2>1. PICK l : /\ Goto(Cleaner, l) /\ l \notin {"writing", "created", "deleted"}
                 /\ pc[Cleaner] \notin {"writing", "created", "deleted"}
    BY DEF CleanerTop, CleanerSleep, CleanerWake
  <2>2. pc'[Cleaner] = l /\ \A t \in Threads \ {Cleaner} : pc'[t] = pc[t]
    BY <1>0, <2>1 DEF Goto, PcOK
  <2>3. \A t \in Threads \ {Cleaner} : stamp'[t] = stamp[t]
    BY <1>0, LocaltimeAlone DEF CleanerTop, CleanerSleep, CleanerWake, Reliable, Timely
  <2> QED  BY <2>1, <2>2, <2>3
<1>3. /\ pc'[Udp] = pc[Udp] /\ stamp'[Udp] = stamp[Udp]
      /\ \A s \in Stoppers : pc'[s] = pc[s]
  BY <1>2
<1>4. /\ pc'[Udp] = "create" => target'[Udp] \notin Stored
      /\ pc'[Udp] = "refresh" => Known(target'[Udp])
      /\ \A s \in Stoppers : pc'[s] = "picked" => Known(target'[s])
  BY <1>0, <1>1, <1>3 DEF LifeInv, HeldInv, KnownInv
<1> QED  BY <1>0, <1>1, <1>2, <1>3, <1>4, QuietLife

LEMMA NobodyMoves ==
  ASSUME Inv, Tick \/ Destroy \/ Destroyed \/ UNCHANGED vars
  PROVE  LifeInv' /\ Unmoved
<1>1. UNCHANGED <<store, cdr, todo, pc, target, stamp>>
  BY DEF Tick, Destroy, Destroyed, vars, storeVars, threadVars
<1> QED  BY <1>1, QuietLife DEF Inv, LifeInv, HeldInv, KnownInv

----------------------------------------------------------------------------
(* The others, each with the step of SessionLifecycle that it takes.       *)

(* touch_session prolongs: the session was there, or was recorded as ended *)
(* between the look and the save.                                          *)
LEMMA RefreshIsProlong ==
  ASSUME Reliable, Inv, TouchRefresh
  PROVE  LifeInv' /\ \E i \in Imsi : Lifecycle!Prolong(i)
<1> USE Kinds
<1> DEFINE u == target[Udp]
<1>0. /\ stamp \in [Threads -> Nat] /\ PcOK /\ TypeInv /\ LifeInv /\ TimeInv /\ MutexInv
      /\ StoreTypeOK /\ target \in [Threads -> Imsi \cup {NoSession}]
      /\ pc[Udp] = "refresh" /\ u \in Imsi
  BY DEF Inv, TypeInv, TypeOK, TargetOK, TouchRefresh
<1>1. PICK i \in Imsi : i = u
  BY <1>0
<1>2. /\ pc'[Udp] = "idle" /\ UNCHANGED <<cdr, todo>>
      /\ \A t \in Threads \ {Udp} : /\ pc'[t] = pc[t] /\ target'[t] = target[t]
                                    /\ stamp'[t] = stamp[t]
  BY <1>0 DEF TouchRefresh, Return, Goto, PcOK
<1>3. store'[i] = stamp[Udp] /\ \A j \in Imsi \ {i} : store'[j] = store[j]
  <2>1. store' = [store EXCEPT ![i] = stamp[Udp]]
    BY <1>0, <1>1, NoFault DEF TouchRefresh, save_session, Execute, Reliable
  <2> QED  BY <1>0, <2>1 DEF StoreTypeOK
<1>4. stamp[Udp] > stamp[Cleaner] /\ stamp[Udp] # NoSession
  BY <1>0, StampIsAhead DEF Reliable
<1>5. /\ Stored' = Stored \cup {i} /\ UNCHANGED Recorded
      /\ Ended' = Ended \ {i}
  <2>1. Stored' = Stored \cup {i}
    BY <1>3, <1>4 DEF Stored
  <2>2. ~Lapsed(stamp[Udp], stamp[Cleaner])
    BY <1>0, <1>4 DEF Lapsed
  <2>3. {j \in Stored' : Lapsed(store'[j], stamp[Cleaner])}
          = {j \in Stored : Lapsed(store[j], stamp[Cleaner])} \ {i}
    BY <1>3, <2>1, <2>2 DEF Stored
  <2>4. ExpiredRows(stamp[Cleaner])' = ExpiredRows(stamp[Cleaner]) \ {i}
    BY <1>2, <2>3 DEF ExpiredRows, Lapsed
  <2> QED  BY <1>2, <2>1, <2>4 DEF Ended, Recorded
<1>6. RecordsDue = {} /\ RecordsDue' = {} /\ \A j : ~BeingRecorded(j)
  <2>1. \A t \in Threads : pc[t] \notin {"created", "deleted"}
    BY <1>0 DEF MutexInv, Locked
  <2>2. \A t \in Threads : pc'[t] \notin {"created", "deleted"}
    BY <1>2, <2>1
  <2> QED  BY <2>1, <2>2, DueNone, DueIsDueOf DEF BeingRecorded
<1>7. LifeInv'
  <2>1. HeldInv'
    <3>1. \A s \in Stoppers : pc'[s] # "deleted"
      BY <1>0, <1>2 DEF MutexInv, Locked
    <3> QED  BY <1>2, <3>1 DEF HeldInv
  <2>2. KnownInv'
    BY <1>0, <1>2, <1>5, <1>6 DEF LifeInv, KnownInv, Known
  <2>3. RoundInv'
    BY <1>0, <1>2, <1>5 DEF LifeInv, RoundInv
  <2> QED  BY <2>1, <2>2, <2>3 DEF LifeInv
<1>8. i \in Stored \cup Recorded
  BY <1>0, <1>1, <1>6 DEF LifeInv, KnownInv, Known
<1>9. Lifecycle!Prolong(i)
  BY <1>2, <1>5, <1>6, <1>8 DEF Lifecycle!Prolong, Lifecycle!Recorded, Recorded
<1> QED  BY <1>7, <1>9

(* touch_session creates.                                                  *)
LEMMA CreateIsCreate ==
  ASSUME Reliable, Inv, TouchCreate
  PROVE  LifeInv' /\ \E i \in Imsi : Lifecycle!Create(i)
<1> USE Kinds
<1> DEFINE u == target[Udp]
<1>0. /\ stamp \in [Threads -> Nat] /\ PcOK /\ TypeInv /\ LifeInv /\ TimeInv /\ MutexInv
      /\ StoreTypeOK /\ pc[Udp] = "create" /\ u \in Imsi
  BY DEF Inv, TypeInv, TypeOK, TargetOK, TouchCreate
<1>1. PICK i \in Imsi : i = u
  BY <1>0
<1>2. /\ pc'[Udp] = "created" /\ UNCHANGED <<cdr, todo, target, stamp>>
      /\ \A t \in Threads \ {Udp} : pc'[t] = pc[t]
  BY <1>0 DEF TouchCreate, Goto, PcOK
<1>3. store'[i] = stamp[Udp] /\ \A j \in Imsi \ {i} : store'[j] = store[j]
  <2>1. store' = [store EXCEPT ![i] = stamp[Udp]]
    BY <1>0, <1>1, NoFault DEF TouchCreate, save_session, Execute, Reliable
  <2> QED  BY <1>0, <2>1 DEF StoreTypeOK
<1>4. stamp[Udp] > stamp[Cleaner] /\ stamp[Udp] # NoSession
  BY <1>0, StampIsAhead DEF Reliable
<1>5. i \notin Stored /\ Stored' = Stored \cup {i} /\ UNCHANGED <<Recorded, Ended>>
  <2>1. i \notin Stored /\ Stored' = Stored \cup {i}
    BY <1>0, <1>1, <1>3, <1>4 DEF Stored, LifeInv, HeldInv
  <2>2. ~Lapsed(stamp[Udp], stamp[Cleaner])
    BY <1>0, <1>4 DEF Lapsed
  <2>3. {j \in Stored' : Lapsed(store'[j], stamp[Cleaner])}
          = {j \in Stored : Lapsed(store[j], stamp[Cleaner])}
    BY <1>3, <2>1, <2>2 DEF Stored
  <2>4. ExpiredRows(stamp[Cleaner])' = ExpiredRows(stamp[Cleaner])
    BY <1>2, <2>3 DEF ExpiredRows, Lapsed
  <2> QED  BY <1>2, <2>1, <2>4 DEF Ended, Recorded
<1>6. /\ RecordsDue = {} /\ RecordsDue' = {Record(i, "created")}
      /\ \A j : ~BeingRecorded(j)
  <2>1. \A t \in Threads : pc[t] \notin {"created", "deleted"}
    BY <1>0 DEF MutexInv, Locked
  <2>2. \A t \in Threads : pc'[t] \in {"created", "deleted"} <=> t = Udp
    BY <1>2, <2>1
  <2>3. DueOf(pc', target') = {Record(target'[Udp], "created")}
    BY <2>2, DueOne
  <2> QED  BY <1>1, <1>2, <2>1, <2>3, DueNone, DueIsDueOf DEF BeingRecorded
<1>7. LifeInv'
  <2>1. HeldInv'
    <3>1. \A s \in Stoppers : pc'[s] # "deleted"
      BY <1>0, <1>2 DEF MutexInv, Locked
    <3> QED  BY <1>1, <1>2, <1>3, <3>1 DEF HeldInv
  <2>2. KnownInv'
    BY <1>0, <1>2, <1>5, <1>6 DEF LifeInv, KnownInv, Known
  <2>3. RoundInv'
    BY <1>0, <1>2, <1>5 DEF LifeInv, RoundInv
  <2> QED  BY <2>1, <2>2, <2>3 DEF LifeInv
<1>8. Lifecycle!Create(i)
  BY <1>2, <1>5, <1>6 DEF Lifecycle!Create, Lifecycle!CdrOf, Record
<1> QED  BY <1>7, <1>8

(* The record that is owed is written.                                     *)
LEMMA WriteIsWriteDue ==
  ASSUME Reliable, Inv, TouchWriteCdr \/ \E s \in Stoppers : OffloadWriteCdr(s)
  PROVE  LifeInv' /\ Lifecycle!WriteDue
<1> USE Kinds
<1>0. /\ stamp \in [Threads -> Nat] /\ PcOK /\ TypeInv /\ LifeInv /\ MutexInv
      /\ clock \in Nat /\ cdr \in Seq(CdrRecord)
      /\ target \in [Threads -> Imsi \cup {NoSession}]
  BY DEF Inv, TypeInv, TypeOK, TargetOK
<1>1. PICK t \in Threads :
        /\ t = Udp \/ t \in Stoppers
        /\ pc[t] \in {"created", "deleted"} /\ target[t] \in Imsi
        /\ cdr_write(target[t], IF t = Udp THEN "created" ELSE "expired")
        /\ \E l \in {"idle", "offload", "check"} : Goto(t, l)
        /\ \A u \in Threads \ {t} : stamp'[u] = stamp[u] /\ target'[u] = target[u]
  <2>1. CASE TouchWriteCdr
    <3>1. /\ pc[Udp] = "created" /\ target[Udp] \in Imsi /\ cdr_write(target[Udp], "created")
          /\ Goto(Udp, "idle")
      BY <2>1 DEF TouchWriteCdr, Return, Inv, TypeInv, TypeOK, TargetOK
    <3>2. \A u \in Threads \ {Udp} : stamp'[u] = stamp[u] /\ target'[u] = target[u]
      BY <1>0, <2>1 DEF TouchWriteCdr, Return
    <3> QED  BY <3>1, <3>2
  <2>2. ASSUME NEW s \in Stoppers, OffloadWriteCdr(s)
        PROVE  /\ pc[s] = "deleted" /\ target[s] \in Imsi /\ cdr_write(target[s], "expired")
               /\ \E l \in {"idle", "offload", "check"} : Goto(s, l)
               /\ \A u \in Threads \ {s} : stamp'[u] = stamp[u] /\ target'[u] = target[u]
    <3>1. /\ pc[s] = "deleted" /\ target[s] \in Imsi /\ cdr_write(target[s], "expired")
          /\ Goto(s, AfterRemoving(removed[s] + 1)) /\ UNCHANGED target
      BY <2>2 DEF OffloadWriteCdr, Inv, TypeInv, TypeOK, TargetOK
    <3>2. \A u \in Threads \ {s} : stamp'[u] = stamp[u]
      BY <1>0, <2>2, LocaltimeAlone DEF OffloadWriteCdr, Reliable, Timely
    <3> QED  BY <3>1, <3>2 DEF AfterRemoving
  <2> QED  BY <2>1, <2>2
<1>2. PICK i \in Imsi : i = target[t]
  BY <1>1
<1>3. PICK a \in {"created", "expired"} : a = IF t = Udp THEN "created" ELSE "expired"
  OBVIOUS
<1>4. /\ pc'[t] \notin {"created", "create", "refresh", "picked", "deleted"}
      /\ \A u \in Threads \ {t} : pc'[u] = pc[u]
  <2>1. PICK l \in {"idle", "offload", "check"} : Goto(t, l)
    BY <1>1
  <2> QED  BY <1>0, <2>1 DEF Goto, PcOK
<1>5. UNCHANGED <<store, todo>> /\ pc'[Cleaner] = pc[Cleaner] /\ stamp'[Cleaner] = stamp[Cleaner]
  <2>1. UNCHANGED <<store, todo>>
    BY DEF TouchWriteCdr, OffloadWriteCdr, storeVars
  <2> QED  BY <1>1, <1>4, <2>1
<1>6. Stored' = Stored /\ Ended' = Ended /\ Recorded' = Recorded \cup {i}
  <2>1. cdr_write(i, a)
    BY <1>1, <1>2, <1>3
  <2>2. Recorded' = Recorded \cup {i}
    BY <1>0, <2>1, RecordedGrows
  <2> QED  BY <1>5, <2>2 DEF Stored, Ended, ExpiredRows, Lapsed
<1>7. \A u \in Threads : pc[u] \in {"created", "deleted"} <=> u = t
  BY <1>0, <1>1 DEF MutexInv, Locked
<1>8. RecordsDue = {Record(i, a)} /\ RecordsDue' = {} /\ cdr' = Append(cdr, Record(i, a))
  <2>1. RecordsDue = {Record(i, a)}
    BY <1>0, <1>1, <1>2, <1>3, OwnerOwes
  <2>2. \A u \in Threads : pc'[u] \notin {"created", "deleted"}
    BY <1>4, <1>7
  <2> QED  BY <1>1, <1>2, <1>3, <2>1, <2>2, DueNone, DueIsDueOf DEF cdr_write
<1>9. LifeInv'
  <2>1. \A s \in Stoppers : pc'[s] # "deleted" /\ (BeingRecorded(i)' => FALSE)
    BY <1>4, <1>7 DEF BeingRecorded
  <2>2. /\ pc'[Udp] \notin {"create", "created", "refresh"}
        /\ \A s \in Stoppers : pc'[s] = "picked" => pc[s] = "picked" /\ target'[s] = target[s]
    BY <1>0, <1>1, <1>4 DEF MutexInv, Locked
  <2>3. HeldInv'
    BY <2>1, <2>2 DEF HeldInv
  <2>4. \A j : BeingRecorded(j) => j = i
    BY <1>2, <1>7 DEF BeingRecorded
  <2>5. KnownInv'
    BY <1>0, <1>6, <2>2, <2>4 DEF LifeInv, KnownInv, Known
  <2>6. RoundInv'
    BY <1>0, <1>5, <1>6 DEF LifeInv, RoundInv
  <2> QED  BY <2>3, <2>5, <2>6 DEF LifeInv
<1>10. Lifecycle!WriteDue
  BY <1>5, <1>6, <1>8 DEF Lifecycle!WriteDue
<1> QED  BY <1>9, <1>10

(* graceful_stop deletes the session it has picked.                        *)
LEMMA DeleteIsOffload ==
  ASSUME Reliable, Inv, NEW s \in Stoppers, OffloadDelete(s)
  PROVE  LifeInv' /\ \E i \in Imsi : Lifecycle!Offload(i)
<1> USE Kinds
<1>0. /\ PcOK /\ TypeInv /\ LifeInv /\ MutexInv /\ StoreTypeOK
      /\ pc[s] = "picked" /\ mtx = NoOwner
  BY DEF Inv, TypeInv, TypeOK, OffloadDelete, Lock
<1>1. PICK i \in Imsi : i = target[s]
  BY <1>0 DEF Inv, TypeInv, TypeOK, TargetOK
<1>2. /\ pc'[s] = "deleted" /\ UNCHANGED <<cdr, todo, target, stamp>>
      /\ \A t \in Threads \ {s} : pc'[t] = pc[t]
  BY <1>0 DEF OffloadDelete, Goto, PcOK
<1>3. store'[i] = NoSession /\ \A j \in Imsi \ {i} : store'[j] = store[j]
  <2>1. store' = [store EXCEPT ![i] = NoSession]
    BY <1>0, <1>1, NoFault DEF OffloadDelete, delete_session, Execute, Reliable
  <2> QED  BY <1>0, <2>1 DEF StoreTypeOK
<1>4. /\ Stored' = Stored \ {i} /\ UNCHANGED Recorded
      /\ Ended' = Ended \ {i}
  <2>1. Stored' = Stored \ {i}
    BY <1>3 DEF Stored
  <2>2. {j \in Stored' : Lapsed(store'[j], stamp[Cleaner])}
          = {j \in Stored : Lapsed(store[j], stamp[Cleaner])} \ {i}
    BY <1>3, <2>1 DEF Stored
  <2>3. ExpiredRows(stamp[Cleaner])' = ExpiredRows(stamp[Cleaner]) \ {i}
    BY <1>2, <2>2 DEF ExpiredRows, Lapsed
  <2> QED  BY <1>2, <2>1, <2>3 DEF Ended, Recorded
<1>5. \A t \in Threads : pc[t] \notin Locked
  BY <1>0 DEF MutexInv
<1>6. /\ RecordsDue = {} /\ RecordsDue' = {Record(i, "expired")}
      /\ \A j : ~BeingRecorded(j)
  <2>1. \A t \in Threads : pc[t] \notin {"created", "deleted"}
    BY <1>5 DEF Locked
  <2>2. \A t \in Threads : pc'[t] \in {"created", "deleted"} <=> t = s
    BY <1>2, <2>1
  <2>3. DueOf(pc', target') = {Record(target'[s], IF s = Udp THEN "created" ELSE "expired")}
    BY <2>2, DueOne
  <2> QED  BY <1>1, <1>2, <2>1, <2>3, DueNone, DueIsDueOf DEF BeingRecorded
<1>7. LifeInv'
  <2>1. HeldInv'
    <3>1. pc'[Udp] \notin {"create", "created"}
      BY <1>2, <1>5 DEF Locked
    <3>2. \A r \in Stoppers : pc'[r] = "deleted" => r = s
      BY <1>2, <1>5 DEF Locked
    <3> QED  BY <1>1, <1>2, <1>4, <3>1, <3>2 DEF HeldInv
  <2>2. \A j : Known(j) => Known(j)'
    <3>1. BeingRecorded(i)'
      BY <1>1, <1>2 DEF BeingRecorded
    <3> QED  BY <1>4, <1>6, <3>1 DEF Known
  <2>3. KnownInv'
    BY <1>0, <1>2, <2>2 DEF LifeInv, KnownInv
  <2>4. RoundInv'
    BY <1>0, <1>2, <1>4 DEF LifeInv, RoundInv
  <2> QED  BY <2>1, <2>3, <2>4 DEF LifeInv
<1>8. i \in Stored \cup Recorded
  BY <1>0, <1>1, <1>6 DEF LifeInv, KnownInv, Known
<1>9. Lifecycle!Offload(i)
  BY <1>2, <1>4, <1>6, <1>8
     DEF Lifecycle!Offload, Lifecycle!Recorded, Lifecycle!CdrOf, Recorded, Record
<1> QED  BY <1>7, <1>9

(* The cleaner lists what is over; a session that is only just being       *)
(* created is not, and one that is only just being deleted is gone.        *)
LEMMA LoadIsList ==
  ASSUME Reliable, Inv, CleanerLoad
  PROVE  LifeInv' /\ \E rows \in SUBSET Stored : Lifecycle!List(rows)
<1> USE Kinds
<1> DEFINE rows == ExpiredRows(stamp[Cleaner])
<1>0. /\ stamp \in [Threads -> Nat] /\ PcOK /\ TypeInv /\ LifeInv /\ TimeInv /\ MutexInv
      /\ StoreTypeOK /\ pc[Cleaner] = "loading"
  BY DEF Inv, TypeInv, TypeOK, CleanerLoad
<1>1. /\ pc'[Cleaner] = "writing" /\ UNCHANGED <<store, cdr, target, stamp>>
      /\ \A t \in Threads \ {Cleaner} : pc'[t] = pc[t]
  BY <1>0 DEF CleanerLoad, Goto, PcOK
<1>2. todo' = rows
  BY <1>0, NoFault DEF CleanerLoad, load_expired_sessions, Query, Reliable
<1>3. todo = {} /\ Ended = {} /\ Ended' = rows
  <2>1. rows' = rows
    BY <1>1 DEF ExpiredRows, Stored, Lapsed
  <2> QED  BY <1>0, <1>1, <2>1 DEF LifeInv, RoundInv, Ended
<1>4. Stored' = Stored /\ Recorded' = Recorded /\ RecordsDue' = RecordsDue
  <2>1. \A t \in Threads : pc[t] \in {"created", "deleted"} <=> pc'[t] \in {"created", "deleted"}
    BY <1>0, <1>1
  <2>2. DueOf(pc, target) = DueOf(pc', target')
    BY <1>1, <2>1, DueSame
  <2> QED  BY <1>1, <2>2, DueIsDueOf DEF Stored, Recorded
<1>5. \A r \in RecordsDue : r.imsi \notin rows
  <2>1. SUFFICES ASSUME NEW t \in Threads, pc[t] \in {"created", "deleted"}
                 PROVE  target[t] \notin rows
    BY DEF RecordsDue, Record
  <2>2. CASE t = Udp
    <3>1. pc[Udp] = "created"
      BY <1>0, <2>1, <2>2 DEF PcOK, UdpPC
    <3>2. store[target[Udp]] = stamp[Udp] /\ stamp[Udp] > stamp[Cleaner]
      BY <1>0, <3>1, StampIsAhead DEF LifeInv, HeldInv, Reliable
    <3> QED  BY <1>0, <2>2, <3>2, LapsedIsPast
  <2>3. CASE t \in Stoppers
    <3>1. pc[t] = "deleted"
      BY <1>0, <2>1, <2>3 DEF PcOK, StopperPC
    <3> QED  BY <1>0, <2>3, <3>1, LapsedIsPast DEF LifeInv, HeldInv
  <2>4. t \notin Checkers /\ t # Cleaner
    BY <1>0, <2>1 DEF PcOK, CheckerPC
  <2> QED  BY <2>2, <2>3, <2>4 DEF Threads
<1>6. LifeInv'
  <2>1. \A j : Known(j) <=> Known(j)'
    BY <1>1, <1>4 DEF Known, BeingRecorded
  <2>2. HeldInv' /\ KnownInv'
    BY <1>0, <1>1, <1>4, <2>1 DEF LifeInv, HeldInv, KnownInv
  <2>3. RoundInv'
    BY <1>1, <1>2, <1>3 DEF RoundInv
  <2> QED  BY <2>2, <2>3 DEF LifeInv
<1>7. rows \in SUBSET Stored
  BY DEF ExpiredRows
<1>8. Lifecycle!List(rows)
  BY <1>1, <1>2, <1>3, <1>4, <1>5, <1>7 DEF Lifecycle!List
<1> QED  BY <1>6, <1>7, <1>8

(* It writes the record of one of them.                                    *)
LEMMA WriteIsNote ==
  ASSUME Inv, NEW i \in Imsi, CleanerWriteCdr(i)
  PROVE  LifeInv' /\ Lifecycle!Note(i)
<1> USE Kinds
<1>0. LifeInv /\ cdr \in Seq(CdrRecord) /\ i \in todo
  BY DEF Inv, TypeInv, TypeOK, CleanerWriteCdr
<1>1. UNCHANGED <<store, pc, target, stamp>> /\ todo' = todo \ {i}
  BY DEF CleanerWriteCdr, storeVars
<1>2. cdr' = Append(cdr, Record(i, "expired")) /\ Recorded' = Recorded \cup {i}
  BY <1>0, RecordedGrows DEF CleanerWriteCdr, cdr_write
<1>3. Stored' = Stored /\ Ended' = Ended /\ RecordsDue' = RecordsDue
  BY <1>1 DEF Stored, Ended, ExpiredRows, Lapsed, RecordsDue
<1>4. LifeInv'
  <2>1. \A j : Known(j) => Known(j)'
    BY <1>1, <1>2, <1>3 DEF Known, BeingRecorded
  <2>2. HeldInv' /\ KnownInv'
    BY <1>0, <1>1, <1>3, <2>1 DEF LifeInv, HeldInv, KnownInv
  <2>3. RoundInv'
    BY <1>0, <1>1, <1>2, <1>3 DEF LifeInv, RoundInv
  <2> QED  BY <2>2, <2>3 DEF LifeInv
<1>5. Lifecycle!Note(i)
  BY <1>0, <1>1, <1>2, <1>3 DEF Lifecycle!Note, Lifecycle!CdrOf, Record
<1> QED  BY <1>4, <1>5

(* It deletes by the time on its list: all that it deletes is recorded.    *)
LEMMA CleanupIsRemove ==
  ASSUME Reliable, Inv, CleanerCleanup
  PROVE  LifeInv' /\ Lifecycle!Remove
<1> USE Kinds
<1> DEFINE rows == ExpiredRows(stamp[Cleaner])
<1>0. /\ stamp \in [Threads -> Nat] /\ PcOK /\ TypeInv /\ LifeInv /\ TimeInv /\ MutexInv
      /\ StoreTypeOK /\ target \in [Threads -> Imsi \cup {NoSession}]
      /\ pc[Cleaner] = "writing" /\ todo = {}
  BY DEF Inv, TypeInv, TypeOK, TargetOK, CleanerCleanup
<1>1. /\ pc'[Cleaner] = "sleep" /\ UNCHANGED <<cdr, todo>>
      /\ \A t \in Threads \ {Cleaner} : /\ pc'[t] = pc[t] /\ target'[t] = target[t]
                                        /\ stamp'[t] = stamp[t]
  BY <1>0 DEF CleanerCleanup, Return, Goto, PcOK
<1>2. \A j \in Imsi : store'[j] = IF j \in rows THEN NoSession ELSE store[j]
  BY <1>0, NoFault DEF CleanerCleanup, cleanup_expired_sessions, Execute, Reliable
<1>3. Ended = rows /\ rows \subseteq Recorded /\ Ended' = {}
  BY <1>0, <1>1 DEF Ended, LifeInv, RoundInv
<1>4. Stored' = Stored \ rows /\ Recorded' = Recorded
  BY <1>1, <1>2 DEF Stored, Recorded
<1>5. RecordsDue' = RecordsDue /\ \A j : BeingRecorded(j)' <=> BeingRecorded(j)
  <2>1. \A t \in Threads : pc[t] \in {"created", "deleted"} <=> pc'[t] \in {"created", "deleted"}
    BY <1>0, <1>1
  <2>2. \A t \in Threads : pc[t] \in {"created", "deleted"} => target[t] = target'[t]
    BY <1>0, <1>1
  <2>3. DueOf(pc, target) = DueOf(pc', target')
    BY <2>1, <2>2, DueSame
  <2> QED  BY <1>1, <2>3, DueIsDueOf DEF BeingRecorded
<1>6. LifeInv'
  <2>1. \A j : Known(j) => Known(j)'
    BY <1>3, <1>4, <1>5 DEF Known
  <2>2. KnownInv'
    BY <1>0, <1>1, <2>1 DEF LifeInv, KnownInv
  <2>3. pc'[Udp] = "created" => store'[target'[Udp]] = stamp'[Udp]
    <3>1. SUFFICES ASSUME pc[Udp] = "created" PROVE store'[target[Udp]] = stamp[Udp]
      BY <1>1
    <3>2. /\ target[Udp] \in Imsi /\ store[target[Udp]] = stamp[Udp]
          /\ stamp[Udp] > stamp[Cleaner]
      BY <1>0, <3>1, StampIsAhead
         DEF LifeInv, HeldInv, Reliable, Inv, TypeInv, TypeOK, TargetOK
    <3>3. target[Udp] \notin rows
      BY <1>0, <3>2, LapsedIsPast
    <3> QED  BY <1>2, <3>2, <3>3
  <2>4. HeldInv'
    BY <1>0, <1>1, <1>4, <2>3 DEF LifeInv, HeldInv
  <2>5. RoundInv'
    BY <1>0, <1>1, <1>3 DEF RoundInv
  <2> QED  BY <2>2, <2>4, <2>5 DEF LifeInv
<1>7. Lifecycle!Remove
  BY <1>0, <1>1, <1>3, <1>4, <1>5 DEF Lifecycle!Remove
<1> QED  BY <1>6, <1>7

----------------------------------------------------------------------------

LEMMA InitLife == Init => LifeInv /\ Lifecycle!LifeInit
<1> SUFFICES ASSUME Init PROVE LifeInv /\ Lifecycle!LifeInit
  OBVIOUS
<1>1. pc[Udp] = "idle" /\ pc[Cleaner] = "top" /\ todo = {} /\ \A s \in Stoppers : pc[s] = "idle"
  BY Kinds DEF Init
<1>2. Ended = {} /\ RecordsDue = {} /\ Stored \subseteq Restored
  <2>1. \A t \in Threads : pc[t] \notin {"created", "deleted"}
    BY DEF Init
  <2> QED  BY <1>1, <2>1, DueNone, DueIsDueOf DEF Init, Ended, Stored
<1>3. LifeInv
  BY <1>1, <1>2 DEF LifeInv, HeldInv, KnownInv, RoundInv
<1> QED  BY <1>1, <1>2, <1>3 DEF Lifecycle!LifeInit, Init

(* Every step of SessionManager is a step of SessionLifecycle or none.     *)
LEMMA NextLife ==
  ASSUME Reliable, Inv, [Next]_vars
  PROVE  LifeInv' /\ [Lifecycle!LifeNext]_(Lifecycle!lifeVars)
<1> DEFINE Goal == LifeInv' /\ [Lifecycle!LifeNext]_(Lifecycle!lifeVars)
<1>a. LifeInv' /\ Unmoved => Goal
  BY DEF Unmoved, Lifecycle!lifeVars
<1>b. LifeInv' /\ Lifecycle!LifeNext => Goal
  OBVIOUS
<1> SUFFICES Goal
  OBVIOUS
<1> HIDE DEF Goal
<1>1. CASE TouchLock \/ \E i \in Imsi : TouchStamp(i)
  BY <1>1, <1>a, UdpLooks
<1>2. CASE TouchRefresh
  BY <1>2, <1>b, RefreshIsProlong DEF Lifecycle!LifeNext
<1>3. CASE TouchCreate
  BY <1>3, <1>b, CreateIsCreate DEF Lifecycle!LifeNext
<1>4. CASE TouchWriteCdr \/ \E s \in Stoppers : OffloadWriteCdr(s)
  BY <1>4, <1>b, WriteIsWriteDue DEF Lifecycle!LifeNext
<1>5. ASSUME NEW c \in Checkers, CheckLoad(c) \/ \E i \in Imsi : CheckStamp(c, i) PROVE Goal
  BY <1>5, <1>a, CheckerLooks
<1>6. ASSUME NEW s \in Stoppers, StopCall(s) \/ StopStamp(s) \/ StopLoad(s) \/ OffloadPick(s)
      PROVE  Goal
  BY <1>6, <1>a, StopperLooks
<1>7. ASSUME NEW s \in Stoppers, OffloadDelete(s) PROVE Goal
  BY <1>7, <1>b, DeleteIsOffload DEF Lifecycle!LifeNext
<1>8. CASE CleanerTop \/ CleanerSleep \/ CleanerWake
  BY <1>8, <1>a, CleanerLooks
<1>9. CASE CleanerLoad
  BY <1>9, <1>b, LoadIsList DEF Lifecycle!LifeNext
<1>10. ASSUME NEW i \in Imsi, CleanerWriteCdr(i) PROVE Goal
  BY <1>10, <1>b, WriteIsNote DEF Lifecycle!LifeNext
<1>11. CASE CleanerCleanup
  BY <1>11, <1>b, CleanupIsRemove DEF Lifecycle!LifeNext
<1>12. CASE Tick \/ Destroy \/ Destroyed \/ UNCHANGED vars
  BY <1>12, <1>a, NobodyMoves
<1> QED  BY <1>1, <1>2, <1>3, <1>4, <1>5, <1>6, <1>7, <1>8, <1>9, <1>10, <1>11, <1>12
         DEF Next, UdpStep, StopperStep, CleanerStep

LEMMA LifeInvariant == ASSUME Reliable PROVE Spec => []Inv
<1>1. Init => Inv
  BY InitType, InitTime, InitMutex, InitLife DEF Inv
<1>2. Inv /\ [Next]_vars => Inv'
  BY NextType, NextTime, NextMutex, NextLife DEF Inv, Reliable, Timely
<1> QED  BY <1>1, <1>2, PTL DEF Spec

(* Where SQLite does not fail, all threads together do to the table and    *)
(* the records what one caller at a time and one cleaner beside it would   *)
(* do, though the cleaner works without mtx_ and offload_rate drops it     *)
(* between picking and deleting (session_manager.cpp:58-84, 93-149).       *)
THEOREM LifecycleIsImplemented == ASSUME Reliable PROVE Spec => ImplementsLifecycle
<1>1. Inv /\ [Next]_vars => [Lifecycle!LifeNext]_(Lifecycle!lifeVars)
  BY NextLife
<1> QED  BY <1>1, InitLife, LifeInvariant, PTL DEF Spec, ImplementsLifecycle, Lifecycle!LifeSpec

----------------------------------------------------------------------------
(* A process that finds sessions of earlier ones in SQLite's table and     *)
(* their records in the CDR file: the steps are the same.                  *)

After(before) == INSTANCE SessionLifecycle WITH
  Kept <- Restored,
  stored <- Stored,
  ended <- Ended,
  listed <- todo,
  due <- RecordsDue,
  cdr <- before \o cdr,
  old <- Len(before)

LEMMA AppendAfter ==
  ASSUME NEW before \in Seq(CdrRecord), cdr \in Seq(CdrRecord), NEW r \in CdrRecord
  PROVE  before \o Append(cdr, r) = Append(before \o cdr, r)
<1>1. Append(cdr, r) = cdr \o <<r>> /\ <<r>> \in Seq(CdrRecord)
  BY AppendIsConcat
<1>2. before \o (cdr \o <<r>>) = (before \o cdr) \o <<r>>
  BY <1>1, ConcatAssociative
<1>3. Append(before \o cdr, r) = (before \o cdr) \o <<r>>
  BY ConcatProperties, AppendIsConcat
<1> QED  BY <1>1, <1>2, <1>3

LEMMA RecordedAfter ==
  ASSUME NEW before \in Seq(CdrRecord), cdr \in Seq(CdrRecord)
  PROVE  After(before)!Recorded = Recorded
<1> DEFINE b == Len(before)
           n == Len(cdr)
           all == before \o cdr
<1>1. /\ b \in Nat /\ n \in Nat /\ Len(all) = b + n
      /\ \A k \in 1..(b + n) : all[k] = IF k <= b THEN before[k] ELSE cdr[k - b]
  BY ConcatProperties, LenProperties
<1>2. After(before)!Recorded = {all[k].imsi : k \in (b + 1)..(b + n)}
  BY <1>1 DEF After!Recorded
<1>3. Recorded = {cdr[k].imsi : k \in 1..n}
  BY DEF Recorded
<1> HIDE DEF b, n, all
<1>4. \A k \in (b + 1)..(b + n) : k - b \in 1..n /\ all[k] = cdr[k - b]
  BY <1>1
<1>5. \A k \in 1..n : k + b \in (b + 1)..(b + n) /\ all[k + b] = cdr[k]
  BY <1>1
<1>6. \A x : x \in {all[k].imsi : k \in (b + 1)..(b + n)} <=> x \in {cdr[k].imsi : k \in 1..n}
  BY <1>4, <1>5
<1> QED  BY <1>2, <1>3, <1>6

LEMMA DueIsRecord == ASSUME TypeInv PROVE RecordsDue \subseteq CdrRecord
<1>1. ASSUME NEW t \in Threads, pc[t] \in {"created", "deleted"} PROVE target[t] \in Imsi
  <2>1. pc[Udp] # "idle" => target[Udp] \in Imsi
    BY DEF TypeInv, TypeOK, TargetOK
  <2>2. \A s \in Stoppers : pc[s] = "deleted" => target[s] \in Imsi
    BY DEF TypeInv, TypeOK, TargetOK
  <2>3. t \in Stoppers => pc[t] = "deleted"
    BY <1>1 DEF TypeInv, TypeOK, PcOK, StopperPC
  <2>4. t \notin Checkers /\ t # Cleaner
    BY <1>1 DEF TypeInv, TypeOK, PcOK, CheckerPC, CleanerPC
  <2> QED  BY <1>1, <2>1, <2>2, <2>3, <2>4 DEF Threads
<1> QED  BY <1>1 DEF RecordsDue, Record, CdrRecord

LEMMA StepAfter ==
  ASSUME NEW before \in Seq(CdrRecord), TypeInv,
         [Lifecycle!LifeNext]_(Lifecycle!lifeVars)
  PROVE  [After(before)!LifeNext]_(After(before)!lifeVars)
<1> DEFINE Goal == [After(before)!LifeNext]_(After(before)!lifeVars)
<1>0. cdr \in Seq(CdrRecord) /\ todo \subseteq Imsi
  BY DEF TypeInv, TypeOK
<1>1. After(before)!Recorded = Recorded /\ Lifecycle!Recorded = Recorded
  BY <1>0, RecordedAfter DEF Lifecycle!Recorded, Recorded
<1>2. ASSUME NEW i \in Imsi, Lifecycle!Create(i) PROVE Goal
  <2>1. After(before)!Create(i)
    BY <1>2 DEF Lifecycle!Create, After!Create, Lifecycle!CdrOf, After!CdrOf
  <2> QED  BY <2>1 DEF After!LifeNext
<1>3. ASSUME NEW i \in Imsi, Lifecycle!Prolong(i) PROVE Goal
  <2>1. After(before)!Prolong(i)
    BY <1>1, <1>3 DEF Lifecycle!Prolong, After!Prolong
  <2> QED  BY <2>1 DEF After!LifeNext
<1>4. ASSUME NEW i \in Imsi, Lifecycle!Offload(i) PROVE Goal
  <2>1. After(before)!Offload(i)
    BY <1>1, <1>4 DEF Lifecycle!Offload, After!Offload, Lifecycle!CdrOf, After!CdrOf
  <2> QED  BY <2>1 DEF After!LifeNext
<1>5. ASSUME NEW i \in Imsi, Lifecycle!Note(i) PROVE Goal
  <2>1. Lifecycle!CdrOf(i, "expired") \in CdrRecord
    BY DEF Lifecycle!CdrOf, CdrRecord
  <2>2. before \o cdr' = Append(before \o cdr, Lifecycle!CdrOf(i, "expired"))
    BY <1>0, <1>5, <2>1, AppendAfter DEF Lifecycle!Note
  <2>3. After(before)!Note(i)
    BY <1>5, <2>2 DEF Lifecycle!Note, After!Note, Lifecycle!CdrOf, After!CdrOf
  <2> QED  BY <2>3 DEF After!LifeNext
<1>6. CASE Lifecycle!WriteDue
  <2>1. PICK r \in RecordsDue : cdr' = Append(cdr, r)
    BY <1>6 DEF Lifecycle!WriteDue
  <2>2. r \in CdrRecord
    BY <2>1, DueIsRecord
  <2>3. before \o cdr' = Append(before \o cdr, r)
    BY <1>0, <2>1, <2>2, AppendAfter
  <2>4. After(before)!WriteDue
    BY <1>6, <2>1, <2>3 DEF Lifecycle!WriteDue, After!WriteDue
  <2> QED  BY <2>4 DEF After!LifeNext
<1>7. CASE Lifecycle!Remove
  <2>1. After(before)!Remove
    BY <1>7 DEF Lifecycle!Remove, After!Remove
  <2> QED  BY <2>1 DEF After!LifeNext
<1>8. ASSUME NEW rows \in SUBSET Stored, Lifecycle!List(rows) PROVE Goal
  <2>1. After(before)!List(rows)
    BY <1>8 DEF Lifecycle!List, After!List
  <2> QED  BY <2>1 DEF After!LifeNext
<1>9. CASE UNCHANGED Lifecycle!lifeVars
  BY <1>9 DEF Lifecycle!lifeVars, After!lifeVars
<1> QED  BY <1>2, <1>3, <1>4, <1>5, <1>6, <1>7, <1>8, <1>9 DEF Lifecycle!LifeNext

(* A process that starts with a table and a CDR file left by others does   *)
(* to them what a new one does to its own (main.cpp:48-60): PgwRestart may *)
(* take SessionLifecycle's steps, and no others, in each of its lives.     *)
THEOREM LaterLivesAreAlike ==
  ASSUME Reliable, NEW before \in Seq(CdrRecord)
  PROVE  Spec => [][After(before)!LifeNext]_(After(before)!lifeVars)
<1>1. Inv /\ [Next]_vars => [After(before)!LifeNext]_(After(before)!lifeVars)
  BY NextLife, StepAfter DEF Inv
<1> QED  BY <1>1, LifeInvariant, PTL DEF Spec

====
