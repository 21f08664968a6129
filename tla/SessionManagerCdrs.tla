---- MODULE SessionManagerCdrs ----
(***************************************************************************)
(* The CDRs of SessionManager against its sessions, for every value of the *)
(* constants, as long as touch_session takes less than a timeout           *)
(* (MaxLag < Timeout) and std::localtime is not shared.                    *)
(***************************************************************************)
EXTENDS SessionManagerSafety

Timely == ~SharedTm /\ MaxLag < Timeout

(* Nothing is owed for i but what failing statements have cost.             *)
Settled(i) == Count(i, "created") <= Count(i, "expired") + faults

(* A subscriber whose session is about to be created has none to account   *)
(* for, or the look at the table has failed.                               *)
CreateInv == pc[Udp] = "create" => Settled(target[Udp])

(* Between save_session and the "created" record the session is the one    *)
(* just saved, or the save has failed and has already been charged.        *)
CreatedInv ==
  pc[Udp] = "created" =>
    /\ Settled(target[Udp])
    /\ \/ store[target[Udp]] = stamp[Udp]
       \/ Count(target[Udp], "created") < Count(target[Udp], "expired") + faults

(* What the cleaner is about to delete is on its list or accounted for.    *)
CleanInv ==
  pc[Cleaner] = "writing" =>
    \A i \in ExpiredRows(stamp[Cleaner]) : i \in todo \/ Settled(i)

AccountInv == FaultsAccounted /\ CreateInv /\ CreatedInv /\ CleanInv

----------------------------------------------------------------------------
(* Counting records.                                                       *)

LEMMA CountNat ==
  ASSUME cdr \in Seq(CdrRecord), NEW i, NEW a
  PROVE  Count(i, a) \in Nat
<1>1. DOMAIN cdr = 1..Len(cdr) /\ Len(cdr) \in Nat
  BY LenProperties
<1>2. IsFiniteSet(1..Len(cdr))
  BY <1>1, FS_Interval
<1>3. {k \in DOMAIN cdr : cdr[k] = Record(i, a)} \in SUBSET (1..Len(cdr))
  BY <1>1
<1>4. IsFiniteSet({k \in DOMAIN cdr : cdr[k] = Record(i, a)})
  BY <1>2, <1>3, FS_Subset
<1> QED  BY <1>4, FS_CardinalityType DEF Count

LEMMA CountGrows ==
  ASSUME cdr \in Seq(CdrRecord), NEW j, NEW b, cdr_write(j, b), Record(j, b) \in CdrRecord,
         NEW i, NEW a
  PROVE  Count(i, a)' = Count(i, a) + (IF i = j /\ a = b THEN 1 ELSE 0)
<1> DEFINE r == Record(i, a)
           S == {k \in DOMAIN cdr : cdr[k] = r}
           T == {k \in DOMAIN cdr' : cdr'[k] = r}
           n == Len(cdr) + 1
<1>1. /\ DOMAIN cdr = 1..Len(cdr) /\ Len(cdr) \in Nat
      /\ DOMAIN cdr' = 1..n
      /\ cdr'[n] = Record(j, b) /\ \A k \in 1..Len(cdr) : cdr'[k] = cdr[k]
  BY DEF cdr_write
<1>2. r = Record(j, b) <=> i = j /\ a = b
  BY DEF Record
<1> HIDE DEF r
<1>3. IsFiniteSet(S) /\ Cardinality(S) \in Nat
  <2>1. IsFiniteSet(1..Len(cdr)) /\ S \in SUBSET (1..Len(cdr))
    BY <1>1, FS_Interval
  <2> QED  BY <2>1, FS_Subset, FS_CardinalityType
<1>4. n \notin S
  BY <1>1
<1>5. T = IF i = j /\ a = b THEN S \cup {n} ELSE S
  BY <1>1, <1>2
<1>6. Cardinality(T) = Cardinality(S) + (IF i = j /\ a = b THEN 1 ELSE 0)
  <2> HIDE DEF S, T, n
  <2>1. Cardinality(S \cup {n}) = Cardinality(S) + 1
    BY <1>3, <1>4, FS_AddElement
  <2> QED  BY <1>3, <1>5, <2>1
<1> QED  BY <1>6 DEF Count, r

LEMMA CountSame ==
  ASSUME UNCHANGED cdr, NEW i, NEW a
  PROVE  Count(i, a)' = Count(i, a)
BY DEF Count

----------------------------------------------------------------------------
(* What each step does to the four parts of AccountInv.                    *)

LEMMA FaultsGrow ==
  ASSUME TypeInv, [Next]_vars
  PROVE  faults \in Nat /\ faults' \in {faults, faults + 1}
<1>1. faults \in Nat
  BY StoreAssumption DEF TypeInv, TypeOK, StoreTypeOK
<1>2. UNCHANGED faults \/ Fault
  BY DEF Next, Tick, TouchStamp, UdpStep, TouchLock, TouchRefresh, TouchCreate, TouchWriteCdr,
     CheckLoad, CheckStamp, StopCall, StopperStep, StopStamp, StopLoad, OffloadPick,
     OffloadDelete, OffloadWriteCdr, CleanerStep, CleanerTop, CleanerLoad, CleanerWriteCdr,
     CleanerCleanup, CleanerSleep, CleanerWake, Destroy, Destroyed, vars, storeVars,
     session_exists, save_session, delete_session, cleanup_expired_sessions, load_sessions,
     load_expired_sessions, Query, Execute
<1> QED  BY <1>1, <1>2 DEF Fault

LEMMA CountsNat ==
  ASSUME TypeInv
  PROVE  \A i, a : Count(i, a) \in Nat
BY CountNat DEF TypeInv, TypeOK

(* Whatever has become of its session, a subscriber owes one record.       *)
LEMMA AtMostOneOpen ==
  ASSUME TypeInv, FaultsAccounted, NEW i \in Imsi
  PROVE  Count(i, "created") <= Count(i, "expired") + faults + 1
<1>1. Count(i, "created") \in Nat /\ Count(i, "expired") \in Nat /\ faults \in Nat
  BY CountsNat, StoreAssumption DEF TypeInv, TypeOK, StoreTypeOK
<1>2. Count(i, "created") <=
        Count(i, "expired") + faults + (IF i \in Stored \/ BeingRecorded(i) THEN 1 ELSE 0)
  BY DEF FaultsAccounted
<1> QED  BY <1>1, <1>2

LEMMA SettledIfGone ==
  ASSUME TypeInv, FaultsAccounted, NEW i \in Imsi, i \notin Stored, ~BeingRecorded(i)
  PROVE  Settled(i)
<1>1. Count(i, "created") \in Nat /\ Count(i, "expired") \in Nat /\ faults \in Nat
  BY CountsNat, StoreAssumption DEF TypeInv, TypeOK, StoreTypeOK
<1>2. Count(i, "created") <=
        Count(i, "expired") + faults + (IF i \in Stored \/ BeingRecorded(i) THEN 1 ELSE 0)
  BY DEF FaultsAccounted
<1> QED  BY <1>1, <1>2 DEF Settled

LEMMA NoneCreated ==
  ASSUME TypeInv, NEW i, UNCHANGED cdr \/ \E j \in Imsi : cdr_write(j, "expired")
  PROVE  /\ Count(i, "created")' = Count(i, "created")
         /\ Count(i, "expired")' \in {Count(i, "expired"), Count(i, "expired") + 1}
<1>1. CASE UNCHANGED cdr
  BY <1>1, CountSame
<1>2. ASSUME NEW j \in Imsi, cdr_write(j, "expired")
      PROVE  /\ Count(i, "created")' = Count(i, "created")
             /\ Count(i, "expired")' \in {Count(i, "expired"), Count(i, "expired") + 1}
  <2>1. cdr \in Seq(CdrRecord) /\ Record(j, "expired") \in CdrRecord
    BY DEF Record, CdrRecord, TypeInv, TypeOK
  <2>2. \A a : Count(i, a)' = Count(i, a) + (IF i = j /\ a = "expired" THEN 1 ELSE 0)
    BY <1>2, <2>1, CountGrows
  <2>3. /\ Count(i, "created")' = Count(i, "created") + 0
        /\ Count(i, "expired")' = Count(i, "expired") + (IF i = j THEN 1 ELSE 0)
    BY <2>2
  <2> QED  BY <2>3, CountsNat
<1> QED  BY <1>1, <1>2

(* As long as no "created" is written, what is settled stays so, and a     *)
(* fault or an "expired" settles what was not.                             *)
LEMMA Settling ==
  ASSUME TypeInv, [Next]_vars, NEW i,
         UNCHANGED cdr \/ \E j \in Imsi : cdr_write(j, "expired")
  PROVE  /\ Settled(i) => Settled(i)'
         /\ /\ Count(i, "created") <= Count(i, "expired") + faults + 1
            /\ faults' = faults + 1 \/ (i \in Imsi /\ cdr_write(i, "expired"))
            => Settled(i)'
<1>1. cdr \in Seq(CdrRecord) /\ Count(i, "created") \in Nat /\ Count(i, "expired") \in Nat
  BY CountsNat DEF TypeInv, TypeOK
<1>2. faults \in Nat /\ faults' \in {faults, faults + 1}
  BY FaultsGrow
<1>3. CASE UNCHANGED cdr
  <2>1. /\ Count(i, "created")' = Count(i, "created")
        /\ Count(i, "expired")' = Count(i, "expired")
    BY <1>3, CountSame
  <2>2. ~cdr_write(i, "expired")
    <3>1. Len(cdr) \in Nat
      BY <1>1, LenProperties
    <3> QED  BY <1>1, <1>3, <3>1 DEF cdr_write, Record, CdrRecord
  <2> QED  BY <1>1, <1>2, <2>1, <2>2 DEF Settled
<1>4. CASE \E j \in Imsi : cdr_write(j, "expired")
  <2>1. PICK j \in Imsi : cdr_write(j, "expired")
    BY <1>4
  <2>2. Record(j, "expired") \in CdrRecord
    BY DEF Record, CdrRecord
  <2>3. \A a : Count(i, a)' = Count(i, a) + (IF i = j /\ a = "expired" THEN 1 ELSE 0)
    BY <1>1, <2>1, <2>2, CountGrows
  <2>4. Count(i, "created")' = Count(i, "created") + 0
    BY <2>3
  <2>5. Count(i, "expired")' = Count(i, "expired") + (IF i = j THEN 1 ELSE 0)
    BY <2>3
  <2>6. i \in Imsi /\ cdr_write(i, "expired") => i = j
    <3>1. SUFFICES ASSUME i \in Imsi, cdr_write(i, "expired") PROVE i = j
      OBVIOUS
    <3>2. Record(i, "expired") \in CdrRecord /\ Len(cdr) \in Nat
      BY <1>1, <3>1, LenProperties DEF Record, CdrRecord
    <3>3. cdr'[Len(cdr) + 1] = Record(i, "expired") /\ cdr'[Len(cdr) + 1] = Record(j, "expired")
      BY <1>1, <2>1, <2>2, <3>1, <3>2, AppendProperties DEF cdr_write
    <3> QED  BY <3>3 DEF Record
  <2> QED  BY <1>1, <1>2, <2>4, <2>5, <2>6 DEF Settled
<1> QED  BY <1>3, <1>4

(* A session is there, is being recorded, or is settled.                   *)
LEMMA Accounting ==
  ASSUME TypeInv, [Next]_vars, FaultsAccounted,
         UNCHANGED cdr \/ \E j \in Imsi : cdr_write(j, "expired"),
         \A i \in Imsi : i \in Stored \/ BeingRecorded(i)
                           => i \in Stored' \/ BeingRecorded(i)' \/ Settled(i)'
  PROVE  FaultsAccounted'
<1> SUFFICES ASSUME NEW i \in Imsi
             PROVE  Count(i, "created")' <= Count(i, "expired")' + faults'
                      + (IF i \in Stored' \/ BeingRecorded(i)' THEN 1 ELSE 0)
  BY DEF FaultsAccounted
<1> DEFINE new == Count(i, "created")
           over == Count(i, "expired")
<1>1. /\ new \in Nat /\ over \in Nat /\ new' = new /\ over' \in {over, over + 1}
      /\ faults \in Nat /\ faults' \in {faults, faults + 1}
  BY CountsNat, NoneCreated, FaultsGrow
<1>2. CASE Settled(i)'
  BY <1>1, <1>2 DEF Settled
<1>3. CASE ~Settled(i)'
  <2>1. ~Settled(i) /\ new <= over + faults + 1
    BY <1>3, Settling, AtMostOneOpen
  <2>2. i \in Stored' \/ BeingRecorded(i)'
    BY <1>3, <2>1, SettledIfGone
  <2>3. new' <= over' + faults' + 1
    BY <1>1, <2>1
  <2> QED  BY <2>2, <2>3
<1> QED  BY <1>2, <1>3

(* A step that touches neither the store nor the records, and neither the  *)
(* UDP thread nor a stopper inside expire_session_locked.                  *)
LEMMA QuietStep ==
  ASSUME TypeInv, [Next]_vars, AccountInv, UNCHANGED <<store, cdr>>,
         \A i \in Imsi : BeingRecorded(i)' <=> BeingRecorded(i),
         pc'[Udp] = pc[Udp], target'[Udp] = target[Udp], stamp'[Udp] = stamp[Udp],
         pc'[Cleaner] = "writing" =>
           pc[Cleaner] = "writing" /\ UNCHANGED todo /\ stamp'[Cleaner] = stamp[Cleaner]
  PROVE  AccountInv'
<1>1. \A i : Settled(i) => Settled(i)'
  BY Settling
<1>2. FaultsAccounted'
  BY Accounting DEF AccountInv, Stored
<1>3. /\ \A i, a : Count(i, a)' = Count(i, a) /\ Count(i, a) \in Nat
      /\ faults \in Nat /\ faults' \in {faults, faults + 1}
  BY CountSame, CountsNat, FaultsGrow
<1>4. CreateInv'
  BY <1>1 DEF AccountInv, CreateInv, Settled
<1>5. CreatedInv'
  BY <1>3 DEF AccountInv, CreatedInv, Settled
<1>6. CleanInv'
  BY <1>1 DEF AccountInv, CleanInv, ExpiredRows, Stored, Lapsed
<1> QED  BY <1>2, <1>4, <1>5, <1>6 DEF AccountInv

(* A stopper moves outside expire_session_locked.                          *)
LEMMA RecordingSame ==
  ASSUME TypeInv, NEW t \in Threads, NEW l, Goto(t, l), pc[t] # "deleted", l # "deleted",
         \A u \in Threads \ {t} : target'[u] = target[u], NEW i \in Imsi
  PROVE  BeingRecorded(i)' <=> BeingRecorded(i)
<1>1. pc'[t] = l /\ \A u \in Threads \ {t} : pc'[u] = pc[u]
  BY DEF TypeInv, TypeOK, PcOK, Goto
<1> QED  BY <1>1, Kinds DEF BeingRecorded

(* The expires_at that touch_session saves has not come, so the cleaner    *)
(* does not delete the session while it is being created.                  *)
LEMMA StampIsAhead ==
  ASSUME Timely, TypeInv, TimeInv, pc[Udp] # "idle"
  PROVE  stamp[Udp] > clock /\ stamp[Udp] > stamp[Cleaner] /\ stamp[Udp] # NoSession
<1>1. clock \in Nat /\ age \in Nat /\ stamp[Udp] \in Nat /\ stamp[Cleaner] \in Nat
  BY Kinds DEF TypeInv, TypeOK
<1> QED  BY <1>1, Kinds, ConfigAssumption DEF Timely, TimeInv, NoSession

LEMMA InitAccount == Init => AccountInv
<1> SUFFICES ASSUME Init PROVE AccountInv
  OBVIOUS
<1>1. pc[Udp] = "idle" /\ pc[Cleaner] = "top" /\ \A s \in Stoppers : pc[s] = "idle"
  BY Kinds DEF Init
<1>2. (\A i, a : Count(i, a) = 0) /\ faults = 0
  BY FS_EmptySet DEF Init, Count
<1> QED  BY <1>1, <1>2 DEF AccountInv, FaultsAccounted, CreateInv, CreatedInv, CleanInv

LEMMA TouchAccount ==
  ASSUME Timely, TypeInv, TimeInv, MutexInv, AccountInv, [Next]_vars,
         (\E i \in Imsi : TouchStamp(i)) \/ UdpStep
  PROVE  AccountInv'
<1> USE Kinds
<1> DEFINE u == target[Udp]
           new(i) == Count(i, "created")
           over(i) == Count(i, "expired")
<1>0. /\ stamp \in [Threads -> Nat] /\ StoreTypeOK /\ PcOK /\ cdr \in Seq(CdrRecord)
      /\ pc[Udp] # "idle" => u \in Imsi
      /\ \A i, a : Count(i, a) \in Nat
      /\ faults \in Nat /\ faults' \in {faults, faults + 1}
  BY CountNat, FaultsGrow DEF TypeInv, TypeOK, TargetOK
<1>1. ASSUME NEW l, l # "deleted", Goto(Udp, l), \A t \in Stoppers : target'[t] = target[t]
      PROVE  /\ \A i \in Imsi : BeingRecorded(i)' <=> BeingRecorded(i)
             /\ pc'[Udp] = l /\ pc'[Cleaner] = pc[Cleaner]
  BY <1>0, <1>1 DEF BeingRecorded, Goto, PcOK
<1>2. ASSUME UNCHANGED cdr
      PROVE  /\ \A i : Settled(i) => Settled(i)'
             /\ \A i, a : Count(i, a)' = Count(i, a)
  BY <1>2, Settling, CountSame
<1>3. ASSUME NEW i \in Imsi, TouchStamp(i) PROVE AccountInv'
  <2>1. /\ \A j \in Imsi : BeingRecorded(j)' <=> BeingRecorded(j)
        /\ pc'[Udp] = "locking" /\ pc'[Cleaner] = pc[Cleaner]
    BY <1>1, <1>3 DEF TouchStamp, TypeInv, TypeOK, TargetOK
  <2>2. stamp'[Cleaner] = stamp[Cleaner] /\ UNCHANGED <<store, cdr, todo>>
    BY <1>0, <1>3, LocaltimeAlone, ConfigAssumption
       DEF TouchStamp, storeVars, Timely, TypeInv, TypeOK
  <2>3. FaultsAccounted'
    BY <2>1, <2>2, Accounting DEF AccountInv, Stored
  <2>4. CleanInv'
    BY <1>2, <2>1, <2>2 DEF AccountInv, CleanInv, Stored, ExpiredRows, Lapsed
  <2> QED  BY <2>1, <2>3, <2>4 DEF AccountInv, CreateInv, CreatedInv
<1>4. ASSUME TouchLock PROVE AccountInv'
  <2>1. PICK exists \in BOOLEAN : /\ session_exists(u, exists)
                                  /\ Goto(Udp, IF exists THEN "refresh" ELSE "create")
    BY <1>4 DEF TouchLock
  <2>2. UNCHANGED <<store, cdr, todo, stamp, target>> /\ u \in Imsi /\ mtx = NoOwner
    BY <1>0, <1>4 DEF TouchLock, Lock
  <2>3. /\ \A j \in Imsi : BeingRecorded(j)' <=> BeingRecorded(j)
        /\ pc'[Udp] = (IF exists THEN "refresh" ELSE "create") /\ pc'[Cleaner] = pc[Cleaner]
    BY <1>1, <2>1, <2>2
  <2>4. ASSUME ~exists PROVE Settled(u)'
    <3>1. CASE u \in Stored
      <4>1. faults' = faults + 1
        BY <2>1, <2>4, <3>1 DEF session_exists, Fault
      <4> QED  BY <2>2, <4>1, Settling, AtMostOneOpen DEF AccountInv
    <3>2. CASE u \notin Stored
      <4>1. ~BeingRecorded(u)
        BY <2>2 DEF MutexInv, Locked, BeingRecorded
      <4> QED  BY <1>2, <2>2, <3>2, <4>1, SettledIfGone DEF AccountInv
    <3> QED  BY <3>1, <3>2
  <2>5. CreateInv' /\ CreatedInv'
    BY <2>2, <2>3, <2>4 DEF CreateInv, CreatedInv, Settled
  <2>6. FaultsAccounted'
    BY <2>2, <2>3, Accounting DEF AccountInv, Stored
  <2>7. CleanInv'
    BY <1>2, <2>2, <2>3 DEF AccountInv, CleanInv, Stored, ExpiredRows, Lapsed
  <2> QED  BY <2>5, <2>6, <2>7 DEF AccountInv
<1>5. ASSUME TouchRefresh \/ TouchCreate PROVE AccountInv'
  <2>1. pc[Udp] \in {"refresh", "create"} /\ u \in Imsi
    BY <1>0, <1>5 DEF TouchRefresh, TouchCreate
  <2>2. \/ UNCHANGED store /\ faults' = faults + 1
        \/ store'[u] = stamp[Udp] /\ \A i \in Imsi \ {u} : store'[i] = store[i]
    <3>1. \/ UNCHANGED store /\ faults' = faults + 1
          \/ store' = [store EXCEPT ![u] = stamp[Udp]]
      BY <1>5 DEF TouchRefresh, TouchCreate, save_session, Execute, Fault
    <3> QED  BY <1>0, <2>1, <3>1 DEF StoreTypeOK
  <2>3. UNCHANGED <<cdr, todo>> /\ stamp'[Cleaner] = stamp[Cleaner]
    BY <1>0, <1>5 DEF TouchRefresh, TouchCreate, Return
  <2>4. /\ \A j \in Imsi : BeingRecorded(j)' <=> BeingRecorded(j)
        /\ pc'[Cleaner] = pc[Cleaner]
        /\ \/ pc'[Udp] = "idle"
           \/ pc'[Udp] = "created" /\ pc[Udp] = "create" /\ UNCHANGED <<stamp, target>>
    <3>1. CASE TouchRefresh
      <4>1. Goto(Udp, "idle") /\ \A t \in Stoppers : target'[t] = target[t]
        BY <3>1 DEF TouchRefresh, Return, TypeInv, TypeOK, TargetOK
      <4> QED  BY <4>1, <1>1
    <3>2. CASE TouchCreate
      BY <3>2, <1>1 DEF TouchCreate
    <3> QED  BY <1>5, <3>1, <3>2
  <2>5. stamp[Udp] > stamp[Cleaner] /\ stamp[Udp] # NoSession
    BY <2>1, StampIsAhead
  <2>6. FaultsAccounted'
    <3>1. \A i \in Imsi : i \in Stored => i \in Stored'
      BY <2>2, <2>5 DEF Stored
    <3> QED  BY <2>3, <2>4, <3>1, Accounting DEF AccountInv
  <2>7. CleanInv'
    <3>1. \A i \in ExpiredRows(stamp[Cleaner])' : i \in ExpiredRows(stamp[Cleaner])
      <4>1. UNCHANGED store \/ u \notin ExpiredRows(stamp[Cleaner])'
        BY <1>0, <2>2, <2>3, <2>5 DEF ExpiredRows, Lapsed
      <4> QED  BY <2>2, <2>3, <4>1 DEF ExpiredRows, Stored, Lapsed
    <3> QED  BY <1>2, <2>3, <2>4, <3>1 DEF AccountInv, CleanInv
  <2>8. CreateInv' /\ CreatedInv'
    <3>1. CASE pc'[Udp] = "idle"
      BY <3>1 DEF CreateInv, CreatedInv
    <3>2. CASE pc'[Udp] = "created" /\ pc[Udp] = "create" /\ UNCHANGED <<stamp, target>>
      <4>1. Settled(u) /\ UNCHANGED u
        BY <3>2 DEF AccountInv, CreateInv
      <4>2. \/ store'[u] = stamp[Udp]
            \/ new(u) < over(u) + faults'
        BY <1>0, <2>2, <4>1 DEF Settled
      <4>3. PICK v : v = u
        OBVIOUS
      <4>4. Settled(v)' /\ (store'[v] = stamp[Udp] \/ new(v)' < over(v)' + faults')
        BY <1>2, <2>3, <4>1, <4>2, <4>3
      <4> QED  BY <3>2, <4>3, <4>4 DEF CreateInv, CreatedInv, Settled
    <3> QED  BY <2>4, <3>1, <3>2
  <2> QED  BY <2>6, <2>7, <2>8 DEF AccountInv
<1>6. ASSUME TouchWriteCdr PROVE AccountInv'
  <2>0. PICK v \in Imsi : v = u
    BY <1>0, <1>6 DEF TouchWriteCdr
  <2>1. /\ pc[Udp] = "created" /\ Settled(v)
        /\ store[v] = stamp[Udp] \/ new(v) < over(v) + faults
    BY <2>0, <1>0, <1>6 DEF TouchWriteCdr, AccountInv, CreatedInv
  <2>2. stamp[Udp] > stamp[Cleaner] /\ stamp[Udp] # NoSession
    BY <2>1, StampIsAhead
  <2>3. \/ v \in Stored /\ v \notin ExpiredRows(stamp[Cleaner])
        \/ new(v) < over(v) + faults
    BY <1>0, <2>1, <2>2 DEF Stored, ExpiredRows, Lapsed
  <2>4. UNCHANGED <<store, faults, todo>> /\ stamp'[Cleaner] = stamp[Cleaner]
    BY <1>0, <1>6 DEF TouchWriteCdr, storeVars, Return
  <2>5. /\ \A j \in Imsi : BeingRecorded(j)' <=> BeingRecorded(j)
        /\ pc'[Cleaner] = pc[Cleaner] /\ pc'[Udp] = "idle"
    <3>1. Goto(Udp, "idle") /\ \A t \in Stoppers : target'[t] = target[t]
      BY <1>6 DEF TouchWriteCdr, Return, TypeInv, TypeOK, TargetOK
    <3> QED  BY <3>1, <1>1
  <2>6. /\ \A i : new(i)' = new(i) + (IF i = v THEN 1 ELSE 0)
        /\ \A i : over(i)' = over(i)
    <3>1. cdr_write(v, "created") /\ Record(v, "created") \in CdrRecord
      BY <1>6, <2>0 DEF TouchWriteCdr, Record, CdrRecord
    <3>2. \A i, a : Count(i, a)' = Count(i, a) + (IF i = v /\ a = "created" THEN 1 ELSE 0)
      BY <1>0, <3>1, CountGrows
    <3>3. \A i : over(i)' = over(i) + 0
      BY <3>2
    <3> QED  BY <1>0, <3>2, <3>3
  <2>7. Stored' = Stored /\ ExpiredRows(stamp[Cleaner])' = ExpiredRows(stamp[Cleaner])
    BY <2>4 DEF Stored, ExpiredRows, Lapsed
  <2>8. \A i \in Imsi : i = v \/ (Settled(i) <=> Settled(i)')
    BY <1>0, <2>4, <2>6 DEF Settled
  <2>9. \/ v \in Stored /\ v \notin ExpiredRows(stamp[Cleaner])
        \/ new(v)' <= over(v)' + faults'
    BY <1>0, <2>3, <2>4, <2>6
  <2>10. FaultsAccounted'
    <3> SUFFICES ASSUME NEW i \in Imsi
                 PROVE  new(i)' <= over(i)' + faults'
                          + (IF i \in Stored' \/ BeingRecorded(i)' THEN 1 ELSE 0)
      BY DEF FaultsAccounted
    <3>1. CASE i = v
      BY <1>0, <2>1, <2>4, <2>6, <2>7, <2>9, <3>1 DEF Settled
    <3>2. CASE i # v
      <4>1. new(i)' = new(i) /\ over(i)' = over(i)
        BY <1>0, <2>6, <3>2
      <4>2. new(i) <= over(i) + faults + (IF i \in Stored \/ BeingRecorded(i) THEN 1 ELSE 0)
        BY DEF AccountInv, FaultsAccounted
      <4> QED  BY <2>4, <2>5, <2>7, <4>1, <4>2
    <3> QED  BY <3>1, <3>2
  <2>11. CleanInv'
    <3> SUFFICES ASSUME pc'[Cleaner] = "writing", NEW i \in ExpiredRows(stamp[Cleaner])
                 PROVE  i \in todo' \/ Settled(i)'
      BY <2>7 DEF CleanInv
    <3>1. i \in todo \/ Settled(i)
      BY <2>5 DEF AccountInv, CleanInv
    <3>2. CASE i = v
      BY <2>9, <3>2 DEF Settled
    <3>3. CASE i # v
      BY <2>4, <2>8, <3>1, <3>3 DEF ExpiredRows, Stored
    <3> QED  BY <3>2, <3>3
  <2>12. CreateInv' /\ CreatedInv'
    BY <2>5 DEF CreateInv, CreatedInv
  <2> QED  BY <2>10, <2>11, <2>12 DEF AccountInv
<1> QED  BY <1>3, <1>4, <1>5, <1>6 DEF UdpStep

LEMMA StopAccount ==
  ASSUME Timely, TypeInv, TimeInv, MutexInv, AccountInv, [Next]_vars,
         NEW s \in Stoppers, StopCall(s) \/ StopperStep(s)
  PROVE  AccountInv'
<1> USE Kinds
<1>0. /\ stamp \in [Threads -> Nat] /\ StoreTypeOK /\ PcOK /\ cdr \in Seq(CdrRecord)
      /\ target \in [Threads -> Imsi \cup {NoSession}] /\ clock \in Nat
      /\ pc \in [Threads -> UdpPC \cup CleanerPC \cup CheckerPC \cup StopperPC]
      /\ \A i, a : Count(i, a) \in Nat
  BY CountNat DEF TypeInv, TypeOK, TargetOK, PcOK
<1>1. ASSUME NEW l, Goto(s, l)
      PROVE  pc'[s] = l /\ \A t \in Threads \ {s} : pc'[t] = pc[t]
  BY <1>0, <1>1 DEF Goto
<1>2. ASSUME StopCall(s) \/ StopStamp(s) \/ StopLoad(s) \/ OffloadPick(s) PROVE AccountInv'
  <2>1. PICK l : Goto(s, l) /\ l # "deleted" /\ pc[s] # "deleted"
    BY <1>2 DEF StopCall, StopStamp, StopLoad, OffloadPick, Return, AfterRemoving
  <2>2. /\ UNCHANGED <<store, cdr, todo>>
        /\ \A t \in Threads \ {s} : stamp'[t] = stamp[t] /\ target'[t] = target[t]
    BY <1>0, <1>2, LocaltimeAlone
       DEF StopCall, StopStamp, StopLoad, OffloadPick, Return, storeVars, Timely
  <2>3. \A i \in Imsi : BeingRecorded(i)' <=> BeingRecorded(i)
    BY <2>1, <2>2, RecordingSame
  <2> QED  BY <1>1, <2>1, <2>2, <2>3, QuietStep
<1>3. ASSUME OffloadDelete(s) PROVE AccountInv'
  <2>1. pc'[s] = "deleted" /\ \A t \in Threads \ {s} : pc'[t] = pc[t]
    BY <1>1, <1>3 DEF OffloadDelete
  <2>2. UNCHANGED <<cdr, todo, stamp, target>> /\ pc[s] = "picked" /\ target[s] \in Imsi
    BY <1>3 DEF OffloadDelete, TypeInv, TypeOK, TargetOK
  <2>3. /\ \A i \in Imsi : store'[i] \in {store[i], NoSession}
        /\ \A i \in Imsi \ {target[s]} : store'[i] = store[i]
    BY <1>0, <1>3, <2>2, ExecuteEffect DEF OffloadDelete, delete_session, StoreTypeOK
  <2>4. pc'[Udp] \notin {"create", "created"}
    BY <1>3, <2>1 DEF OffloadDelete, Lock, MutexInv, Locked
  <2>5. FaultsAccounted'
    <3>1. \A i \in Imsi : i \in Stored \/ BeingRecorded(i)
                           => i \in Stored' \/ BeingRecorded(i)'
      BY <2>1, <2>2, <2>3 DEF Stored, BeingRecorded
    <3> QED  BY <2>2, <3>1, Accounting DEF AccountInv
  <2>6. CleanInv'
    <3>1. \A i \in ExpiredRows(stamp[Cleaner])' : i \in ExpiredRows(stamp[Cleaner])
      BY <2>2, <2>3 DEF ExpiredRows, Stored, Lapsed
    <3>2. \A i : Settled(i) => Settled(i)'
      BY <2>2, Settling
    <3> QED  BY <2>1, <2>2, <3>1, <3>2 DEF AccountInv, CleanInv
  <2> QED  BY <2>4, <2>5, <2>6 DEF AccountInv, CreateInv, CreatedInv
<1>4. ASSUME OffloadWriteCdr(s) PROVE AccountInv'
  <2>1. pc[s] = "deleted" /\ target[s] \in Imsi /\ cdr_write(target[s], "expired")
    BY <1>4 DEF OffloadWriteCdr, TypeInv, TypeOK, TargetOK
  <2>2. \A t \in Threads \ {s} : pc'[t] = pc[t]
    BY <1>1, <1>4 DEF OffloadWriteCdr
  <2>3. /\ UNCHANGED <<store, todo, target>>
        /\ \A t \in Threads \ {s} : stamp'[t] = stamp[t]
    BY <1>0, <1>4, LocaltimeAlone DEF OffloadWriteCdr, storeVars, Timely
  <2>4. pc'[Udp] \notin {"create", "created"}
    BY <2>1, <2>2 DEF MutexInv, Locked
  <2>5. Stored' = Stored /\ ExpiredRows(stamp[Cleaner])' = ExpiredRows(stamp[Cleaner])
    BY <2>3 DEF Stored, ExpiredRows, Lapsed
  <2>6. FaultsAccounted'
    <3>1. ASSUME NEW i \in Imsi, i # target[s], BeingRecorded(i) PROVE BeingRecorded(i)'
      BY <2>2, <2>3, <3>1 DEF BeingRecorded
    <3>2. PICK v \in Imsi : v = target[s]
      BY <2>1
    <3>3. Settled(v)'
      BY <2>1, <3>2, AtMostOneOpen, Settling DEF AccountInv
    <3> QED  BY <2>1, <2>5, <3>1, <3>2, <3>3, Accounting DEF AccountInv
  <2>7. CleanInv'
    <3>1. pc'[Cleaner] = pc[Cleaner] /\ stamp'[Cleaner] = stamp[Cleaner] /\ UNCHANGED todo
      BY <2>2, <2>3
    <3>2. \A i : Settled(i) => Settled(i)'
      BY <2>1, Settling
    <3> QED  BY <2>5, <3>1, <3>2 DEF AccountInv, CleanInv
  <2> QED  BY <2>4, <2>6, <2>7 DEF AccountInv, CreateInv, CreatedInv
<1> QED  BY <1>2, <1>3, <1>4 DEF StopperStep

LEMMA CleanerAccount ==
  ASSUME Timely, TypeInv, TimeInv, MutexInv, AccountInv, [Next]_vars, CleanerStep
  PROVE  AccountInv'
<1> USE Kinds
<1>0. /\ stamp \in [Threads -> Nat] /\ StoreTypeOK /\ PcOK /\ cdr \in Seq(CdrRecord)
      /\ target \in [Threads -> Imsi \cup {NoSession}] /\ clock \in Nat
      /\ pc \in [Threads -> UdpPC \cup CleanerPC \cup CheckerPC \cup StopperPC]
      /\ pc[Cleaner] # "deleted"
      /\ \A i, a : Count(i, a) \in Nat
      /\ faults \in Nat /\ faults' \in {faults, faults + 1}
  BY CountNat, FaultsGrow DEF TypeInv, TypeOK, TargetOK, PcOK, CleanerPC
<1>1. ASSUME NEW l, Goto(Cleaner, l), l # "deleted",
             \A t \in Threads \ {Cleaner} : target'[t] = target[t]
      PROVE  /\ pc'[Cleaner] = l /\ \A t \in Threads \ {Cleaner} : pc'[t] = pc[t]
             /\ \A i \in Imsi : BeingRecorded(i)' <=> BeingRecorded(i)
  BY <1>0, <1>1, RecordingSame DEF Goto
<1>2. ASSUME CleanerTop \/ CleanerSleep \/ CleanerWake PROVE AccountInv'
  <2>1. PICK l : Goto(Cleaner, l) /\ l \notin {"deleted", "writing"}
    BY <1>2 DEF CleanerTop, CleanerSleep, CleanerWake
  <2>2. /\ UNCHANGED <<store, cdr, target>>
        /\ stamp'[Udp] = stamp[Udp]
    BY <1>0, <1>2, LocaltimeAlone DEF CleanerTop, CleanerSleep, CleanerWake, storeVars, Timely
  <2>3. /\ pc'[Cleaner] = l /\ \A t \in Threads \ {Cleaner} : pc'[t] = pc[t]
        /\ \A i \in Imsi : BeingRecorded(i)' <=> BeingRecorded(i)
    BY <1>1, <2>1, <2>2
  <2> QED  BY <2>1, <2>2, <2>3, QuietStep
<1>3. ASSUME UNCHANGED cdr \/ \E j \in Imsi : cdr_write(j, "expired"),
             pc'[Udp] = pc[Udp], target'[Udp] = target[Udp], stamp'[Udp] = stamp[Udp],
             pc[Udp] = "created" => \/ store'[target[Udp]] = store[target[Udp]]
                                    \/ store[target[Udp]] # stamp[Udp]
      PROVE  CreateInv' /\ CreatedInv'
  <2>1. CreateInv'
    BY <1>3, Settling DEF AccountInv, CreateInv, Settled
  <2>2. SUFFICES ASSUME pc[Udp] = "created" PROVE CreatedInv'
    BY <1>3, <2>1 DEF CreatedInv
  <2>3. PICK v \in Imsi : v = target[Udp]
    BY <2>2 DEF TypeInv, TypeOK, TargetOK
  <2>4. Settled(v) /\ Settled(v)'
    BY <1>3, <2>2, <2>3, Settling DEF AccountInv, CreatedInv
  <2>5. Count(v, "created") < Count(v, "expired") + faults
          => Count(v, "created")' < Count(v, "expired")' + faults'
    <3>1. /\ Count(v, "created")' = Count(v, "created")
          /\ Count(v, "expired")' \in {Count(v, "expired"), Count(v, "expired") + 1}
      BY <1>3, NoneCreated
    <3> QED  BY <1>0, <3>1
  <2>6. store'[v] = stamp[Udp] \/ Count(v, "created")' < Count(v, "expired")' + faults'
    BY <1>3, <2>2, <2>3, <2>5 DEF AccountInv, CreatedInv
  <2> QED  BY <1>3, <2>3, <2>4, <2>6 DEF CreatedInv, Settled
<1>4. ASSUME CleanerLoad PROVE AccountInv'
  <2>1. \/ todo' = ExpiredRows(stamp[Cleaner])
        \/ faults' = faults + 1
    BY <1>4 DEF CleanerLoad, load_expired_sessions, Query, Fault
  <2>2. UNCHANGED <<store, cdr, target, stamp>>
    BY <1>4 DEF CleanerLoad
  <2>3. /\ pc'[Cleaner] = "writing" /\ \A t \in Threads \ {Cleaner} : pc'[t] = pc[t]
        /\ \A i \in Imsi : BeingRecorded(i)' <=> BeingRecorded(i)
    BY <1>1, <1>4, <2>2 DEF CleanerLoad
  <2>4. Stored' = Stored /\ ExpiredRows(stamp[Cleaner])' = ExpiredRows(stamp[Cleaner])
    BY <2>2 DEF Stored, ExpiredRows, Lapsed
  <2>5. FaultsAccounted'
    BY <2>2, <2>3, <2>4, Accounting DEF AccountInv
  <2>6. CleanInv'
    <3>1. \A i \in Imsi : Count(i, "created") <= Count(i, "expired") + faults + 1
      BY AtMostOneOpen DEF AccountInv
    <3>2. faults' = faults + 1 => \A i \in Imsi : Settled(i)'
      BY <2>2, <3>1, Settling
    <3> QED  BY <2>1, <2>4, <3>2 DEF CleanInv, ExpiredRows, Stored
  <2> QED  BY <1>3, <2>2, <2>3, <2>5, <2>6 DEF AccountInv
<1>5. ASSUME NEW j \in Imsi, CleanerWriteCdr(j) PROVE AccountInv'
  <2>1. /\ UNCHANGED <<store, pc, target, stamp>> /\ todo' = todo \ {j}
        /\ cdr_write(j, "expired")
    BY <1>5 DEF CleanerWriteCdr, storeVars
  <2>2. /\ Stored' = Stored /\ ExpiredRows(stamp[Cleaner])' = ExpiredRows(stamp[Cleaner])
        /\ \A i : BeingRecorded(i)' <=> BeingRecorded(i)
    BY <2>1 DEF Stored, ExpiredRows, Lapsed, BeingRecorded
  <2>3. FaultsAccounted'
    BY <2>1, <2>2, Accounting DEF AccountInv
  <2>4. CreateInv' /\ CreatedInv'
    BY <1>3, <2>1
  <2>5. CleanInv'
    <3>1. Settled(j)'
      BY <2>1, AtMostOneOpen, Settling DEF AccountInv
    <3>2. \A i : Settled(i) => Settled(i)'
      BY <2>1, Settling
    <3> QED  BY <2>1, <2>2, <3>1, <3>2 DEF AccountInv, CleanInv
  <2> QED  BY <2>3, <2>4, <2>5 DEF AccountInv
<1>6. ASSUME CleanerCleanup PROVE AccountInv'
  <2> DEFINE gone == ExpiredRows(stamp[Cleaner])
  <2>1. /\ pc[Cleaner] = "writing" /\ todo = {} /\ UNCHANGED cdr
        /\ stamp'[Udp] = stamp[Udp] /\ target'[Udp] = target[Udp]
    BY <1>0, <1>6 DEF CleanerCleanup, Return
  <2>2. /\ pc'[Cleaner] = "sleep" /\ pc'[Udp] = pc[Udp]
        /\ \A i \in Imsi : BeingRecorded(i)' <=> BeingRecorded(i)
    BY <1>0, <1>1, <1>6 DEF CleanerCleanup, Return
  <2>3. \A i \in Imsi \ gone : store'[i] = store[i]
    BY <1>0, <1>6, ExecuteEffect DEF CleanerCleanup, cleanup_expired_sessions, StoreTypeOK
  <2>4. \A i \in gone : Settled(i)'
    BY <2>1, Settling DEF AccountInv, CleanInv
  <2>5. FaultsAccounted'
    <3>1. \A i \in Imsi \ gone : i \in Stored => i \in Stored'
      BY <2>3 DEF Stored
    <3> QED  BY <2>1, <2>2, <2>4, <3>1, Accounting DEF AccountInv
  <2>6. CreateInv' /\ CreatedInv'
    <3>1. ASSUME pc[Udp] = "created", store[target[Udp]] = stamp[Udp]
          PROVE  store'[target[Udp]] = store[target[Udp]]
      <4>1. stamp[Udp] > stamp[Cleaner] /\ target[Udp] \in Imsi
        BY <3>1, StampIsAhead DEF TypeInv, TypeOK, TargetOK
      <4>2. target[Udp] \notin gone
        BY <1>0, <3>1, <4>1 DEF ExpiredRows, Lapsed
      <4> QED  BY <2>3, <4>1, <4>2
    <3> QED  BY <1>3, <2>1, <2>2, <3>1
  <2>7. CleanInv'
    BY <2>2 DEF CleanInv
  <2> QED  BY <2>5, <2>6, <2>7 DEF AccountInv
<1> QED  BY <1>2, <1>4, <1>5, <1>6 DEF CleanerStep

LEMMA NextAccount ==
  ASSUME Timely
  PROVE  TypeInv /\ TimeInv /\ MutexInv /\ AccountInv /\ [Next]_vars => AccountInv'
<1> SUFFICES ASSUME TypeInv, TimeInv, MutexInv, AccountInv, [Next]_vars
             PROVE  AccountInv'
  OBVIOUS
<1> USE Kinds
<1>1. ASSUME Tick \/ Destroy \/ Destroyed \/ UNCHANGED vars PROVE AccountInv'
  <2>1. UNCHANGED <<store, cdr, pc, target, stamp, todo>>
    BY <1>1 DEF Tick, Destroy, Destroyed, vars, storeVars, threadVars
  <2> QED  BY <2>1, QuietStep DEF BeingRecorded
<1>2. ASSUME NEW c \in Checkers, CheckLoad(c) \/ \E i \in Imsi : CheckStamp(c, i)
      PROVE  AccountInv'
  <2>1. PICK l : Goto(c, l) /\ l # "deleted" /\ pc[c] # "deleted"
    BY <1>2 DEF CheckLoad, CheckStamp, Return
  <2>2. /\ UNCHANGED <<store, cdr, todo>>
        /\ \A t \in Threads \ {c} : stamp'[t] = stamp[t] /\ target'[t] = target[t]
    BY <1>2, LocaltimeAlone
       DEF CheckLoad, CheckStamp, Return, storeVars, Timely, TypeInv, TypeOK, TargetOK
  <2>3. \A i \in Imsi : BeingRecorded(i)' <=> BeingRecorded(i)
    BY <2>1, <2>2, RecordingSame
  <2>4. pc'[Udp] = pc[Udp] /\ pc'[Cleaner] = pc[Cleaner]
    BY <2>1 DEF Goto, TypeInv, TypeOK, PcOK
  <2> QED  BY <2>2, <2>3, <2>4, QuietStep
<1> QED  BY <1>1, <1>2, TouchAccount, StopAccount, CleanerAccount DEF Next

LEMMA AccountInvariant ==
  ASSUME Timely
  PROVE  Spec => [](TypeInv /\ TimeInv /\ MutexInv /\ AccountInv)
<1>1. TypeInv /\ TimeInv /\ [Next]_vars => TimeInv'
  BY NextTime DEF Timely
<1> QED  BY <1>1, InitType, NextType, InitTime, InitMutex, NextMutex, InitAccount,
            NextAccount, PTL DEF Spec

(* Each statement that SQLite fails, unnoticed, costs each subscriber at   *)
(* most one "created" without "expired", whichever statement it is and     *)
(* whatever the threads are doing (session_manager.cpp:61-77, 126, 136,    *)
(* 143): a failed list costs it to every session that has lapsed.          *)
THEOREM FaultsAreAccounted == ASSUME Timely PROVE Spec => []FaultsAccounted
<1>1. AccountInv => FaultsAccounted
  BY DEF AccountInv
<1> QED  BY <1>1, AccountInvariant, PTL

(* The records account for the sessions: a subscriber has at most one      *)
(* "created" without an "expired", and none once the session is gone,      *)
(* although the cleaner deletes by time what it recorded from a list       *)
(* (session_manager.cpp:131-143).                                          *)
THEOREM SessionsAreAccounted ==
  ASSUME Timely, MaxFaults = 0  PROVE Spec => []SessionsAccounted
<1>1. TypeInv /\ FaultsAccounted => SessionsAccounted
  <2> SUFFICES ASSUME TypeInv, FaultsAccounted, NEW i \in Imsi
               PROVE  Count(i, "created") <= Count(i, "expired")
                        + (IF i \in Stored \/ BeingRecorded(i) THEN 1 ELSE 0)
    BY DEF SessionsAccounted
  <2>1. faults = 0 /\ Count(i, "expired") \in Nat
    BY CountsNat DEF TypeInv, TypeOK, StoreTypeOK
  <2>2. Count(i, "created") <= Count(i, "expired") + faults
          + (IF i \in Stored \/ BeingRecorded(i) THEN 1 ELSE 0)
    BY DEF FaultsAccounted
  <2> QED  BY <2>1, <2>2
<1> QED  BY <1>1, AccountInvariant, FaultsAreAccounted, PTL

----------------------------------------------------------------------------
(* ExpiredOnlyAfterCreated, with failing statements too: who holds a       *)
(* session in the hope of ending it holds one that has been recorded.      *)

Born(i) == i \in Restored \/ Count(i, "created") > 0

(* save_session is visible before its record, but only with an expires_at  *)
(* that has not come, and to no one who would need mtx_ to see it.         *)
StoredBorn ==
  \A i \in Stored :
    Born(i) \/ (pc[Udp] = "created" /\ target[Udp] = i /\ store[i] = stamp[Udp])

HeldBorn ==
  /\ pc[Udp] = "refresh" => Born(target[Udp])
  /\ pc[Cleaner] = "writing" => \A i \in todo : Born(i)
  /\ \A s \in Stoppers : pc[s] \in {"picked", "deleted"} => Born(target[s])

ExpiredBorn == \A i \in Imsi : Count(i, "expired") > 0 => Born(i)

BornInv == StoredBorn /\ HeldBorn /\ ExpiredBorn

LEMMA InitBorn == Init => BornInv
<1> SUFFICES ASSUME Init PROVE BornInv
  OBVIOUS
<1>1. pc[Udp] = "idle" /\ pc[Cleaner] = "top" /\ \A s \in Stoppers : pc[s] = "idle"
  BY Kinds DEF Init
<1>2. \A i, a : Count(i, a) = 0
  BY FS_EmptySet DEF Init, Count
<1>3. \A i \in Stored : i \in Restored
  BY DEF Init, Stored
<1> QED  BY <1>1, <1>2, <1>3 DEF BornInv, StoredBorn, HeldBorn, ExpiredBorn, Born

(* Records are only added.                                                 *)
LEMMA BornStays ==
  ASSUME TypeInv, [Next]_vars, NEW i, Born(i)
  PROVE  Born(i)'
<1>1. CASE UNCHANGED cdr
  BY <1>1, CountSame DEF Born
<1>2. ASSUME NEW j \in Imsi, NEW b \in {"created", "expired"}, cdr_write(j, b)
      PROVE  Born(i)'
  <2>1. Record(j, b) \in CdrRecord /\ cdr \in Seq(CdrRecord)
    BY DEF Record, CdrRecord, TypeInv, TypeOK
  <2>2. Count(i, "created") \in Nat
    BY <2>1, CountNat
  <2>3. Count(i, "created")' = Count(i, "created")
                               + (IF i = j /\ "created" = b THEN 1 ELSE 0)
    BY <1>2, <2>1, CountGrows
  <2> QED  BY <2>2, <2>3 DEF Born
<1>3. \/ UNCHANGED cdr
      \/ \E j \in Imsi, b \in {"created", "expired"} : cdr_write(j, b)
  <2>1. pc[Udp] = "created" => target[Udp] \in Imsi
    BY DEF TypeInv, TypeOK, TargetOK
  <2>2. \A s \in Stoppers : pc[s] = "deleted" => target[s] \in Imsi
    BY DEF TypeInv, TypeOK, TargetOK
  <2> QED
    BY <2>1, <2>2 DEF Next, Tick, TouchStamp, UdpStep, TouchLock, TouchRefresh, TouchCreate,
       TouchWriteCdr, CheckLoad, CheckStamp, StopCall, StopperStep, StopStamp, StopLoad,
       OffloadPick, OffloadDelete, OffloadWriteCdr, CleanerStep, CleanerTop, CleanerLoad,
       CleanerWriteCdr, CleanerCleanup, CleanerSleep, CleanerWake, Destroy, Destroyed, vars
<1> QED  BY <1>1, <1>2, <1>3

(* A record of a born subscriber, or a "created", breaks ExpiredBorn not.  *)
LEMMA ExpiredBornStays ==
  ASSUME TypeInv, [Next]_vars, ExpiredBorn,
         \/ UNCHANGED cdr
         \/ \E j \in Imsi : cdr_write(j, "created")
         \/ \E j \in Imsi : cdr_write(j, "expired") /\ Born(j)
  PROVE  ExpiredBorn'
<1> SUFFICES ASSUME NEW i \in Imsi, Count(i, "expired")' > 0 PROVE Born(i)'
  BY DEF ExpiredBorn
<1>0. cdr \in Seq(CdrRecord) /\ Count(i, "expired") \in Nat
  BY CountNat DEF TypeInv, TypeOK
<1>1. CASE Count(i, "expired") > 0
  BY <1>1, BornStays DEF ExpiredBorn
<1>2. CASE Count(i, "expired") = 0
  <2>1. ASSUME NEW j \in Imsi, NEW b \in {"created", "expired"}, cdr_write(j, b)
        PROVE  i = j /\ b = "expired"
    <3>1. Record(j, b) \in CdrRecord
      BY DEF Record, CdrRecord
    <3>2. Count(i, "expired")' = Count(i, "expired")
                                 + (IF i = j /\ "expired" = b THEN 1 ELSE 0)
      BY <1>0, <2>1, <3>1, CountGrows
    <3> QED  BY <1>2, <3>2
  <2>2. Count(i, "expired")' # Count(i, "expired")
    BY <1>2
  <2>3. ~UNCHANGED cdr
    BY <2>2, CountSame
  <2>4. Born(i)
    BY <2>1, <2>3
  <2> QED  BY <2>4, BornStays
<1> QED  BY <1>0, <1>1, <1>2

LEMMA HeldBornStays ==
  ASSUME HeldBorn, \A i : Born(i) => Born(i)',
         pc'[Udp] = "refresh" =>
           Born(target[Udp]) /\ target'[Udp] = target[Udp],
         pc'[Cleaner] = "writing" =>
           \/ pc[Cleaner] = "writing" /\ todo' \subseteq todo
           \/ \A i \in todo' : Born(i),
         \A s \in Stoppers : pc'[s] \in {"picked", "deleted"} =>
           \/ pc[s] \in {"picked", "deleted"} /\ target'[s] = target[s]
           \/ Born(target'[s])
  PROVE  HeldBorn'
<1>1. pc'[Udp] = "refresh" => Born(target[Udp])'
  BY DEF Born
<1>2. \A i : (Born(i))' <=> i \in Restored \/ Count(i, "created")' > 0
  BY DEF Born
<1> QED  BY <1>1, <1>2 DEF HeldBorn, Born

LEMMA TouchBorn ==
  ASSUME Timely, TypeInv, BornInv, [Next]_vars,
         (\E i \in Imsi : TouchStamp(i)) \/ UdpStep
  PROVE  BornInv'
<1> USE Kinds
<1> DEFINE u == target[Udp]
<1>0. /\ StoreTypeOK /\ PcOK /\ cdr \in Seq(CdrRecord)
      /\ target \in [Threads -> Imsi \cup {NoSession}]
      /\ pc[Udp] # "idle" => u \in Imsi
      /\ \A i : Born(i) => Born(i)'
  BY BornStays DEF TypeInv, TypeOK, TargetOK
<1>1. ASSUME NEW l, Goto(Udp, l)
      PROVE  pc'[Udp] = l /\ \A t \in Threads \ {Udp} : pc'[t] = pc[t]
  BY <1>0, <1>1 DEF Goto, PcOK
<1>2. /\ \A t \in Threads \ {Udp} : pc'[t] = pc[t] /\ target'[t] = target[t]
      /\ UNCHANGED todo
  BY <1>0, <1>1 DEF TouchStamp, UdpStep, TouchLock, TouchRefresh, TouchCreate,
                    TouchWriteCdr, Return
<1>3. ASSUME (\E i \in Imsi : TouchStamp(i)) \/ TouchLock \/ TouchRefresh PROVE BornInv'
  <2>1. UNCHANGED cdr /\ pc[Udp] # "created"
    BY <1>3 DEF TouchStamp, TouchLock, TouchRefresh
  <2>2. pc'[Udp] = "refresh" => Born(u) /\ target'[Udp] = u
    <3>1. SUFFICES ASSUME TouchLock, pc'[Udp] = "refresh"
                   PROVE  Born(u) /\ target'[Udp] = u
      BY <1>1, <1>3 DEF TouchStamp, TouchRefresh, Return
    <3>2. u \in Stored /\ UNCHANGED target
      BY <1>1, <3>1 DEF TouchLock, session_exists
    <3> QED  BY <2>1, <3>2 DEF BornInv, StoredBorn
  <2>3. HeldBorn'
    BY <1>0, <1>2, <2>2, HeldBornStays DEF BornInv, HeldBorn
  <2>4. \A i \in Stored' : Born(i)
    <3>1. ASSUME UNCHANGED store PROVE \A i \in Stored' : Born(i)
      BY <2>1, <3>1 DEF BornInv, StoredBorn, Stored
    <3>2. ASSUME TouchRefresh, ~UNCHANGED store PROVE \A i \in Stored' : Born(i)
      <4>1. store' = [store EXCEPT ![u] = stamp[Udp]] /\ Born(u)
        BY <3>2, ExecuteEffect DEF TouchRefresh, save_session, BornInv, HeldBorn
      <4>2. \A i \in Imsi \ {u} : store'[i] = store[i]
        BY <1>0, <4>1 DEF StoreTypeOK
      <4> QED  BY <2>1, <4>1, <4>2 DEF BornInv, StoredBorn, Stored
    <3> QED  BY <1>3, <3>1, <3>2 DEF TouchStamp, TouchLock, storeVars
  <2>5. StoredBorn'
    BY <1>0, <2>4 DEF StoredBorn
  <2> QED  BY <2>1, <2>3, <2>5, ExpiredBornStays DEF BornInv
<1>4. ASSUME TouchCreate PROVE BornInv'
  <2>1. /\ UNCHANGED <<cdr, target, stamp>> /\ pc[Udp] = "create" /\ pc'[Udp] = "created"
        /\ u \in Imsi
    BY <1>0, <1>1, <1>4 DEF TouchCreate
  <2>2. HeldBorn'
    BY <1>0, <1>2, <2>1, HeldBornStays DEF BornInv, HeldBorn
  <2>3. \A i \in Stored' : Born(i) \/ (u = i /\ store'[i] = stamp[Udp])
    <3>1. CASE UNCHANGED store
      BY <2>1, <3>1 DEF BornInv, StoredBorn, Stored
    <3>2. CASE store' = [store EXCEPT ![u] = stamp[Udp]]
      <4>1. store'[u] = stamp[Udp] /\ \A i \in Imsi \ {u} : store'[i] = store[i]
        BY <1>0, <2>1, <3>2 DEF StoreTypeOK
      <4> QED  BY <2>1, <4>1 DEF BornInv, StoredBorn, Stored
    <3> QED  BY <1>4, <3>1, <3>2, ExecuteEffect DEF TouchCreate, save_session
  <2>4. StoredBorn'
    BY <1>0, <2>1, <2>3 DEF StoredBorn
  <2> QED  BY <2>1, <2>2, <2>4, ExpiredBornStays DEF BornInv
<1>5. ASSUME TouchWriteCdr PROVE BornInv'
  <2>1. /\ UNCHANGED store /\ pc[Udp] = "created" /\ pc'[Udp] = "idle" /\ u \in Imsi
        /\ cdr_write(u, "created")
    BY <1>0, <1>1, <1>5 DEF TouchWriteCdr, Return, storeVars
  <2>2. HeldBorn'
    BY <1>0, <1>2, <2>1, HeldBornStays DEF BornInv, HeldBorn
  <2>3. PICK v \in Imsi : v = u
    BY <2>1
  <2>4. Born(v)'
    <3>1. cdr_write(v, "created") /\ Record(v, "created") \in CdrRecord
      BY <2>1, <2>3 DEF Record, CdrRecord
    <3>2. \A i, a : Count(i, a)' = Count(i, a) + (IF i = v /\ a = "created" THEN 1 ELSE 0)
      BY <1>0, <3>1, CountGrows
    <3>3. Count(v, "created")' = Count(v, "created") + 1
      BY <3>2
    <3> QED  BY <1>0, <3>3, CountNat DEF Born
  <2>5. \A i \in Stored' : Born(i) \/ i = v
    BY <2>1, <2>3 DEF BornInv, StoredBorn, Stored
  <2>6. StoredBorn'
    BY <1>0, <2>4, <2>5 DEF StoredBorn
  <2> QED  BY <2>1, <2>2, <2>6, ExpiredBornStays DEF BornInv
<1> QED  BY <1>3, <1>4, <1>5 DEF UdpStep

LEMMA OtherBorn ==
  ASSUME Timely, TypeInv, TimeInv, MutexInv, BornInv, [Next]_vars, OtherStep
  PROVE  BornInv'
<1> USE Kinds
<1>0. /\ StoreTypeOK /\ PcOK /\ cdr \in Seq(CdrRecord)
      /\ target \in [Threads -> Imsi \cup {NoSession}] /\ stamp \in [Threads -> Nat]
      /\ pc \in [Threads -> UdpPC \cup CleanerPC \cup CheckerPC \cup StopperPC]
      /\ \A i : Born(i) => Born(i)'
  BY BornStays DEF TypeInv, TypeOK, TargetOK, PcOK
<1>1. /\ pc'[Udp] = pc[Udp] /\ stamp'[Udp] = stamp[Udp] /\ target'[Udp] = target[Udp]
      /\ \A i \in Imsi : store'[i] \in {store[i], NoSession}
  BY OtherEffect DEF Timely
<1>2. StoredBorn'
  <2>1. \A i \in Stored' : i \in Stored /\ store'[i] = store[i]
    BY <1>1 DEF Stored
  <2> QED  BY <1>0, <1>1, <2>1 DEF BornInv, StoredBorn
<1>3. pc'[Udp] = "refresh" => Born(target[Udp]) /\ target'[Udp] = target[Udp]
  BY <1>1 DEF BornInv, HeldBorn
<1>a. ASSUME NEW t \in Threads, NEW l, Goto(t, l)
      PROVE  pc'[t] = l /\ \A v \in Threads \ {t} : pc'[v] = pc[v]
  BY <1>0, <1>a DEF Goto
<1>4. ASSUME UNCHANGED <<pc, target, todo, cdr>> PROVE BornInv'
  <2>1. HeldBorn'
    BY <1>0, <1>3, <1>4, HeldBornStays DEF BornInv, HeldBorn
  <2> QED  BY <1>2, <1>4, <2>1, ExpiredBornStays DEF BornInv
<1>5. ASSUME NEW c \in Checkers, CheckLoad(c) \/ \E i \in Imsi : CheckStamp(c, i)
      PROVE  BornInv'
  <2>1. \A t \in Threads \ {c} : pc'[t] = pc[t] /\ target'[t] = target[t]
    BY <1>0, <1>5, <1>a DEF CheckLoad, CheckStamp, Return
  <2>2. UNCHANGED <<todo, cdr>>
    BY <1>5 DEF CheckLoad, CheckStamp
  <2>3. HeldBorn'
    BY <1>0, <1>3, <2>1, <2>2, HeldBornStays DEF BornInv, HeldBorn
  <2> QED  BY <1>2, <2>2, <2>3, ExpiredBornStays DEF BornInv
<1>6. ASSUME NEW s \in Stoppers, StopCall(s) \/ StopperStep(s) PROVE BornInv'
  <2>1. /\ \A t \in Threads \ {s} : pc'[t] = pc[t] /\ target'[t] = target[t]
        /\ UNCHANGED todo
    BY <1>0, <1>6, <1>a DEF StopCall, StopperStep, StopStamp, StopLoad, OffloadPick,
                            OffloadDelete, OffloadWriteCdr, Return
  <2>2. pc'[s] \in {"picked", "deleted"} =>
          \/ pc[s] \in {"picked", "deleted"} /\ target'[s] = target[s]
          \/ Born(target'[s])
    <3>1. CASE OffloadPick(s)
      <4>1. ASSUME pc'[s] \in {"picked", "deleted"} PROVE target'[s] \in Stored
        <5>1. PICK rows \in SUBSET Imsi :
                /\ load_sessions(stamp[s], rows)
                /\ \/ rows = {} /\ Goto(s, "check") /\ UNCHANGED target
                   \/ \E i \in rows : /\ target' = [target EXCEPT ![s] = i]
                                      /\ Goto(s, "picked")
          BY <3>1 DEF OffloadPick
        <5>2. ~Goto(s, "check")
          BY <1>a, <4>1
        <5>3. PICK i \in rows : target' = [target EXCEPT ![s] = i]
          BY <5>1, <5>2
        <5>4. rows \subseteq ActiveRows(stamp[s])
          BY <5>1 DEF load_sessions, Query
        <5> QED  BY <1>0, <5>3, <5>4 DEF ActiveRows
      <4>2. pc[Udp] # "created"
        BY <3>1 DEF OffloadPick, MutexInv, Locked
      <4> QED  BY <4>1, <4>2 DEF BornInv, StoredBorn
    <3>2. CASE OffloadDelete(s)
      BY <3>2 DEF OffloadDelete
    <3>3. CASE StopCall(s) \/ StopStamp(s) \/ StopLoad(s) \/ OffloadWriteCdr(s)
      <4>1. PICK l : Goto(s, l) /\ l \notin {"picked", "deleted"}
        BY <3>3 DEF StopCall, StopStamp, StopLoad, OffloadWriteCdr, Return, AfterRemoving
      <4> QED  BY <1>a, <4>1
    <3> QED  BY <1>6, <3>1, <3>2, <3>3 DEF StopperStep
  <2>3. HeldBorn'
    BY <1>0, <1>3, <2>1, <2>2, HeldBornStays DEF BornInv, HeldBorn
  <2>4. UNCHANGED cdr \/ \E j \in Imsi : cdr_write(j, "expired") /\ Born(j)
    <3>1. CASE OffloadWriteCdr(s)
      <4>1. target[s] \in Imsi /\ Born(target[s])
        BY <3>1 DEF OffloadWriteCdr, BornInv, HeldBorn, TypeInv, TypeOK, TargetOK
      <4> QED  BY <3>1, <4>1 DEF OffloadWriteCdr
    <3>2. CASE ~OffloadWriteCdr(s)
      BY <1>6, <3>2 DEF StopCall, StopperStep, StopStamp, StopLoad, OffloadPick, OffloadDelete
    <3> QED  BY <3>1, <3>2
  <2> QED  BY <1>2, <2>3, <2>4, ExpiredBornStays DEF BornInv
<1>7. ASSUME CleanerStep PROVE BornInv'
  <2>1. \A t \in Threads \ {Cleaner} : pc'[t] = pc[t] /\ target'[t] = target[t]
    BY <1>0, <1>7, <1>a DEF CleanerStep, CleanerTop, CleanerLoad, CleanerWriteCdr,
                            CleanerCleanup, CleanerSleep, CleanerWake, Return
  <2>2. pc'[Cleaner] = "writing" =>
          \/ pc[Cleaner] = "writing" /\ todo' \subseteq todo
          \/ \A i \in todo' : Born(i)
    <3>1. CASE CleanerLoad
      <4>1. \A i \in todo' : i \in Stored /\ store[i] <= stamp[Cleaner]
        <5>1. todo' \subseteq ExpiredRows(stamp[Cleaner])
          BY <3>1 DEF CleanerLoad, load_expired_sessions, Query
        <5> QED  BY <1>0, <5>1, LapsedIsPast
      <4>2. pc[Udp] = "created" => stamp[Udp] > stamp[Cleaner]
        BY StampIsAhead
      <4>3. stamp[Udp] \in Nat /\ stamp[Cleaner] \in Nat
        BY <1>0
      <4> QED  BY <4>1, <4>2, <4>3 DEF BornInv, StoredBorn
    <3>2. CASE \E i \in Imsi : CleanerWriteCdr(i)
      BY <3>2 DEF CleanerWriteCdr
    <3>3. CASE CleanerTop \/ CleanerCleanup \/ CleanerSleep \/ CleanerWake
      <4>1. PICK l : Goto(Cleaner, l) /\ l # "writing"
        BY <3>3 DEF CleanerTop, CleanerCleanup, CleanerSleep, CleanerWake, Return
      <4> QED  BY <1>a, <4>1
    <3> QED  BY <1>7, <3>1, <3>2, <3>3 DEF CleanerStep
  <2>3. HeldBorn'
    BY <1>0, <1>3, <2>1, <2>2, HeldBornStays DEF BornInv, HeldBorn
  <2>4. UNCHANGED cdr \/ \E j \in Imsi : cdr_write(j, "expired") /\ Born(j)
    BY <1>7 DEF CleanerStep, CleanerTop, CleanerLoad, CleanerWriteCdr, CleanerCleanup,
                CleanerSleep, CleanerWake, BornInv, HeldBorn
  <2> QED  BY <1>2, <2>3, <2>4, ExpiredBornStays DEF BornInv
<1> QED  BY <1>4, <1>5, <1>6, <1>7 DEF OtherStep, Destroy, Destroyed, vars, threadVars

LEMMA NextBorn ==
  ASSUME Timely
  PROVE  TypeInv /\ TimeInv /\ MutexInv /\ BornInv /\ [Next]_vars => BornInv'
<1> SUFFICES ASSUME TypeInv, TimeInv, MutexInv, BornInv, [Next]_vars PROVE BornInv'
  OBVIOUS
<1>1. CASE Tick
  <2>1. UNCHANGED <<store, cdr, pc, target, stamp, todo>>
    BY <1>1 DEF Tick, storeVars
  <2>2. \A i, a : Count(i, a)' = Count(i, a)
    BY <2>1, CountSame
  <2> QED  BY <2>1, <2>2 DEF BornInv, StoredBorn, HeldBorn, ExpiredBorn, Born, Stored
<1> QED  BY <1>1, TouchBorn, OtherBorn DEF Next, OtherStep

LEMMA BornInvariant ==
  ASSUME Timely  PROVE Spec => [](TypeInv /\ BornInv)
<1>1. TypeInv /\ TimeInv /\ [Next]_vars => TimeInv'
  BY NextTime DEF Timely
<1> QED  BY <1>1, InitType, NextType, InitTime, InitMutex, NextMutex, InitBorn, NextBorn,
            PTL DEF Spec

(* No session is recorded as expired before it was recorded as created,    *)
(* although it is in the store before its first record is written, and     *)
(* even when SQLite statements fail (session_manager.cpp:77-78).           *)
THEOREM ExpiredComesAfterCreated == ASSUME Timely PROVE Spec => []ExpiredOnlyAfterCreated
<1>1. TypeInv /\ BornInv => ExpiredOnlyAfterCreated
  <2> SUFFICES ASSUME TypeInv, ExpiredBorn, NEW i \in Imsi \ Restored,
                      Count(i, "created") = 0
               PROVE  Count(i, "expired") = 0
    BY DEF BornInv, ExpiredOnlyAfterCreated
  <2>1. Count(i, "expired") \in Nat
    BY CountNat DEF TypeInv, TypeOK
  <2> QED  BY <2>1 DEF ExpiredBorn, Born
<1> QED  BY <1>1, BornInvariant, PTL

====
