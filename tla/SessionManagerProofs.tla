---- MODULE SessionManagerProofs ----
(***************************************************************************)
(* SessionManager is type-correct for every set of subscribers and of HTTP *)
(* worker threads, every timeout, rate and bound, either store, with and   *)
(* without failing statements and a shared std::tm.                        *)
(***************************************************************************)
EXTENDS SessionManager, SequenceTheorems, TLAPS

(* offload_rate works on a session only while it may remove one more.      *)
RemovedOK ==
  \A s \in Stoppers :
    pc[s] \in {"offload", "picking", "picked", "deleted"} => removed[s] < Rate

TypeInv == TypeOK /\ RemovedOK

----------------------------------------------------------------------------
(* What the helpers do.                                                    *)

LEMMA Kinds ==
  /\ Udp \in Threads /\ Cleaner \in Threads
  /\ Udp # Cleaner
  /\ \A c \in Checkers : c \in Threads /\ c # Udp /\ c # Cleaner /\ c \notin Stoppers
  /\ \A s \in Stoppers : s \in Threads /\ s # Udp /\ s # Cleaner /\ s \notin Checkers
  /\ NoOwner \notin Threads
BY ThreadsAssumption DEF Threads

LEMMA GotoUdp ==
  ASSUME PcOK, NEW l \in UdpPC, Goto(Udp, l)
  PROVE  PcOK' /\ pc'[Udp] = l /\ \A t \in Threads \ {Udp} : pc'[t] = pc[t]
BY Kinds DEF PcOK, Goto

LEMMA GotoCleaner ==
  ASSUME PcOK, NEW l \in CleanerPC, Goto(Cleaner, l)
  PROVE  PcOK' /\ pc'[Cleaner] = l /\ \A t \in Threads \ {Cleaner} : pc'[t] = pc[t]
BY Kinds DEF PcOK, Goto

LEMMA GotoChecker ==
  ASSUME PcOK, NEW c \in Checkers, NEW l \in CheckerPC, Goto(c, l)
  PROVE  PcOK' /\ pc'[c] = l /\ \A t \in Threads \ {c} : pc'[t] = pc[t]
BY Kinds DEF PcOK, Goto

LEMMA GotoStopper ==
  ASSUME PcOK, NEW s \in Stoppers, NEW l \in StopperPC, Goto(s, l)
  PROVE  PcOK' /\ pc'[s] = l /\ \A t \in Threads \ {s} : pc'[t] = pc[t]
BY Kinds DEF PcOK, Goto

LEMMA LocaltimeType ==
  ASSUME stamp \in [Threads -> Nat], NEW t \in Threads, NEW time \in Nat, Localtime(t, time)
  PROVE  stamp' \in [Threads -> Nat] /\ stamp'[t] = time
BY DEF Localtime

LEMMA CdrType ==
  ASSUME cdr \in Seq(CdrRecord), NEW i \in Imsi, NEW a \in {"created", "expired"},
         cdr_write(i, a)
  PROVE  cdr' \in Seq(CdrRecord)
<1>1. Record(i, a) \in CdrRecord
  BY DEF Record, CdrRecord
<1> QED  BY <1>1 DEF cdr_write

LEMMA QueryType ==
  ASSUME StoreTypeOK, UNCHANGED store, NEW rows, NEW wanted, Query(rows, wanted)
  PROVE  StoreTypeOK' /\ rows \subseteq wanted
BY StoreAssumption DEF StoreTypeOK, Query, Fault

LEMMA ExecuteType ==
  ASSUME StoreTypeOK, NEW table \in [Imsi -> Nat \cup {NoSession}], Execute(table)
  PROVE  StoreTypeOK'
BY StoreAssumption DEF StoreTypeOK, Execute, Fault

(* Only thread t moves: what the others need of their targets still holds. *)
LEMMA TargetType ==
  ASSUME TargetOK, NEW t \in Threads,
         \A u \in Threads \ {t} : pc'[u] = pc[u] /\ target'[u] = target[u],
         target' \in [Threads -> Imsi \cup {NoSession}],
         t = Udp => (pc'[t] # "idle" => target'[t] \in Imsi),
         t \in Checkers => (pc'[t] = "checking" => target'[t] \in Imsi),
         t \in Stoppers => (pc'[t] \in {"picked", "deleted"} => target'[t] \in Imsi)
  PROVE  TargetOK'
BY Kinds DEF TargetOK

LEMMA RemovedType ==
  ASSUME RemovedOK, UNCHANGED removed, \A s \in Stoppers : pc'[s] = pc[s]
  PROVE  RemovedOK'
BY DEF RemovedOK

LEMMA InitType == Init => TypeInv
<1> SUFFICES ASSUME Init PROVE TypeInv
  OBVIOUS
<1>1. StoreTypeOK
  BY StoreAssumption, ConfigAssumption DEF Init, StoreTypeOK
<1>2. PcOK
  BY Kinds DEF Init, PcOK, UdpPC, CleanerPC, CheckerPC, StopperPC
<1>3. TargetOK
  BY Kinds DEF Init, TargetOK
<1>4. cdr \in Seq(CdrRecord)
  BY EmptySeq DEF Init
<1>5. TypeOK
  <2>1. removed \in [Stoppers -> 0..Rate] /\ answer \in [Checkers -> BOOLEAN]
    BY ConfigAssumption DEF Init
  <2>2. clock \in Nat /\ age \in Nat /\ touches \in Nat /\ stop \in BOOLEAN
    BY DEF Init
  <2>3. stamp \in [Threads -> Nat] /\ mtx \in Threads \cup {NoOwner} /\ todo \subseteq Imsi
    BY DEF Init
  <2> QED  BY <1>1, <1>2, <1>3, <1>4, <2>1, <2>2, <2>3 DEF TypeOK
<1>6. RemovedOK
  BY Kinds DEF Init, RemovedOK
<1> QED  BY <1>5, <1>6 DEF TypeInv

LEMMA TickType == TypeInv /\ Tick => TypeInv'
<1> SUFFICES ASSUME TypeOK, RemovedOK, Tick PROVE TypeOK' /\ RemovedOK'
  BY DEF TypeInv
<1>1. StoreTypeOK' /\ PcOK' /\ TargetOK' /\ RemovedOK'
  BY DEF Tick, storeVars, TypeOK, StoreTypeOK, PcOK, TargetOK, RemovedOK
<1>2. clock' \in Nat /\ age' \in Nat
  BY DEF Tick, TypeOK
<1> QED  BY <1>1, <1>2 DEF Tick, TypeOK

----------------------------------------------------------------------------
(* touch_session.                                                          *)

LEMMA TouchType == ASSUME TypeInv, (\E i \in Imsi : TouchStamp(i)) \/ UdpStep
                   PROVE  TypeInv'
<1> SUFFICES ASSUME TypeOK, RemovedOK, (\E i \in Imsi : TouchStamp(i)) \/ UdpStep
             PROVE  TypeOK' /\ RemovedOK'
  BY DEF TypeInv
<1> USE Kinds
<1>1. ASSUME NEW l \in UdpPC, Goto(Udp, l), UNCHANGED removed,
             target' \in [Threads -> Imsi \cup {NoSession}],
             \A u \in Threads \ {Udp} : target'[u] = target[u],
             l # "idle" => target'[Udp] \in Imsi
      PROVE  PcOK' /\ TargetOK' /\ RemovedOK'
  <2>1. PcOK' /\ pc'[Udp] = l /\ \A t \in Threads \ {Udp} : pc'[t] = pc[t]
    BY <1>1, GotoUdp DEF TypeOK
  <2>2. TargetOK'
    BY <1>1, <2>1, TargetType DEF TypeOK
  <2>3. RemovedOK'
    BY <1>1, <2>1, RemovedType
  <2> QED  BY <2>1, <2>2, <2>3
<1>2. ASSUME NEW i \in Imsi, TouchStamp(i) PROVE TypeOK' /\ RemovedOK'
  <2>1. stamp' \in [Threads -> Nat]
    BY <1>2, LocaltimeType, ConfigAssumption DEF TouchStamp, TypeOK
  <2>2. PcOK' /\ TargetOK' /\ RemovedOK'
    BY <1>2, <1>1 DEF TouchStamp, TypeOK, TargetOK, UdpPC
  <2>3. touches' \in Nat /\ StoreTypeOK'
    BY <1>2 DEF TouchStamp, TypeOK, storeVars, StoreTypeOK
  <2> QED  BY <1>2, <2>1, <2>2, <2>3 DEF TouchStamp, TypeOK
<1>3. ASSUME TouchLock PROVE TypeOK' /\ RemovedOK'
  <2>1. StoreTypeOK'
    BY <1>3, StoreAssumption DEF TouchLock, session_exists, Fault, TypeOK, StoreTypeOK
  <2>2. PICK l \in UdpPC : Goto(Udp, l)
    BY <1>3 DEF TouchLock, UdpPC
  <2>3. PcOK' /\ TargetOK' /\ RemovedOK'
    BY <1>3, <1>1, <2>2 DEF TouchLock, TypeOK, TargetOK
  <2> QED  BY <1>3, <2>1, <2>3 DEF TouchLock, Lock, TypeOK
<1>4. ASSUME TouchRefresh \/ TouchCreate PROVE TypeOK' /\ RemovedOK'
  <2>1. StoreTypeOK'
    <3>1. target[Udp] \in Imsi /\ stamp[Udp] \in Nat /\ StoreTypeOK
      BY <1>4 DEF TouchRefresh, TouchCreate, TypeOK, TargetOK
    <3>2. [store EXCEPT ![target[Udp]] = stamp[Udp]] \in [Imsi -> Nat \cup {NoSession}]
      BY <3>1 DEF StoreTypeOK
    <3> QED  BY <1>4, <3>1, <3>2, ExecuteType DEF TouchRefresh, TouchCreate, save_session
  <2>2. CASE TouchRefresh
    <3>1. PcOK' /\ TargetOK' /\ RemovedOK'
      BY <2>2, <1>1 DEF TouchRefresh, Return, TypeOK, TargetOK, UdpPC
    <3>2. stamp' \in [Threads -> Nat] /\ age' \in Nat /\ mtx' \in Threads \cup {NoOwner}
      BY <2>2 DEF TouchRefresh, Return, Unlock, TypeOK
    <3> QED  BY <2>1, <2>2, <3>1, <3>2 DEF TouchRefresh, TypeOK
  <2>3. CASE TouchCreate
    <3>1. PcOK' /\ TargetOK' /\ RemovedOK'
      BY <2>3, <1>1 DEF TouchCreate, TypeOK, TargetOK, UdpPC
    <3> QED  BY <2>1, <2>3, <3>1 DEF TouchCreate, TypeOK
  <2> QED  BY <1>4, <2>2, <2>3
<1>5. ASSUME TouchWriteCdr PROVE TypeOK' /\ RemovedOK'
  <2>1. PcOK' /\ TargetOK' /\ RemovedOK'
    BY <1>5, <1>1 DEF TouchWriteCdr, Return, TypeOK, TargetOK, UdpPC
  <2>2. stamp' \in [Threads -> Nat] /\ age' \in Nat /\ mtx' \in Threads \cup {NoOwner}
    BY <1>5 DEF TouchWriteCdr, Return, Unlock, TypeOK
  <2>3. cdr' \in Seq(CdrRecord) /\ StoreTypeOK'
    <3>1. target[Udp] \in Imsi
      BY <1>5 DEF TouchWriteCdr, TypeOK, TargetOK
    <3> QED  BY <1>5, <3>1, CdrType DEF TouchWriteCdr, TypeOK, storeVars, StoreTypeOK
  <2> QED  BY <1>5, <2>1, <2>2, <2>3 DEF TouchWriteCdr, TypeOK
<1> QED  BY <1>2, <1>3, <1>4, <1>5 DEF UdpStep

----------------------------------------------------------------------------
(* is_active.                                                              *)

LEMMA CheckType ==
  ASSUME TypeInv, NEW c \in Checkers, CheckLoad(c) \/ \E i \in Imsi : CheckStamp(c, i)
  PROVE  TypeInv'
<1> SUFFICES ASSUME TypeOK, RemovedOK PROVE TypeOK' /\ RemovedOK'
  BY DEF TypeInv
<1> USE Kinds
<1>1. ASSUME NEW l \in CheckerPC, Goto(c, l), UNCHANGED removed,
             target' \in [Threads -> Imsi \cup {NoSession}],
             \A u \in Threads \ {c} : target'[u] = target[u],
             l = "checking" => target'[c] \in Imsi
      PROVE  PcOK' /\ TargetOK' /\ RemovedOK'
  <2>1. PcOK' /\ pc'[c] = l /\ \A t \in Threads \ {c} : pc'[t] = pc[t]
    BY <1>1, GotoChecker DEF TypeOK
  <2>2. TargetOK'
    BY <1>1, <2>1, TargetType DEF TypeOK
  <2>3. RemovedOK'
    BY <1>1, <2>1, RemovedType
  <2> QED  BY <2>1, <2>2, <2>3
<1>2. ASSUME NEW i \in Imsi, CheckStamp(c, i) PROVE TypeOK' /\ RemovedOK'
  <2>1. stamp' \in [Threads -> Nat]
    BY <1>2, LocaltimeType DEF CheckStamp, TypeOK
  <2>2. PcOK' /\ TargetOK' /\ RemovedOK'
    BY <1>2, <1>1 DEF CheckStamp, TypeOK, TargetOK, CheckerPC
  <2>3. mtx' \in Threads \cup {NoOwner} /\ StoreTypeOK'
    BY <1>2 DEF CheckStamp, Lock, TypeOK, storeVars, StoreTypeOK
  <2> QED  BY <1>2, <2>1, <2>2, <2>3 DEF CheckStamp, TypeOK
<1>3. ASSUME CheckLoad(c) PROVE TypeOK' /\ RemovedOK'
  <2>1. StoreTypeOK'
    BY <1>3, QueryType DEF CheckLoad, load_sessions, TypeOK
  <2>2. answer' \in [Checkers -> BOOLEAN]
    BY <1>3 DEF CheckLoad, TypeOK
  <2>3. PcOK' /\ TargetOK' /\ RemovedOK'
    BY <1>3, <1>1 DEF CheckLoad, Return, TypeOK, TargetOK, CheckerPC
  <2>4. stamp' \in [Threads -> Nat] /\ mtx' \in Threads \cup {NoOwner}
    BY <1>3 DEF CheckLoad, Return, Unlock, TypeOK
  <2> QED  BY <1>3, <2>1, <2>2, <2>3, <2>4 DEF CheckLoad, TypeOK
<1> QED  BY <1>2, <1>3

----------------------------------------------------------------------------
(* graceful_stop and offload_rate.                                         *)

LEMMA StopType ==
  ASSUME TypeInv, NEW s \in Stoppers, StopCall(s) \/ StopperStep(s)
  PROVE  TypeInv'
<1> SUFFICES ASSUME TypeOK, RemovedOK PROVE TypeOK' /\ RemovedOK'
  BY DEF TypeInv
<1> USE Kinds
<1>1. ASSUME NEW l \in StopperPC, Goto(s, l),
             removed' \in [Stoppers -> 0..Rate],
             \A u \in Stoppers \ {s} : removed'[u] = removed[u],
             l \in {"offload", "picking", "picked", "deleted"} => removed'[s] < Rate,
             target' \in [Threads -> Imsi \cup {NoSession}],
             \A u \in Threads \ {s} : target'[u] = target[u],
             l \in {"picked", "deleted"} => target'[s] \in Imsi
      PROVE  PcOK' /\ TargetOK' /\ RemovedOK'
  <2>1. PcOK' /\ pc'[s] = l /\ \A t \in Threads \ {s} : pc'[t] = pc[t]
    BY <1>1, GotoStopper DEF TypeOK
  <2>2. TargetOK'
    BY <1>1, <2>1, TargetType DEF TypeOK
  <2>3. RemovedOK'
    BY <1>1, <2>1 DEF RemovedOK
  <2> QED  BY <2>1, <2>2, <2>3
<1>2. ASSUME StopCall(s) PROVE TypeOK' /\ RemovedOK'
  <2>1. PcOK' /\ TargetOK' /\ RemovedOK'
    BY <1>2, <1>1 DEF StopCall, TypeOK, TargetOK, StopperPC
  <2> QED  BY <1>2, <2>1 DEF StopCall, TypeOK, storeVars, StoreTypeOK
<1>3. ASSUME StopStamp(s) PROVE TypeOK' /\ RemovedOK'
  <2>1. stamp' \in [Threads -> Nat]
    BY <1>3, LocaltimeType DEF StopStamp, TypeOK
  <2>2. PICK l \in {"checking", "picking"} :
          Goto(s, l) /\ (l = "picking" => pc[s] = "offload")
    BY <1>3 DEF StopStamp
  <2>3. PcOK' /\ TargetOK' /\ RemovedOK'
    BY <1>3, <1>1, <2>2 DEF StopStamp, TypeOK, TargetOK, RemovedOK, StopperPC
  <2>4. mtx' \in Threads \cup {NoOwner} /\ StoreTypeOK'
    BY <1>3 DEF StopStamp, Lock, TypeOK, storeVars, StoreTypeOK
  <2> QED  BY <1>3, <2>1, <2>3, <2>4 DEF StopStamp, TypeOK
<1>4. ASSUME StopLoad(s) PROVE TypeOK' /\ RemovedOK'
  <2>1. StoreTypeOK'
    BY <1>4, QueryType DEF StopLoad, load_sessions, TypeOK
  <2>2. PICK l \in {"stopped", AfterRemoving(0)} : Return(s, l)
    BY <1>4 DEF StopLoad
  <2>3. l \in StopperPC /\ (l \in {"offload", "picking", "picked", "deleted"} => 0 < Rate)
    BY DEF AfterRemoving, StopperPC
  <2>4. /\ removed' \in [Stoppers -> 0..Rate] /\ removed'[s] = 0
        /\ \A u \in Stoppers \ {s} : removed'[u] = removed[u]
    BY <1>4, ConfigAssumption DEF StopLoad, TypeOK
  <2>5. l \notin {"picked", "deleted"}
    BY DEF AfterRemoving
  <2>6. PcOK' /\ TargetOK' /\ RemovedOK'
    BY <1>1, <2>2, <2>3, <2>4, <2>5 DEF Return, TypeOK, TargetOK
  <2>7. stamp' \in [Threads -> Nat] /\ mtx' \in Threads \cup {NoOwner}
    BY <1>4, <2>2 DEF StopLoad, Return, Unlock, TypeOK
  <2> QED  BY <1>4, <2>1, <2>4, <2>6, <2>7 DEF StopLoad, TypeOK
<1>5. ASSUME OffloadPick(s) PROVE TypeOK' /\ RemovedOK'
  <2>1. PICK rows \in SUBSET Imsi :
          /\ load_sessions(stamp[s], rows)
          /\ \/ rows = {} /\ Goto(s, "check") /\ UNCHANGED target
             \/ \E i \in rows : target' = [target EXCEPT ![s] = i] /\ Goto(s, "picked")
    BY <1>5 DEF OffloadPick
  <2>2. StoreTypeOK'
    BY <1>5, <2>1, QueryType DEF OffloadPick, load_sessions, TypeOK
  <2>3. PcOK' /\ TargetOK' /\ RemovedOK'
    <3>1. CASE Goto(s, "check") /\ UNCHANGED target
      BY <1>5, <1>1, <3>1 DEF OffloadPick, TypeOK, TargetOK, StopperPC
    <3>2. ASSUME NEW i \in Imsi, target' = [target EXCEPT ![s] = i], Goto(s, "picked")
          PROVE  PcOK' /\ TargetOK' /\ RemovedOK'
      BY <1>5, <1>1, <3>2 DEF OffloadPick, TypeOK, TargetOK, RemovedOK, StopperPC
    <3> QED  BY <2>1, <3>1, <3>2
  <2>4. mtx' \in Threads \cup {NoOwner}
    BY <1>5 DEF OffloadPick, Unlock
  <2> QED  BY <1>5, <2>2, <2>3, <2>4 DEF OffloadPick, TypeOK
<1>6. ASSUME OffloadDelete(s) PROVE TypeOK' /\ RemovedOK'
  <2>1. StoreTypeOK'
    <3>1. [store EXCEPT ![target[s]] = NoSession] \in [Imsi -> Nat \cup {NoSession}]
      BY DEF TypeOK, StoreTypeOK
    <3> QED  BY <1>6, <3>1, ExecuteType DEF OffloadDelete, delete_session, TypeOK
  <2>2. PcOK' /\ TargetOK' /\ RemovedOK'
    BY <1>6, <1>1 DEF OffloadDelete, TypeOK, TargetOK, RemovedOK, StopperPC
  <2> QED  BY <1>6, <2>1, <2>2 DEF OffloadDelete, Lock, TypeOK
<1>7. ASSUME OffloadWriteCdr(s) PROVE TypeOK' /\ RemovedOK'
  <2>1. stamp' \in [Threads -> Nat]
    BY <1>7, LocaltimeType DEF OffloadWriteCdr, TypeOK
  <2>2. cdr' \in Seq(CdrRecord) /\ StoreTypeOK'
    <3>1. target[s] \in Imsi
      BY <1>7 DEF OffloadWriteCdr, TypeOK, TargetOK
    <3> QED  BY <1>7, <3>1, CdrType DEF OffloadWriteCdr, TypeOK, storeVars, StoreTypeOK
  <2>3. /\ removed' \in [Stoppers -> 0..Rate] /\ removed'[s] = removed[s] + 1
        /\ \A u \in Stoppers \ {s} : removed'[u] = removed[u]
    BY <1>7, ConfigAssumption DEF OffloadWriteCdr, TypeOK, RemovedOK
  <2>4. Goto(s, AfterRemoving(removed[s] + 1)) /\ UNCHANGED target
    BY <1>7 DEF OffloadWriteCdr
  <2> DEFINE l == AfterRemoving(removed[s] + 1)
  <2>5. /\ l \in {"offload", "check"}
        /\ l = "offload" => removed'[s] < Rate
    BY <2>3 DEF AfterRemoving
  <2> HIDE DEF l
  <2>6. PcOK' /\ TargetOK' /\ RemovedOK'
    BY <1>1, <2>3, <2>4, <2>5 DEF TypeOK, TargetOK, StopperPC, l
  <2>7. mtx' \in Threads \cup {NoOwner}
    BY <1>7 DEF OffloadWriteCdr, Unlock
  <2> QED  BY <1>7, <2>1, <2>2, <2>3, <2>6, <2>7 DEF OffloadWriteCdr, TypeOK
<1> QED  BY <1>2, <1>3, <1>4, <1>5, <1>6, <1>7 DEF StopperStep

----------------------------------------------------------------------------
(* cleaner_loop and the destructor.                                        *)

LEMMA CleanerType == ASSUME TypeInv, CleanerStep PROVE TypeInv'
<1> SUFFICES ASSUME TypeOK, RemovedOK PROVE TypeOK' /\ RemovedOK'
  BY DEF TypeInv
<1> USE Kinds
<1>1. ASSUME NEW l \in CleanerPC, Goto(Cleaner, l), UNCHANGED removed,
             target' \in [Threads -> Imsi \cup {NoSession}],
             \A u \in Threads \ {Cleaner} : target'[u] = target[u]
      PROVE  PcOK' /\ TargetOK' /\ RemovedOK'
  <2>1. PcOK' /\ pc'[Cleaner] = l /\ \A t \in Threads \ {Cleaner} : pc'[t] = pc[t]
    BY <1>1, GotoCleaner DEF TypeOK
  <2>2. TargetOK'
    BY <1>1, <2>1, TargetType DEF TypeOK
  <2>3. RemovedOK'
    BY <1>1, <2>1, RemovedType
  <2> QED  BY <2>1, <2>2, <2>3
<1>2. ASSUME CleanerTop PROVE TypeOK' /\ RemovedOK'
  <2>1. stamp' \in [Threads -> Nat]
    BY <1>2, LocaltimeType DEF CleanerTop, TypeOK
  <2>2. PICK l \in CleanerPC : Goto(Cleaner, l)
    BY <1>2 DEF CleanerTop, CleanerPC
  <2>3. PcOK' /\ TargetOK' /\ RemovedOK'
    BY <1>2, <1>1, <2>2 DEF CleanerTop, TypeOK, TargetOK
  <2> QED  BY <1>2, <2>1, <2>3 DEF CleanerTop, TypeOK, storeVars, StoreTypeOK
<1>3. ASSUME CleanerLoad PROVE TypeOK' /\ RemovedOK'
  <2>1. StoreTypeOK'
    BY <1>3, QueryType DEF CleanerLoad, load_expired_sessions, TypeOK
  <2>2. PcOK' /\ TargetOK' /\ RemovedOK'
    BY <1>3, <1>1 DEF CleanerLoad, TypeOK, TargetOK, CleanerPC
  <2>3. todo' \subseteq Imsi
    BY <1>3 DEF CleanerLoad
  <2> QED  BY <1>3, <2>1, <2>2, <2>3 DEF CleanerLoad, TypeOK
<1>4. ASSUME NEW i \in Imsi, CleanerWriteCdr(i) PROVE TypeOK' /\ RemovedOK'
  <2>1. cdr' \in Seq(CdrRecord)
    BY <1>4, CdrType DEF CleanerWriteCdr, TypeOK
  <2>2. StoreTypeOK' /\ PcOK' /\ TargetOK' /\ RemovedOK'
    BY <1>4 DEF CleanerWriteCdr, TypeOK, storeVars, StoreTypeOK, PcOK, TargetOK, RemovedOK
  <2> QED  BY <1>4, <2>1, <2>2 DEF CleanerWriteCdr, TypeOK
<1>5. ASSUME CleanerCleanup PROVE TypeOK' /\ RemovedOK'
  <2>1. StoreTypeOK'
    <3> DEFINE kept(now) ==
          [i \in Imsi |-> IF i \in ExpiredRows(now) THEN NoSession ELSE store[i]]
    <3>1. kept(stamp[Cleaner]) \in [Imsi -> Nat \cup {NoSession}]
      BY DEF TypeOK, StoreTypeOK
    <3> QED  BY <1>5, <3>1, ExecuteType DEF CleanerCleanup, cleanup_expired_sessions, TypeOK
  <2>2. PcOK' /\ TargetOK' /\ RemovedOK'
    BY <1>5, <1>1 DEF CleanerCleanup, Return, TypeOK, TargetOK, CleanerPC
  <2>3. stamp' \in [Threads -> Nat]
    BY <1>5 DEF CleanerCleanup, Return, TypeOK
  <2> QED  BY <1>5, <2>1, <2>2, <2>3 DEF CleanerCleanup, TypeOK
<1>6. ASSUME CleanerSleep \/ CleanerWake PROVE TypeOK' /\ RemovedOK'
  <2>1. PICK l \in CleanerPC : Goto(Cleaner, l)
    BY <1>6 DEF CleanerSleep, CleanerWake, CleanerPC
  <2>2. PcOK' /\ TargetOK' /\ RemovedOK'
    BY <1>6, <1>1, <2>1 DEF CleanerSleep, CleanerWake, TypeOK, TargetOK
  <2> QED  BY <1>6, <2>2 DEF CleanerSleep, CleanerWake, LockBriefly, TypeOK, storeVars,
                           StoreTypeOK
<1> QED  BY <1>2, <1>3, <1>4, <1>5, <1>6 DEF CleanerStep

LEMMA RestType ==
  ASSUME TypeInv, Destroy \/ Destroyed \/ UNCHANGED vars
  PROVE  TypeInv'
<1>1. UNCHANGED <<storeVars, threadVars, clock, cdr, touches>> /\ stop' \in BOOLEAN
  BY DEF Destroy, Destroyed, vars, TypeInv, TypeOK
<1>2. StoreTypeOK' /\ PcOK' /\ TargetOK' /\ RemovedOK'
  BY <1>1 DEF TypeInv, TypeOK, storeVars, threadVars, StoreTypeOK, PcOK, TargetOK, RemovedOK
<1> QED  BY <1>1, <1>2 DEF TypeInv, TypeOK, threadVars

LEMMA NextType == TypeInv /\ [Next]_vars => TypeInv'
BY TickType, TouchType, CheckType, StopType, CleanerType, RestType DEF Next

LEMMA TypeInvariant == Spec => []TypeInv
BY InitType, NextType, PTL DEF Spec

(* Every reachable state is well formed: no thread acts on a session it    *)
(* has not picked, and offload_rate removes at most the sessions it was    *)
(* asked to (session_manager.cpp:93-110).                                  *)
THEOREM TypeCorrect == Spec => []TypeOK
<1>1. TypeInv => TypeOK
  BY DEF TypeInv
<1> QED  BY <1>1, TypeInvariant, PTL

====
