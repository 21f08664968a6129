---- MODULE PgwServerProofs ----
(***************************************************************************)
(* The server process uses SessionManager as SessionManager expects to be  *)
(* used: every behaviour of the server is one of the manager's, so what is *)
(* proved of the manager holds in the server, whatever UdpServer and       *)
(* HttpApi do.                                                             *)
(***************************************************************************)
EXTENDS PgwServer, SessionManagerLifecycle

LEMMA ServerStep == [ServerNext]_serverVars => [Next]_vars
<1> SUFFICES ASSUME [ServerNext]_serverVars PROVE Next \/ UNCHANGED vars
  OBVIOUS
<1>1. CASE Exited \/ UNCHANGED serverVars
  BY <1>1 DEF Exited, serverVars
<1>2. CASE UdpThread
  BY <1>2 DEF UdpThread, UdpBind, UdpTop, UdpReply, Within, Next
<1>3. CASE UdpRecvNothing \/ UdpReject \/ Listen \/ ListenReturns \/ Exit
  BY <1>3 DEF UdpRecvNothing, UdpReject, Listen, ListenReturns, Exit
<1>4. CASE Within(Tick) \/ Within(CleanerStep) \/ \E i \in Imsi : UdpReceive(i)
  BY <1>4 DEF Within, UdpReceive, Next
<1>5. ASSUME NEW c \in Checkers, Within(CheckLoad(c)) \/ \E i \in Imsi : HttpCheck(c, i)
      PROVE  Next
  BY <1>5 DEF Within, HttpCheck, Next
<1>6. ASSUME NEW s \in Stoppers, HttpStop(s) \/ Stopper(s)
      PROVE  Next \/ UNCHANGED vars
  BY <1>6 DEF HttpStop, Stopper, Within, HttpStopped, Next
<1> QED  BY <1>1, <1>2, <1>3, <1>4, <1>5, <1>6 DEF ServerNext

LEMMA ServerIsManager == ServerSpec => Spec
<1>1. ServerInit => Init
  BY DEF ServerInit
<1> QED  BY <1>1, ServerStep, PTL DEF ServerSpec, Spec

(* In the whole process, too, a subscriber without a session has as many   *)
(* "expired" records as "created" ones or more (session_manager.cpp:93-143 *)
(* under the callers in udp_server.cpp:93 and http_api.cpp:48-69).         *)
THEOREM ServerAccounts ==
  ASSUME Timely, MaxFaults = 0  PROVE ServerSpec => []SessionsAccounted
BY ServerIsManager, SessionsAreAccounted, PTL

(* In the whole process, too, only graceful_stop ends a session early.     *)
THEOREM ServerKeepsSessions == ASSUME ~SharedTm PROVE ServerSpec => LiveSessionKept
BY ServerIsManager, LiveSessionIsKept, PTL

(* In the whole process, too, table and records change as if datagrams and *)
(* /stop requests were served one at a time, beside one cleaner            *)
(* (udp_server.cpp:93, http_api.cpp:69, session_manager.cpp:58-149).       *)
THEOREM ServerImplementsLifecycle ==
  ASSUME Reliable  PROVE ServerSpec => ImplementsLifecycle
BY ServerIsManager, LifecycleIsImplemented, PTL

(* In the whole process, too, /check_subscriber denies no session that is  *)
(* still running (http_api.cpp:46-51, session_manager.cpp:86-91).          *)
THEOREM ServerChecksRightly ==
  ASSUME ~SharedTm, MaxFaults = 0  PROVE ServerSpec => NotActiveOnlyIfOver
BY ServerIsManager, NotActiveIsRight, PTL

(* In the whole process, too, a failed SQLite statement costs each         *)
(* subscriber at most one "created" without "expired" - one failed list    *)
(* may cost it to many of them - also while /stop is at work               *)
(* (session_manager.cpp:61-77, 126, 136, 143, http_api.cpp:69).            *)
THEOREM ServerPaysForFaults == ASSUME Timely PROVE ServerSpec => []FaultsAccounted
BY ServerIsManager, FaultsAreAccounted, PTL

(* In the whole process, too, "expired" never comes before "created"       *)
(* (session_manager.cpp:77-78, 126-127, 138).                              *)
THEOREM ServerRecordsInOrder == ASSUME Timely PROVE ServerSpec => []ExpiredOnlyAfterCreated
BY ServerIsManager, ExpiredComesAfterCreated, PTL

(* A server that is started over the table and the CDR file of earlier     *)
(* ones serves as PgwRestart lets it (main.cpp:48-60, udp_server.cpp:93,   *)
(* http_api.cpp:69).                                                       *)
THEOREM ServerServes ==
  ASSUME Reliable, NEW before \in Seq(CdrRecord)
  PROVE  ServerSpec => [][After(before)!LifeNext]_(After(before)!lifeVars)
BY ServerIsManager, LaterLivesAreAlike, PTL

----------------------------------------------------------------------------
(* One thread of the manager moves, and the others stay where they are.    *)
LEMMA OneMoves ==
  ASSUME PcOK, NEW t \in Threads, NEW l, Goto(t, l)
  PROVE  pc'[t] = l /\ \A u \in Threads \ {t} : pc'[u] = pc[u]
BY DEF PcOK, Goto

LEMMA CleanerOrCheckerMoves ==
  ASSUME PcOK, CleanerStep \/ \E c \in Checkers : CheckLoad(c) \/ \E i \in Imsi : CheckStamp(c, i)
  PROVE  pc'[Udp] = pc[Udp] /\ \A s \in Stoppers : pc'[s] = pc[s]
<1>1. CASE CleanerStep
  <2>1. UNCHANGED pc \/ \E l : Goto(Cleaner, l)
    BY <1>1 DEF CleanerStep, CleanerTop, CleanerLoad, CleanerWriteCdr, CleanerCleanup,
                CleanerSleep, CleanerWake, Return
  <2> QED  BY <2>1, OneMoves, Kinds
<1>2. ASSUME NEW c \in Checkers, CheckLoad(c) \/ \E i \in Imsi : CheckStamp(c, i)
      PROVE  pc'[Udp] = pc[Udp] /\ \A s \in Stoppers : pc'[s] = pc[s]
  <2>1. \E l : Goto(c, l)
    BY <1>2 DEF CheckLoad, CheckStamp, Return
  <2> QED  BY <2>1, OneMoves, Kinds
<1> QED  BY <1>1, <1>2

(* A graceful_stop that has returned is not called again.                  *)
LEMMA StopperMoves ==
  ASSUME PcOK, NEW s \in Stoppers, StopCall(s) \/ StopperStep(s)
  PROVE  pc[s] # "stopped" /\ \A u \in Threads \ {s} : pc'[u] = pc[u]
<1>1. \E l : Goto(s, l)
  BY DEF StopCall, StopperStep, StopStamp, StopLoad, OffloadPick, OffloadDelete,
         OffloadWriteCdr, Return
<1>2. pc[s] # "stopped"
  BY DEF StopCall, StopperStep, StopStamp, StopLoad, OffloadPick, OffloadDelete,
         OffloadWriteCdr
<1> QED  BY <1>1, <1>2, OneMoves, Kinds

LEMMA UdpMoves ==
  ASSUME PcOK, UdpStep \/ \E i \in Imsi : TouchStamp(i)
  PROVE  \A u \in Threads \ {Udp} : pc'[u] = pc[u]
<1>1. \E l : Goto(Udp, l)
  BY DEF UdpStep, TouchStamp, TouchLock, TouchRefresh, TouchCreate, TouchWriteCdr, Return
<1> QED  BY <1>1, OneMoves, Kinds

LEMMA InitServerType == ServerInit => ServerTypeOK
<1>1. Init => pc[Udp] = "idle"
  BY Kinds DEF Init
<1> QED  BY <1>1 DEF ServerInit, ServerTypeOK

LEMMA NextServerType == TypeInv /\ ServerTypeOK /\ [ServerNext]_serverVars => ServerTypeOK'
<1> SUFFICES ASSUME PcOK, ServerTypeOK, [ServerNext]_serverVars PROVE ServerTypeOK'
  BY DEF TypeInv, TypeOK
<1> USE Kinds DEF ServerTypeOK
<1>1. CASE Exited \/ UNCHANGED serverVars
  BY <1>1 DEF Exited, serverVars, processVars, vars, threadVars
<1>2. ASSUME UNCHANGED pc, UdpBind \/ UdpTop \/ UdpReply \/ UdpRecvNothing \/ UdpReject
      PROVE  ServerTypeOK'
  BY <1>2 DEF UdpBind, UdpTop, UdpReply, UdpRecvNothing, UdpReject, UdpGoto
<1>3. CASE Within(UdpStep)
  <2>1. pc[Udp] # "idle"
    BY <1>3 DEF Within, UdpStep, TouchLock, TouchRefresh, TouchCreate, TouchWriteCdr
  <2> QED  BY <1>3, <2>1, UdpMoves DEF Within, processVars
<1>4. CASE \E i \in Imsi : UdpReceive(i)
  <2>1. upc' = "touching" /\ UNCHANGED <<running, hpc, handled, exited>>
    BY <1>4 DEF UdpReceive, UdpGoto
  <2>2. \E i \in Imsi : TouchStamp(i)
    BY <1>4 DEF UdpReceive
  <2> QED  BY <2>1, <2>2, UdpMoves
<1>5. CASE Within(Tick)
  BY <1>5 DEF Within, Tick, processVars
<1>6. CASE \/ Within(CleanerStep)
           \/ \E c \in Checkers : Within(CheckLoad(c)) \/ \E i \in Imsi : HttpCheck(c, i)
  BY <1>6, CleanerOrCheckerMoves DEF Within, HttpCheck, processVars
<1>7. ASSUME NEW s \in Stoppers, HttpStop(s) \/ Within(StopperStep(s))
      PROVE  ServerTypeOK'
  <2>1. /\ StopCall(s) \/ StopperStep(s)
        /\ running' \in BOOLEAN /\ UNCHANGED <<upc, hpc, handled, exited>>
    BY <1>7 DEF HttpStop, Within, processVars
  <2> QED  BY <2>1, StopperMoves
<1>8. ASSUME UNCHANGED pc, Listen \/ ListenReturns \/ Exit \/ \E s \in Stoppers : HttpStopped(s)
      PROVE  ServerTypeOK'
  BY <1>8 DEF Listen, ListenReturns, Exit, HttpStopped
<1> QED  BY <1>1, <1>2, <1>3, <1>4, <1>5, <1>6, <1>7, <1>8
         DEF ServerNext, UdpThread, Stopper, UdpBind, UdpTop, UdpReply, UdpRecvNothing,
             UdpReject, Listen, ListenReturns, Exit, HttpStopped, vars, threadVars

(* The UDP thread calls touch_session only for a datagram it has received, *)
(* and a /stop is answered only after its graceful_stop has returned       *)
(* (udp_server.cpp:93, http_api.cpp:69-78).                                *)
THEOREM ServerTypeCorrect == ServerSpec => []ServerTypeOK
BY InitServerType, NextServerType, ServerIsManager, TypeInvariant, PTL DEF ServerSpec

----------------------------------------------------------------------------
(* The UDP thread may still store one session: it waits for a datagram, or *)
(* has one and has not called save_session for it.                         *)
MayServe == upc = "receiving" \/ pc[Udp] \in {"locking", "refresh", "create"}

OneLeft ==
  /\ \E i : ActiveRows(clock) \subseteq {i}
  /\ MayServe => ActiveRows(clock) = {}

(* Once a graceful_stop has found no session, at most one in force is      *)
(* stored, and none as long as the UDP thread may still store one.         *)
LeftInv ==
  /\ \A s \in Stoppers : pc[s] # "idle" => ~running
  /\ hpc \in {"closing", "returned"} => handled # {}
  /\ exited => hpc = "returned"
  /\ (\E s \in Stoppers : pc[s] = "stopped") => OneLeft

LEMMA InitLeft == ServerInit => LeftInv
<1>1. Init => \A s \in Stoppers : pc[s] = "idle"
  BY Kinds DEF Init
<1> QED  BY <1>1 DEF ServerInit, LeftInv

(* No thread but the UDP thread adds a session.                            *)
LEMMA ActiveShrinks ==
  ASSUME TypeInv, ~SharedTm, OtherStep \/ Tick
  PROVE  ActiveRows(clock)' \subseteq ActiveRows(clock)
<1>0. StoreTypeOK /\ clock \in Nat
  BY DEF TypeInv, TypeOK
<1>1. /\ \A i \in Imsi : store'[i] \in {store[i], NoSession}
      /\ clock' \in {clock, clock + 1}
  BY OtherEffect DEF Tick, storeVars
<1> QED  BY <1>0, <1>1 DEF ActiveRows, Stored, StoreTypeOK, NoSession

(* graceful_stop returns when the table is empty of sessions in force.     *)
LEMMA StopsWhenEmpty ==
  ASSUME TypeInv, TimeInv, MaxFaults = 0, NEW s \in Stoppers,
         StopCall(s) \/ StopperStep(s), pc'[s] = "stopped"
  PROVE  ActiveRows(clock) = {}
<1> USE Kinds
<1>1. \A l : Goto(s, l) => l = "stopped"
  BY OneMoves DEF TypeInv, TypeOK
<1>2. StopLoad(s)
  BY <1>1 DEF StopCall, StopperStep, StopStamp, OffloadPick, OffloadDelete,
              OffloadWriteCdr, AfterRemoving
<1>3. PICK rows \in SUBSET Imsi :
        load_sessions(stamp[s], rows) /\ Goto(s, IF rows = {} THEN "stopped" ELSE AfterRemoving(0))
  BY <1>2 DEF StopLoad, Return
<1>4. rows = {}
  BY <1>1, <1>3 DEF AfterRemoving
<1>5. ActiveRows(stamp[s]) = {}
  BY <1>3, <1>4, NoFault DEF load_sessions, Query
<1>6. /\ stamp[s] <= clock /\ stamp[s] \in Nat /\ clock \in Nat /\ StoreTypeOK
  BY DEF TimeInv, TypeInv, TypeOK
<1> QED  BY <1>5, <1>6 DEF ActiveRows, Stored, StoreTypeOK, NoSession

(* save_session of the UDP thread adds one session at most.                *)
LEMMA UdpLeaves ==
  ASSUME TypeInv, ServerTypeOK, OneLeft, Within(UdpStep)
  PROVE  OneLeft'
<1> USE Kinds
<1> DEFINE u == target[Udp]
<1>0. /\ PcOK /\ StoreTypeOK /\ UNCHANGED clock /\ pc[Udp] # "idle"
      /\ upc = "touching" /\ upc' = "touching"
  <2>1. pc[Udp] # "idle"
    BY DEF Within, UdpStep, TouchLock, TouchRefresh, TouchCreate, TouchWriteCdr
  <2> QED  BY <2>1 DEF TypeInv, TypeOK, ServerTypeOK, Within, processVars, UdpStep, TouchLock,
                       TouchRefresh, TouchCreate, TouchWriteCdr
<1>1. CASE TouchLock
  BY <1>0, <1>1 DEF TouchLock, OneLeft, MayServe, ActiveRows, Stored
<1>2. CASE TouchWriteCdr
  <2>1. UNCHANGED store /\ pc'[Udp] = "idle"
    BY <1>0, <1>2, OneMoves DEF TouchWriteCdr, storeVars, Return
  <2> QED  BY <1>0, <2>1 DEF OneLeft, MayServe, ActiveRows, Stored
<1>3. CASE TouchRefresh \/ TouchCreate
  <2>1. ActiveRows(clock) = {}
    BY <1>3 DEF TouchRefresh, TouchCreate, OneLeft, MayServe
  <2>2. pc'[Udp] \in {"idle", "created"}
    BY <1>0, <1>3, OneMoves DEF TouchRefresh, TouchCreate, Return
  <2>3. store' = [store EXCEPT ![u] = stamp[Udp]] \/ UNCHANGED store
    BY <1>3, ExecuteEffect DEF TouchRefresh, TouchCreate, save_session
  <2>4. \A i \in Imsi : i # u => store'[i] = store[i]
    BY <1>0, <2>3 DEF StoreTypeOK
  <2>5. ActiveRows(clock)' \subseteq {u}
    BY <1>0, <2>1, <2>4 DEF ActiveRows, Stored
  <2>6. \E i : ActiveRows(clock)' \subseteq {i}
    BY <2>5
  <2> QED  BY <1>0, <2>2, <2>6 DEF OneLeft, MayServe
<1> QED  BY <1>1, <1>2, <1>3 DEF Within, UdpStep

LEMMA NextLeft ==
  ASSUME ~SharedTm, MaxFaults = 0
  PROVE  TypeInv /\ TimeInv /\ ServerTypeOK /\ LeftInv /\ [ServerNext]_serverVars => LeftInv'
<1> SUFFICES ASSUME TypeInv, TimeInv, ServerTypeOK, LeftInv, [ServerNext]_serverVars
             PROVE  LeftInv'
  OBVIOUS
<1> USE Kinds
<1>0. PcOK
  BY DEF TypeInv, TypeOK
<1> DEFINE StoppedOne == \E s \in Stoppers : pc[s] = "stopped"
<1>1. ASSUME OtherStep \/ Tick, pc'[Udp] = pc[Udp],
             upc' = "receiving" => upc = "receiving" \/ ~StoppedOne', OneLeft, StoppedOne'
      PROVE  OneLeft'
  BY <1>1, ActiveShrinks DEF OneLeft, MayServe
<1>2. ASSUME UNCHANGED vars PROVE OtherStep /\ UNCHANGED pc /\ (StoppedOne' <=> StoppedOne)
  BY <1>2 DEF OtherStep, vars, threadVars
<1>3. CASE Exited \/ UNCHANGED serverVars
  <2>1. UNCHANGED vars /\ UNCHANGED processVars
    BY <1>3 DEF Exited, serverVars
  <2> QED  BY <1>1, <1>2, <2>1 DEF LeftInv, processVars
<1>4. CASE UdpBind \/ UdpTop \/ UdpReply \/ UdpRecvNothing \/ UdpReject
  <2>1. /\ UNCHANGED <<vars, running, hpc, handled, exited>>
        /\ upc' = "receiving" => running
    BY <1>4 DEF UdpBind, UdpTop, UdpReply, UdpRecvNothing, UdpReject, UdpGoto
  <2>2. StoppedOne => ~running
    BY DEF LeftInv
  <2> QED  BY <1>1, <1>2, <2>1, <2>2 DEF LeftInv
<1>5. CASE Within(UdpStep)
  <2>1. \A s \in Stoppers : pc'[s] = pc[s]
    BY <1>0, <1>5, UdpMoves DEF Within
  <2> QED  BY <1>5, <2>1, UdpLeaves DEF LeftInv, Within, processVars
<1>6. CASE \E i \in Imsi : UdpReceive(i)
  <2>1. \A s \in Stoppers : pc'[s] = pc[s]
    BY <1>0, <1>6, UdpMoves DEF UdpReceive
  <2>2. UNCHANGED <<store, clock, running, hpc, handled, exited>> /\ upc = "receiving"
    BY <1>6 DEF UdpReceive, UdpGoto, TouchStamp, storeVars
  <2>3. ActiveRows(clock)' = ActiveRows(clock)
    BY <2>2 DEF ActiveRows, Stored
  <2> QED  BY <2>1, <2>2, <2>3 DEF LeftInv, OneLeft, MayServe
<1>7. CASE \/ Within(Tick) \/ Within(CleanerStep)
           \/ \E c \in Checkers : Within(CheckLoad(c)) \/ \E i \in Imsi : HttpCheck(c, i)
  <2>1. pc'[Udp] = pc[Udp] /\ \A s \in Stoppers : pc'[s] = pc[s]
    BY <1>0, <1>7, CleanerOrCheckerMoves DEF Within, HttpCheck, Tick
  <2>2. (OtherStep \/ Tick) /\ UNCHANGED processVars
    BY <1>7 DEF OtherStep, Within, HttpCheck
  <2>3. OneLeft /\ StoppedOne' => OneLeft'
    BY <1>1, <2>1, <2>2 DEF processVars
  <2> QED  BY <2>1, <2>2, <2>3 DEF LeftInv, processVars
<1>8. ASSUME NEW s \in Stoppers, HttpStop(s) \/ Within(StopperStep(s))
      PROVE  LeftInv'
  <2>1. /\ StopCall(s) \/ StopperStep(s)
        /\ UNCHANGED <<upc, hpc, handled, exited>>
    BY <1>8 DEF HttpStop, Within, processVars
  <2>2. pc[s] # "stopped" /\ \A u \in Threads \ {s} : pc'[u] = pc[u]
    BY <1>0, <2>1, StopperMoves
  <2>3. ~running'
    <3>1. CASE HttpStop(s)
      BY <3>1 DEF HttpStop
    <3>2. CASE Within(StopperStep(s))
      <4>1. pc[s] # "idle"
        BY <3>2 DEF Within, StopperStep, StopStamp, StopLoad, OffloadPick, OffloadDelete,
                    OffloadWriteCdr
      <4> QED  BY <3>2, <4>1 DEF LeftInv, Within, processVars
    <3> QED  BY <1>8, <3>1, <3>2
  <2>4. OtherStep
    BY <2>1 DEF OtherStep
  <2>5. StoppedOne' => OneLeft'
    <3>1. CASE pc'[s] = "stopped"
      <4>1. OneLeft
        BY <2>1, <3>1, StopsWhenEmpty DEF OneLeft
      <4> QED  BY <1>1, <2>1, <2>2, <2>4, <4>1
    <3>2. CASE pc'[s] # "stopped"
      <4>1. StoppedOne' => StoppedOne
        BY <2>2, <3>2
      <4> QED  BY <1>1, <2>1, <2>2, <2>4, <4>1 DEF LeftInv
    <3> QED  BY <3>1, <3>2
  <2> QED  BY <2>1, <2>3, <2>5 DEF LeftInv
<1>9. CASE ~exited /\ (Listen \/ ListenReturns \/ Exit \/ \E s \in Stoppers : HttpStopped(s))
  <2>1. UNCHANGED <<vars, running, upc>>
    BY <1>9 DEF Listen, ListenReturns, Exit, HttpStopped
  <2>2. (hpc' \in {"closing", "returned"} => handled' # {}) /\ (exited' => hpc' = "returned")
    BY <1>9 DEF Listen, ListenReturns, Exit, HttpStopped, LeftInv
  <2>3. OneLeft /\ StoppedOne' => OneLeft'
    BY <1>1, <1>2, <2>1
  <2> QED  BY <1>2, <2>1, <2>2, <2>3 DEF LeftInv
<1> QED  BY <1>3, <1>4, <1>5, <1>6, <1>7, <1>8, <1>9 DEF ServerNext, UdpThread, Stopper

(* At most one session in force is left at the end: the UDP thread,        *)
(* blocked in recvfrom when running_ is cleared, serves one more datagram  *)
(* and no second one (udp_server.cpp:33-69, http_api.cpp:54-105).          *)
THEOREM AtMostOneIsLeft ==
  ASSUME ~SharedTm, MaxFaults = 0  PROVE ServerSpec => []AtMostOneSessionLeft
<1>1. TypeInv /\ ServerTypeOK /\ LeftInv => AtMostOneSessionLeft
  <2> SUFFICES ASSUME ServerTypeOK, LeftInv, exited
               PROVE  Cardinality(ActiveRows(clock)) <= 1
    BY DEF AtMostOneSessionLeft
  <2>1. \E s \in Stoppers : pc[s] = "stopped"
    BY DEF LeftInv, ServerTypeOK
  <2>2. PICK i : ActiveRows(clock) \subseteq {i}
    BY <2>1 DEF LeftInv, OneLeft
  <2>3. ActiveRows(clock) = {} \/ ActiveRows(clock) = {i}
    BY <2>2
  <2>4. Cardinality({}) = 0 /\ Cardinality({i}) = 1
    BY FS_EmptySet, FS_Singleton
  <2> QED  BY <2>3, <2>4
<1>2. ServerSpec => [](TypeInv /\ TimeInv)
  BY ServerIsManager, TimeInvariant, PTL
<1>3. ServerSpec => []LeftInv
  BY <1>2, InitLeft, NextLeft, ServerTypeCorrect, PTL DEF ServerSpec
<1> QED  BY <1>1, <1>2, <1>3, ServerTypeCorrect, PTL

====
