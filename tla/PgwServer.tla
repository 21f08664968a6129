---- MODULE PgwServer ----
(***************************************************************************)
(* The server process: main.cpp puts SessionManager between UdpServer      *)
(* (udp_server.cpp), whose one thread calls touch_session, and HttpApi     *)
(* (http_api.cpp), whose workers call is_active and graceful_stop.  GET    *)
(* /stop flags the UDP loop, empties the session table, closes the HTTP    *)
(* server and so ends the process by std::exit.                            *)
(*                                                                         *)
(* The actions of SessionManager are used as they stand; this module adds  *)
(* who calls them, and when.                                               *)
(***************************************************************************)
EXTENDS SessionManager

CONSTANT Blacklist   \* subscribers who are refused

ASSUME BlacklistAssumption == Blacklist \subseteq Imsi

VARIABLES
  running,   \* UdpServer::running_
  upc,       \* the UDP thread, around its calls of touch_session
  hpc,       \* HttpApi's thread and the server it listens with
  handled,   \* stoppers whose request has been answered
  exited     \* std::exit(0) has been called

processVars == <<running, upc, hpc, handled, exited>>
serverVars == <<vars, processVars>>

(* The UDP thread is in touch_session only on behalf of a datagram, and a  *)
(* /stop is answered only after its graceful_stop (udp_server.cpp:93,      *)
(* http_api.cpp:69).                                                       *)
ServerTypeOK ==
  /\ running \in BOOLEAN /\ exited \in BOOLEAN
  /\ upc \in {"binding", "top", "receiving", "touching", "closed"}
  /\ pc[Udp] # "idle" => upc = "touching"
  /\ hpc \in {"starting", "listening", "closing", "returned"}
  /\ handled \subseteq {s \in Stoppers : pc[s] = "stopped"}

(* main: the manager is built, and udp.start() and http.start() return.    *)
ServerInit ==
  /\ Init
  /\ running = TRUE /\ upc = "binding"
  /\ hpc = "starting" /\ handled = {}
  /\ exited = FALSE

(* A step of SessionManager's own.                                         *)
Within(step) == step /\ UNCHANGED processVars

----------------------------------------------------------------------------
(* UdpServer::run_loop.                                                    *)

UdpGoto(label) == upc' = label /\ UNCHANGED <<running, hpc, handled, exited>>

(* A thread that gets no socket returns; the process goes on without it.   *)
UdpBind ==
  /\ upc = "binding"
  /\ UdpGoto("top") \/ UdpGoto("closed")
  /\ UNCHANGED vars

(* while (running_): the only place where the flag is looked at.           *)
UdpTop ==
  /\ upc = "top"
  /\ UdpGoto(IF running THEN "receiving" ELSE "closed")
  /\ UNCHANGED vars

(* recvfrom fails or returns an empty datagram.                            *)
UdpRecvNothing ==
  /\ upc = "receiving"
  /\ UdpGoto("top")
  /\ UNCHANGED vars

(* The datagram names a blocked subscriber: "rejected" is sent.            *)
UdpReject ==
  /\ upc = "receiving" /\ Blacklist # {}
  /\ UdpGoto("top")
  /\ UNCHANGED vars

(* The datagram names another one: touch_session is called, ...            *)
UdpReceive(i) ==
  /\ upc = "receiving" /\ i \notin Blacklist
  /\ TouchStamp(i)
  /\ UdpGoto("touching")

(* Mutant: the answer does not wait for touch_session.                     *)
UdpReplyMutant ==
  /\ upc = "touching"
  /\ UdpGoto("top")
  /\ UNCHANGED vars

(* ... has returned, and "created" is sent.                                *)
UdpReply ==
  /\ upc = "touching" /\ pc[Udp] = "idle"
  /\ UdpGoto("top")
  /\ UNCHANGED vars

----------------------------------------------------------------------------
(* HttpApi::run_server.                                                    *)

(* The listening socket is bound.  While the port is taken, listen returns *)
(* FALSE at once and while (!stop_requested) calls it again: no state      *)
(* changes, and nothing says that the port ever becomes free.              *)
Listen ==
  /\ hpc = "starting"
  /\ hpc' = "listening"
  /\ UNCHANGED <<vars, running, upc, handled, exited>>

(* GET /check_subscriber, a worker's only step outside is_active.          *)
HttpCheck(c, i) == hpc = "listening" /\ Within(CheckStamp(c, i))

(* Mutant: the callback is not called.                                     *)
HttpStopMutant(s) ==
  /\ hpc = "listening"
  /\ StopCall(s)
  /\ UNCHANGED processVars

(* GET /stop: udp_stop_cb_, stop_requested and the call of graceful_stop.  *)
(* stop_requested is read only after listen has returned, when all workers *)
(* are done, so it is TRUE exactly when a stopper has been called.         *)
HttpStop(s) ==
  /\ hpc = "listening"
  /\ StopCall(s)
  /\ running' = FALSE
  /\ UNCHANGED <<upc, hpc, handled, exited>>

(* Mutant: server.stop() is left out.                                      *)
HttpStoppedMutant(s) ==
  /\ pc[s] = "stopped" /\ s \notin handled
  /\ handled' = handled \cup {s}
  /\ UNCHANGED <<vars, running, upc, hpc, exited>>

(* graceful_stop has returned: server.stop(), and the answer.              *)
HttpStopped(s) ==
  /\ pc[s] = "stopped" /\ s \notin handled
  /\ handled' = handled \cup {s}
  /\ hpc' = "closing"
  /\ UNCHANGED <<vars, running, upc, exited>>

(* server.listen returns once the workers have finished what they serve.   *)
ListenReturns ==
  /\ hpc = "closing"
  /\ \A c \in Checkers : pc[c] = "idle"
  /\ \A s \in Stoppers : pc[s] = "idle" \/ s \in handled
  /\ hpc' = "returned"
  /\ UNCHANGED <<vars, running, upc, handled, exited>>

(* while (!stop_requested) is over, and std::exit(0) ends the process      *)
(* under the UDP thread, the cleaner and the CDR writer: main is still in  *)
(* http.join(), and no destructor of its objects runs.                     *)
Exit ==
  /\ hpc = "returned" /\ ~exited
  /\ exited' = TRUE
  /\ UNCHANGED <<vars, running, upc, hpc, handled>>

Exited == exited /\ UNCHANGED serverVars

----------------------------------------------------------------------------
UdpThread == UdpBind \/ UdpTop \/ UdpReply \/ Within(UdpStep)

Stopper(s) == Within(StopperStep(s)) \/ HttpStopped(s)

ServerNext ==
  \/ /\ ~exited
     /\ \/ Within(Tick)
        \/ UdpThread \/ UdpRecvNothing \/ UdpReject
        \/ \E i \in Imsi : UdpReceive(i)
        \/ \E c \in Checkers : Within(CheckLoad(c)) \/ \E i \in Imsi : HttpCheck(c, i)
        \/ \E s \in Stoppers : HttpStop(s) \/ Stopper(s)
        \/ Within(CleanerStep)
        \/ Listen \/ ListenReturns \/ Exit
  \/ Exited

ServerSpec == ServerInit /\ [][ServerNext]_serverVars

(* Threads inside a call keep running, and so does the HTTP thread; no     *)
(* datagram has to arrive and no request has to be made.                   *)
FairServerSpec ==
  /\ ServerSpec
  /\ SF_serverVars(~exited /\ UdpThread)
  /\ SF_serverVars(~exited /\ Within(CleanerStep))
  /\ \A c \in Checkers : WF_serverVars(~exited /\ Within(CheckLoad(c)))
  /\ \A s \in Stoppers : SF_serverVars(~exited /\ Stopper(s))
  /\ WF_serverVars(ListenReturns \/ Exit)

----------------------------------------------------------------------------
(* Properties.                                                             *)

(* UdpServer::stop only sets a flag, and the UDP thread, blocked in        *)
(* recvfrom, serves one more datagram (udp_server.cpp:33-69). That is all: *)
(* whatever arrives while the process shuts down, at most one session in   *)
(* force is left when it ends; rows that are over and not yet cleaned away *)
(* do not count. (With localtime's buffer shared, or a query that fails,   *)
(* graceful_stop may see an empty table that is not.)                      *)
AtMostOneSessionLeft == exited => Cardinality(ActiveRows(clock)) <= 1

(* GET /stop ends the process: graceful_stop catches up with the UDP       *)
(* thread, the cleaner and other requests (http_api.cpp:54-105).           *)
StopEndsProcess == \A s \in Stoppers : pc[s] = "check" ~> exited

(* http_api.cpp:70 "All sessions offloaded, HTTP API shutting down": none  *)
(* is left when the process ends.                                          *)
AllOffloaded == exited => ActiveRows(clock) = {}

====
