---- MODULE UdpServer ----
(***************************************************************************)
(* UdpServer (udp_server.cpp) as its clients see it: one socket, and one   *)
(* thread that takes a datagram, decodes it, asks the blacklist and        *)
(* touch_session, and answers.  The network between it and the clients     *)
(* reorders datagrams, and loses and doubles a bounded number of them.     *)
(*                                                                         *)
(* touch_session is what SessionManager makes of it (see there): it always *)
(* returns true, and here only leaves its mark.                            *)
(***************************************************************************)
EXTENDS Bcd

CONSTANTS
  Port,       \* the clients' ephemeral ports
  Blacklist,  \* the numbers that are refused
  BufSize,    \* bytes in the receive buffer: 16
  MaxLosses,  \* bound: datagrams lost, those not sent for an error included
  MaxSlips    \* bound: datagrams doubled, and clients' failed recvfroms

VARIABLES
  running,    \* running_
  upc,        \* where the thread is
  hand,       \* the datagram it works on, or none: a set of at most one
  touched,    \* numbers touch_session has been called for
  requests,   \* datagrams to the server: the sender's port and the bytes
  answers,    \* datagrams to the clients: the port and the word
  losses, slips

netVars == <<requests, answers, losses, slips>>
udpVars == <<running, upc, hand, touched>>

UdpInit ==
  /\ running = TRUE /\ upc = "binding"
  /\ hand = {} /\ touched = {}
  /\ requests = {} /\ answers = {}
  /\ losses = 0 /\ slips = 0

----------------------------------------------------------------------------
(* The network.                                                            *)

Lost == losses < MaxLosses /\ losses' = losses + 1

Slip == slips < MaxSlips /\ slips' = slips + 1

Lose ==
  /\ Lost
  /\ \/ \E m \in requests : requests' = requests \ {m} /\ UNCHANGED answers
     \/ \E m \in answers : answers' = answers \ {m} /\ UNCHANGED requests
  /\ UNCHANGED <<udpVars, slips>>

(* A datagram that is taken is gone, unless there was a second one.        *)
Take(m, net) ==
  \/ net' = net \ {m} /\ UNCHANGED slips
  \/ net' = net /\ Slip

----------------------------------------------------------------------------
(* run_loop.                                                               *)

(* socket and bind; without them the thread is over.                       *)
Bind ==
  /\ upc = "binding"
  /\ upc' \in {"top", "closed"}
  /\ UNCHANGED <<netVars, running, hand, touched>>

(* while (running_).                                                       *)
Top ==
  /\ upc = "top"
  /\ upc' = IF running THEN "receiving" ELSE "closed"
  /\ UNCHANGED <<netVars, running, hand, touched>>

Receive ==
  /\ upc = "receiving"
  /\ \E m \in requests :
       /\ Take(m, requests)
       /\ hand' = {[m EXCEPT !.bytes = Received(@, BufSize)]}
  /\ upc' = "serving"
  /\ UNCHANGED <<running, touched, answers, losses>>

(* recvfrom fails; a pause, and once more.                                 *)
ReceiveNothing ==
  /\ upc = "receiving"
  /\ upc' = "top"
  /\ UNCHANGED <<netVars, running, hand, touched>>

(* Blacklist::is_blocked.                                                  *)
is_blocked(imsi) == imsi \in Blacklist

(* Mutant: touch_session is called before the blacklist is asked.          *)
ServeMutant ==
  /\ upc = "serving"
  /\ \E m \in hand : LET imsi == DecodedImsi(m.bytes) IN
       /\ touched' = touched \cup {imsi}
       /\ \/ /\ answers' = answers \cup {[port |-> m.port, word |->
                  IF is_blocked(imsi) THEN "rejected" ELSE "created"]}
             /\ UNCHANGED losses
          \/ Lost /\ UNCHANGED answers
  /\ hand' = {} /\ upc' = "top"
  /\ UNCHANGED <<running, requests, slips>>

(* Mutant: a refused subscriber is not answered.                           *)
SilentServeMutant ==
  /\ upc = "serving"
  /\ \E m \in hand : LET imsi == DecodedImsi(m.bytes) IN
       IF is_blocked(imsi) THEN UNCHANGED <<touched, answers>>
       ELSE /\ touched' = touched \cup {imsi}
            /\ answers' = answers \cup {[port |-> m.port, word |-> "created"]}
  /\ hand' = {} /\ upc' = "top"
  /\ UNCHANGED <<running, requests, losses, slips>>

(* Decode, look the number up, touch_session unless it is refused, sendto. *)
Serve ==
  /\ upc = "serving"
  /\ \E m \in hand : LET imsi == DecodedImsi(m.bytes) IN
       /\ touched' = IF is_blocked(imsi) THEN touched ELSE touched \cup {imsi}
       /\ \/ /\ answers' = answers \cup {[port |-> m.port, word |->
                  IF is_blocked(imsi) THEN "rejected" ELSE "created"]}
             /\ UNCHANGED losses
          \/ Lost /\ UNCHANGED answers
  /\ hand' = {} /\ upc' = "top"
  /\ UNCHANGED <<running, requests, slips>>

(* stop(), called by the owner of the server.                              *)
Stop ==
  /\ running /\ running' = FALSE
  /\ UNCHANGED <<netVars, upc, hand, touched>>

UdpStep == Bind \/ Top \/ Receive \/ Serve

----------------------------------------------------------------------------
(* tests/123123test_udp_server.cpp:24-35 starts a server, stops it and     *)
(* joins it, with no datagram between: join() is to come back.             *)
JoinReturns == ~running ~> upc = "closed"

====
