---- MODULE PgwClient ----
(***************************************************************************)
(* The client program (client.cpp, main.cpp): some threads, each a         *)
(* subscriber with a number of its own making, which asks for a session    *)
(* and perhaps for its prolongation.  Every request has a socket of its    *)
(* own, on a port the system chooses, and waits for the answer without a   *)
(* limit of time.                                                          *)
(*                                                                         *)
(* The number that main takes from the command line, from the              *)
(* configuration or from generate_imsi is given to nobody:                 *)
(* run_multiple_clients has the threads' numbers generated, and starts     *)
(* num_clients of them whatever the command line says.                     *)
(***************************************************************************)
EXTENDS UdpServer, FiniteSets

CONSTANTS
  Client,   \* as many threads as the configuration may ask for
  Imsi,     \* the numbers generate_imsi may give
  NoPort    \* no socket is open

ASSUME ClientAssumption ==
  /\ \A n \in Imsi : n \in Seq(Digit) /\ Len(n) <= 2 * BufSize
  /\ NoPort \notin Port
  /\ BufSize \in Nat /\ MaxLosses \in Nat /\ MaxSlips \in Nat

VARIABLES
  mpc,     \* main
  cpc,     \* where each thread is
  imsi,    \* its number
  port,    \* the port of its socket
  again,   \* it is prolonging
  word     \* the last answer it has read

clientVars == <<mpc, cpc, imsi, port, again, word>>
allVars == <<udpVars, netVars, clientVars>>

Words == {"created", "rejected"}

Spawned == {c \in Client : cpc[c] \notin {"none", "unborn"}}

(* A socket is open exactly while its thread waits, and no two have the    *)
(* same port (client.cpp:58-98).                                           *)
NetTypeOK ==
  /\ running \in BOOLEAN
  /\ upc \in {"binding", "top", "receiving", "serving", "closed"}
  /\ Cardinality(hand) = IF upc = "serving" THEN 1 ELSE 0
  /\ losses \in 0..MaxLosses /\ slips \in 0..MaxSlips
  /\ mpc \in {"loading", "running", "done"}
  /\ cpc \in [Client -> {"none", "unborn", "request", "waiting", "answered", "done"}]
  /\ \A c \in Spawned : imsi[c] \in Imsi
  /\ \A c \in Client : cpc[c] = "waiting" <=> port[c] \in Port
  /\ \A c, d \in Client : port[c] = port[d] => c = d \/ port[c] = NoPort
  /\ again \in [Client -> BOOLEAN]
  /\ word \in [Client -> Words \cup {"none"}]
  /\ \A m \in answers : m.port \in Port /\ m.word \in Words

ClientInit ==
  /\ UdpInit
  /\ mpc = "loading"
  /\ cpc = [c \in Client |-> "none"]
  /\ imsi = [c \in Client |-> <<>>]
  /\ port = [c \in Client |-> NoPort]
  /\ again = [c \in Client |-> FALSE]
  /\ word = [c \in Client |-> "none"]

Goto(c, label) == cpc' = [cpc EXCEPT ![c] = label]

----------------------------------------------------------------------------
(* main: a file that cannot be read, or lacks a field, ends the program.   *)
LoadConfig ==
  /\ mpc = "loading"
  /\ \/ mpc' = "done" /\ UNCHANGED cpc
     \/ mpc' = "running" /\ \E wanted \in SUBSET Client :
          cpc' = [c \in Client |-> IF c \in wanted THEN "unborn" ELSE "none"]
  /\ UNCHANGED <<udpVars, netVars, imsi, port, again, word>>

(* run_multiple_clients, a turn of its first loop: generate_imsi, and a    *)
(* thread ...                                                              *)
Spawn(c) ==
  /\ mpc = "running" /\ cpc[c] = "unborn"
  /\ \E n \in Imsi : imsi' = [imsi EXCEPT ![c] = n]
  /\ Goto(c, "request")
  /\ UNCHANGED <<udpVars, netVars, mpc, port, again, word>>

(* ... and its second: all threads are joined.                             *)
Join ==
  /\ mpc = "running"
  /\ \A c \in Client : cpc[c] \in {"none", "done"}
  /\ mpc' = "done"
  /\ UNCHANGED <<udpVars, netVars, cpc, imsi, port, again, word>>

----------------------------------------------------------------------------
(* request_session: socket, inet_pton and sendto, each of which may fail.  *)
RequestFails(c) ==
  /\ cpc[c] = "request"
  /\ Goto(c, "done")
  /\ UNCHANGED <<udpVars, netVars, mpc, imsi, port, again, word>>

SendRequest(c) ==
  /\ cpc[c] = "request"
  /\ \E p \in Port \ {port[d] : d \in Client} :
       /\ port' = [port EXCEPT ![c] = p]
       /\ requests' = requests \cup {[port |-> p, bytes |-> imsi_to_bcd(imsi[c])]}
  /\ Goto(c, "waiting")
  /\ UNCHANGED <<udpVars, answers, losses, slips, mpc, imsi, again, word>>

Close(c) == port' = [port EXCEPT ![c] = NoPort]

(* Mutant: any answer that arrives is taken, whichever socket it is for.   *)
ReceiveAnswerMutant(c) ==
  /\ cpc[c] = "waiting"
  /\ \E m \in answers : /\ Take(m, answers)
                        /\ word' = [word EXCEPT ![c] = m.word]
  /\ Close(c)
  /\ Goto(c, IF again[c] THEN "done" ELSE "answered")
  /\ UNCHANGED <<udpVars, requests, losses, mpc, imsi, again>>

(* Mutant: the socket is left open.                                        *)
ReceiveAnswerLeakMutant(c) ==
  /\ cpc[c] = "waiting"
  /\ \E m \in answers : /\ m.port = port[c]
                        /\ Take(m, answers)
                        /\ word' = [word EXCEPT ![c] = m.word]
  /\ Goto(c, IF again[c] THEN "done" ELSE "answered")
  /\ UNCHANGED <<udpVars, requests, losses, mpc, imsi, port, again>>

(* recvfrom: any answer, "rejected" as well as "created", is a success.    *)
ReceiveAnswer(c) ==
  /\ cpc[c] = "waiting"
  /\ \E m \in answers : /\ m.port = port[c]
                        /\ Take(m, answers)
                        /\ word' = [word EXCEPT ![c] = m.word]
  /\ Close(c)
  /\ Goto(c, IF again[c] THEN "done" ELSE "answered")
  /\ UNCHANGED <<udpVars, requests, losses, mpc, imsi, again>>

(* recvfrom fails: the socket is closed with the answer still under way.   *)
ReceiveFails(c) ==
  /\ cpc[c] = "waiting" /\ Slip
  /\ Close(c) /\ Goto(c, "done")
  /\ UNCHANGED <<udpVars, requests, answers, losses, mpc, imsi, again, word>>

(* extend_session_multiple_times: one time in five, once more.             *)
Extend(c) ==
  /\ cpc[c] = "answered"
  /\ \/ Goto(c, "done") /\ UNCHANGED again
     \/ Goto(c, "request") /\ again' = [again EXCEPT ![c] = TRUE]
  /\ UNCHANGED <<udpVars, netVars, mpc, imsi, port, word>>

(* An answer to a port that nobody has open.                               *)
Drop ==
  /\ \E m \in answers : /\ \A c \in Client : port[c] # m.port
                        /\ answers' = answers \ {m}
  /\ UNCHANGED <<udpVars, requests, losses, slips, clientVars>>

----------------------------------------------------------------------------
Closed == upc = "closed" /\ UNCHANGED allVars

Main == LoadConfig \/ Join \/ \E c \in Client : Spawn(c)

Thread(c) == RequestFails(c) \/ SendRequest(c) \/ ReceiveAnswer(c) \/ Extend(c)

ClientNext ==
  \/ (UdpStep \/ ReceiveNothing \/ Stop \/ Lose) /\ UNCHANGED clientVars
  \/ Main \/ Drop \/ Closed
  \/ \E c \in Client : Thread(c) \/ ReceiveFails(c)

ClientSpec == ClientInit /\ [][ClientNext]_allVars

(* Both programs' threads run, and a recvfrom with a datagram waiting does *)
(* not fail for ever.  The network need deliver nothing.                   *)
FairClientSpec ==
  /\ ClientSpec
  /\ WF_allVars(UdpStep /\ UNCHANGED clientVars)
  /\ SF_allVars(Receive /\ UNCHANGED clientVars)
  /\ WF_allVars(Main)
  /\ \A c \in Client : WF_allVars(Thread(c))

----------------------------------------------------------------------------
(* Properties.                                                             *)

(* What a thread reads was said of its own number: "created" when it has   *)
(* been touched, "rejected" when it is refused.  Only a doubled datagram,  *)
(* or a socket closed before its answer came, can bring the answer to      *)
(* another thread that has been given the port next (client.cpp:83-98,     *)
(* udp_server.cpp:77-102).                                                 *)
AnswerIsMine ==
  slips = 0 =>
    \A c \in Client :
      /\ word[c] = "created" => imsi[c] \in touched
      /\ word[c] = "rejected" => imsi[c] \in Blacklist

(* No session for a number that nobody has asked for or that is refused,   *)
(* whatever happens to the datagrams (client.cpp:32-40, udp_server.cpp:    *)
(* 77-93).                                                                 *)
OnlyAskedTouched == touched \subseteq {imsi[c] : c \in Spawned} \ Blacklist

(* The client program comes to its end unless a datagram is lost or the    *)
(* server is not there (any more): nothing else keeps a thread waiting     *)
(* (client.cpp:83, 136-140).                                               *)
ClientFinishes ==
  mpc = "running" ~> (mpc = "done" \/ losses > 0 \/ ~running \/ upc = "closed")

====
