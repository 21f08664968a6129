---- MODULE PgwClientProofs ----
(***************************************************************************)
(* The client program and UdpServer, for any number of clients and ports,  *)
(* any numbers and blacklist, and any number of lost and doubled           *)
(* datagrams.                                                              *)
(***************************************************************************)
EXTENDS PgwClient, Integers, SequenceTheorems, FiniteSetTheorems, WellFoundedInduction,
        TLAPS

(* A request of the client at port p with number n, as a datagram.         *)
Request(p, n) == [port |-> p, bytes |-> imsi_to_bcd(n)]

(* The threads, their numbers and their sockets.                           *)
ClientOK ==
  /\ mpc \in {"loading", "running", "done"}
  /\ cpc \in [Client -> {"none", "unborn", "request", "waiting", "answered", "done"}]
  /\ mpc = "loading" => \A c \in Client : cpc[c] = "none"
  /\ imsi \in [Client -> Imsi \cup {<<>>}]
  /\ \A c \in Spawned : imsi[c] \in Imsi
  /\ port \in [Client -> Port \cup {NoPort}]
  /\ \A c \in Client : cpc[c] = "waiting" <=> port[c] \in Port
  /\ \A c, d \in Client : port[c] = port[d] => c = d \/ port[c] = NoPort
  /\ again \in [Client -> BOOLEAN]
  /\ word \in [Client -> Words \cup {"none"}]
  /\ \A c \in Client : word[c] # "none" => c \in Spawned

ServerOK ==
  /\ running \in BOOLEAN
  /\ upc \in {"binding", "top", "receiving", "serving", "closed"}
  /\ IF upc = "serving" THEN \E m : hand = {m} ELSE hand = {}
  /\ losses \in 0..MaxLosses /\ slips \in 0..MaxSlips

(* Whatever is under way to the server is somebody's request; whatever is  *)
(* under way to the clients is an answer.                                  *)
TrafficOK ==
  /\ \A m \in requests \cup hand : \E p \in Port, c \in Spawned : m = Request(p, imsi[c])
  /\ \A m \in answers : m.port \in Port /\ m.word \in Words

NetInv == ClientOK /\ ServerOK /\ TrafficOK /\ OnlyAskedTouched

(* An answer of word w to c says the truth.                                *)
Right(c, w) ==
  /\ w = "created" => imsi[c] \in touched
  /\ w = "rejected" => imsi[c] \in Blacklist

(* As long as nothing has been doubled and no socket closed early, every   *)
(* datagram under way is the only one of its port, and its port is open    *)
(* and belongs to the thread it is for.                                    *)
OwnedInv ==
  /\ \A m \in requests \cup hand :
       \E c \in Client : cpc[c] = "waiting" /\ m = Request(port[c], imsi[c])
  /\ \A m \in answers :
       \E c \in Client : cpc[c] = "waiting" /\ m.port = port[c] /\ Right(c, m.word)

SingleInv ==
  /\ \A m, n \in answers : m.port = n.port => m = n
  /\ \A m \in requests, n \in hand \cup answers : m.port # n.port
  /\ \A m \in hand, n \in answers : m.port # n.port

MineInv == slips = 0 => /\ OwnedInv /\ SingleInv
                        /\ \A c \in Client : Right(c, word[c])

----------------------------------------------------------------------------
(* Encoding and decoding a number.                                         *)

(* In place of an induction: a set of numbers has a least element.         *)
LEMMA LeastNumber ==
  ASSUME NEW T \in SUBSET Nat, T # {}
  PROVE  \E m \in T : \A k \in T : m <= k
<1>1. PICK m \in T : \A k \in T : ~(<<k, m>> \in OpToRel(<, Nat))
  BY NatLessThanWellFounded, WFMin, Zenon
<1>2. \A k \in T : ~(k < m)
  BY <1>1 DEF OpToRel
<1> QED  BY <1>2

LEMMA BcdBytes ==
  ASSUME NEW n \in Seq(Digit)
  PROVE  /\ imsi_to_bcd(n) \in Seq(Nat)
         /\ Len(imsi_to_bcd(n)) = (Len(n) + 1) \div 2
<1>1. Len(n) \in Nat /\ (Len(n) + 1) \div 2 \in Nat /\ \A k \in 1..Len(n) : n[k] \in Digit
  BY LenProperties, ElementOfSeq
<1>2. \A k \in 1..((Len(n) + 1) \div 2) :
        16 * (IF 2 * k <= Len(n) THEN n[2 * k] ELSE Filler) + n[2 * k - 1] \in Nat
  <2>1. SUFFICES ASSUME NEW k \in 1..((Len(n) + 1) \div 2)
                 PROVE 16 * (IF 2 * k <= Len(n) THEN n[2 * k] ELSE Filler) + n[2 * k - 1] \in Nat
    OBVIOUS
  <2>2. 2 * k - 1 \in 1..Len(n) /\ (2 * k <= Len(n) => 2 * k \in 1..Len(n))
    BY <1>1
  <2>3. PICK h \in 0..15 : h = IF 2 * k <= Len(n) THEN n[2 * k] ELSE Filler
    BY <1>1, <2>2 DEF Digit, Filler
  <2>4. PICK d \in 0..9 : d = n[2 * k - 1]
    BY <1>1, <2>2 DEF Digit
  <2>5. 16 * h + d \in Nat
    OBVIOUS
  <2> QED  BY <2>3, <2>4, <2>5
<1> QED  BY <1>1, <1>2, IsASeq DEF imsi_to_bcd

(* A byte is its two halves.                                               *)
LEMMA Halves ==
  ASSUME NEW h \in Nat, NEW d \in 0..15
  PROVE  (16 * h + d) % 16 = d /\ (16 * h + d) \div 16 = h
<1> DEFINE x == 16 * h + d
<1>1. x \in Nat
  OBVIOUS
<1>2. x % 16 = d
  OBVIOUS
<1>3. x \div 16 = h
  OBVIOUS
<1> QED  BY <1>2, <1>3

LEMMA BcdNibbles ==
  ASSUME NEW n \in Seq(Digit)
  PROVE  Nibbles(imsi_to_bcd(n)) =
           [j \in 1..(2 * ((Len(n) + 1) \div 2)) |-> IF j <= Len(n) THEN n[j] ELSE Filler]
<1> DEFINE L == Len(n)
           B == (Len(n) + 1) \div 2
           b == imsi_to_bcd(n)
<1>1. L \in Nat /\ B \in Nat /\ 2 * B \in {L, L + 1} /\ \A k \in 1..L : n[k] \in 0..9
  BY LenProperties, ElementOfSeq DEF Digit
<1>2. Len(b) = B
  BY BcdBytes
<1>3. \A k \in 1..B : b[k] = 16 * (IF 2 * k <= L THEN n[2 * k] ELSE 15) + n[2 * k - 1]
  BY DEF imsi_to_bcd, Filler
<1> HIDE DEF L, B, b
<1>4. ASSUME NEW j \in 1..(2 * B)
      PROVE  (IF j % 2 = 1 THEN b[(j + 1) \div 2] % 16 ELSE b[j \div 2] \div 16)
               = IF j <= L THEN n[j] ELSE 15
  <2>1. CASE j % 2 = 1
    <3>1. PICK k \in 1..B : j = 2 * k - 1 /\ (j + 1) \div 2 = k
      BY <1>1, <2>1
    <3>2. PICK d \in 0..9 : d = n[j] /\ j <= L
      BY <1>1, <3>1
    <3>3. PICK h \in 0..15 : h = IF 2 * k <= L THEN n[2 * k] ELSE 15
      <4>1. 2 * k <= L => n[2 * k] \in 0..9
        BY <1>1, <3>1
      <4> QED  BY <4>1
    <3>4. b[k] = 16 * h + d
      BY <1>3, <3>1, <3>2, <3>3
    <3>5. b[k] % 16 = d
      BY <3>4, Halves
    <3> QED  BY <2>1, <3>1, <3>2, <3>5
  <2>2. CASE j % 2 # 1
    <3>1. PICK k \in 1..B : j = 2 * k /\ j \div 2 = k
      BY <1>1, <2>2
    <3>2. PICK d \in 0..9 : d = n[2 * k - 1]
      BY <1>1, <3>1
    <3>3. PICK h \in 0..15 : h = IF j <= L THEN n[j] ELSE 15
      <4>1. j <= L => n[j] \in 0..9
        BY <1>1
      <4> QED  BY <4>1
    <3>4. b[k] = 16 * h + d
      BY <1>3, <3>1, <3>2, <3>3
    <3>5. b[k] \div 16 = h
      BY <3>4, Halves
    <3> QED  BY <2>2, <3>1, <3>3, <3>5
  <2> QED  BY <2>1, <2>2
<1> QED  BY <1>2, <1>4 DEF Nibbles, Filler, L, B, b

(* The number read from the first j halves is the number's beginning.      *)
LEMMA DecodingInverts ==
  ASSUME NEW n \in Seq(Digit)
  PROVE  DecodedImsi(imsi_to_bcd(n)) = n
<1> DEFINE L == Len(n)
           N == 2 * ((L + 1) \div 2)
           h == Nibbles(imsi_to_bcd(n))
           Turn(f) == [j \in 0..Len(h) |-> IF j = 0 THEN <<>>
                                           ELSE IF h[j] = Filler THEN f[j - 1]
                                           ELSE Append(f[j - 1], h[j])]
           read == CHOOSE f : f = Turn(f)
           part(j) == IF j <= L THEN SubSeq(n, 1, j) ELSE n
           parts == [j \in 0..N |-> part(j)]
<1>1. L \in Nat /\ N \in Nat /\ N \in {L, L + 1} /\ \A k \in 1..L : n[k] \in Digit
  BY LenProperties, ElementOfSeq
<1>2. h = [j \in 1..N |-> IF j <= L THEN n[j] ELSE Filler]
  BY BcdNibbles
<1>3. Len(h) = N
  BY <1>1, <1>2
<1>4. DecodedImsi(imsi_to_bcd(n)) = read[N]
  BY <1>3 DEF DecodedImsi
<1> HIDE DEF h, read, Turn, N, L
<1>5. ASSUME NEW j \in 1..N
      PROVE  /\ h[j] = Filler <=> j > L
             /\ j > L => part(j) = part(j - 1)
             /\ j <= L => part(j) = Append(part(j - 1), h[j])
  <2>1. CASE j <= L
    <3>1. h[j] = n[j] /\ n[j] \in Digit /\ j - 1 <= L /\ j - 1 \in Nat
      BY <1>1, <1>2, <2>1
    <3>2. SubSeq(n, 1, j) = SubSeq(n, 1, j - 1) \o <<n[j]>>
      BY <1>1, <2>1, SubSeqRecursiveSecond DEF L
    <3>3. SubSeq(n, 1, j - 1) \in Seq(Digit)
      BY <1>1, <2>1, SubSeqProperties
    <3>4. SubSeq(n, 1, j) = Append(SubSeq(n, 1, j - 1), n[j])
      BY <3>1, <3>2, <3>3, AppendIsConcat
    <3> QED  BY <1>1, <2>1, <3>1, <3>4 DEF Digit, Filler
  <2>2. CASE j > L
    <3>1. j - 1 = L /\ h[j] = Filler
      BY <1>1, <1>2, <2>2
    <3> QED  BY <1>1, <2>2, <3>1, SubSeqFull DEF L
  <2> QED  BY <1>1, <2>1, <2>2
<1>6. part(0) = <<>> /\ part(N) = n
  BY <1>1, SubSeqEmpty, SubSeqFull DEF L
<1> HIDE DEF part
<1>7. parts = Turn(parts)
  <2>1. ASSUME NEW j \in 0..N
        PROVE  parts[j] = IF j = 0 THEN <<>>
                          ELSE IF h[j] = Filler THEN parts[j - 1]
                          ELSE Append(parts[j - 1], h[j])
    <3>1. CASE j = 0
      BY <1>1, <1>6, <3>1
    <3>2. CASE j # 0
      <4>1. j \in 1..N /\ j - 1 \in 0..N
        BY <1>1, <3>2
      <4>2. parts[j] = part(j) /\ parts[j - 1] = part(j - 1)
        BY <4>1
      <4> HIDE DEF parts
      <4>3. CASE j <= L
        BY <1>1, <1>5, <3>2, <4>1, <4>2, <4>3
      <4>4. CASE j > L
        BY <1>1, <1>5, <3>2, <4>1, <4>2, <4>4
      <4> QED  BY <1>1, <4>3, <4>4
    <3> QED  BY <3>1, <3>2
  <2> QED  BY <1>3, <2>1 DEF Turn
<1>8. read = Turn(read)
  BY <1>7 DEF read
<1>9. \A j \in 0..N : read[j] = part(j)
  <2> DEFINE wrong == {j \in 0..N : read[j] # part(j)}
  <2>1. SUFFICES ASSUME wrong # {} PROVE FALSE
    OBVIOUS
  <2>2. wrong \in SUBSET Nat
    OBVIOUS
  <2>3. PICK j \in wrong : \A k \in wrong : j <= k
    BY <2>1, <2>2, LeastNumber
  <2>4. read[j] = IF j = 0 THEN <<>>
                  ELSE IF h[j] = Filler THEN read[j - 1] ELSE Append(read[j - 1], h[j])
    BY <1>3, <1>8, <2>3 DEF Turn
  <2>5. j # 0
    BY <1>6, <2>3, <2>4
  <2>6. j \in 1..N /\ j - 1 \in 0..N /\ read[j - 1] = part(j - 1)
    BY <1>1, <2>3, <2>5
  <2>7. read[j] = part(j)
    <3>1. CASE j <= L
      BY <1>1, <1>5, <2>4, <2>5, <2>6, <3>1
    <3>2. CASE j > L
      BY <1>1, <1>5, <2>4, <2>5, <2>6, <3>2
    <3> QED  BY <1>1, <2>6, <3>1, <3>2
  <2> QED  BY <2>3, <2>7
<1>10. N \in 0..N
  BY <1>1
<1> QED  BY <1>4, <1>6, <1>9, <1>10

(* A datagram fits the buffer when it carries at most two digits a byte of *)
(* it.                                                                     *)
LEMMA ReceivedWhole ==
  ASSUME NEW n \in Seq(Digit), NEW size \in Nat, Len(n) <= 2 * size
  PROVE  Received(imsi_to_bcd(n), size) = imsi_to_bcd(n)
<1> DEFINE b == imsi_to_bcd(n)
<1>1. b \in Seq(Nat) /\ Len(b) = (Len(n) + 1) \div 2 /\ Len(n) \in Nat
  BY BcdBytes, LenProperties
<1>2. Len(b) \in Nat /\ Len(b) <= size
  BY <1>1
<1> HIDE DEF b
<1>3. (IF Len(b) < size THEN Len(b) ELSE size) = Len(b)
  BY <1>2
<1>4. SubSeq(b, 1, Len(b)) = b
  BY <1>1, SubSeqFull
<1>5. Received(b, size) = b
  BY <1>3, <1>4 DEF Received
<1> QED  BY <1>5 DEF b

(* The server reads the number that the client has written, be its digits  *)
(* even or odd in number, unless there are more than its buffer holds      *)
(* (client.cpp:32-50, udp_server.cpp:67-81).                               *)
THEOREM DecodingInvertsEncoding ==
  ASSUME NEW n \in Seq(Digit), NEW size \in Nat, Len(n) <= 2 * size
  PROVE  DecodedImsi(Received(imsi_to_bcd(n), size)) = n
BY ReceivedWhole, DecodingInverts

----------------------------------------------------------------------------
(* The threads of the client.                                              *)

LEMMA NumberArrives ==
  ASSUME NEW n \in Imsi
  PROVE  /\ Received(imsi_to_bcd(n), BufSize) = imsi_to_bcd(n)
         /\ DecodedImsi(imsi_to_bcd(n)) = n
BY ClientAssumption, ReceivedWhole, DecodingInverts

LEMMA ClientOnly ==
  ASSUME ClientOK, TrafficOK, [ClientNext]_allVars
  PROVE  ClientOK'
<1> USE ClientAssumption
<1>1. CASE UNCHANGED clientVars
  BY <1>1 DEF ClientOK, clientVars, Spawned
<1>2. CASE LoadConfig
  BY <1>2 DEF LoadConfig, ClientOK, Spawned
<1>3. ASSUME NEW c \in Client, Spawn(c) PROVE ClientOK'
  BY <1>3 DEF Spawn, Goto, ClientOK, Spawned
<1>4. CASE Join
  BY <1>4 DEF Join, ClientOK, Spawned
<1>5. ASSUME NEW c \in Client, RequestFails(c) \/ Extend(c) PROVE ClientOK'
  BY <1>5 DEF RequestFails, Extend, Goto, ClientOK, Spawned
<1>6. ASSUME NEW c \in Client, SendRequest(c) PROVE ClientOK'
  BY <1>6 DEF SendRequest, Goto, ClientOK, Spawned
<1>7. ASSUME NEW c \in Client, ReceiveAnswer(c) PROVE ClientOK'
  BY <1>7 DEF ReceiveAnswer, Close, Goto, ClientOK, TrafficOK, Spawned
<1>8. ASSUME NEW c \in Client, ReceiveFails(c) PROVE ClientOK'
  BY <1>8 DEF ReceiveFails, Close, Goto, ClientOK, Spawned
<1>9. CASE Drop \/ Closed \/ UNCHANGED allVars
  BY <1>1, <1>9 DEF Drop, Closed, allVars
<1> QED  BY <1>1, <1>2, <1>3, <1>4, <1>5, <1>6, <1>7, <1>8, <1>9 DEF ClientNext, Main, Thread

LEMMA ServerOnly ==
  ASSUME ServerOK, [ClientNext]_allVars
  PROVE  ServerOK' /\ slips' \in {slips, slips + 1}
<1> USE ClientAssumption
<1>0. UNCHANGED slips \/ Slip => slips' \in 0..MaxSlips /\ slips' \in {slips, slips + 1}
  BY DEF Slip, ServerOK
<1>1. CASE UNCHANGED <<udpVars, losses, slips>>
  BY <1>1 DEF ServerOK, udpVars
<1>2. CASE Bind \/ Top \/ ReceiveNothing \/ Stop
  BY <1>2 DEF Bind, Top, ReceiveNothing, Stop, ServerOK, netVars
<1>3. CASE Receive
  <2>1. upc' = "serving" /\ UNCHANGED <<running, losses>> /\ \E m : hand' = {m}
    BY <1>3 DEF Receive
  <2>2. UNCHANGED slips \/ Slip
    BY <1>3 DEF Receive, Take
  <2> QED  BY <1>0, <2>1, <2>2 DEF ServerOK
<1>4. CASE Serve
  BY <1>4 DEF Serve, Lost, ServerOK
<1>5. CASE Lose
  BY <1>5 DEF Lose, Lost, ServerOK, udpVars
<1>6. ASSUME NEW c \in Client, ReceiveAnswer(c) \/ ReceiveFails(c)
      PROVE  ServerOK' /\ slips' \in {slips, slips + 1}
  <2>1. UNCHANGED slips \/ Slip
    BY <1>6 DEF ReceiveAnswer, ReceiveFails, Take
  <2>2. UNCHANGED <<udpVars, losses>>
    BY <1>6 DEF ReceiveAnswer, ReceiveFails
  <2> QED  BY <1>0, <2>1, <2>2 DEF ServerOK, udpVars
<1>7. CASE Main \/ Drop \/ Closed \/ UNCHANGED allVars
           \/ \E c \in Client : RequestFails(c) \/ SendRequest(c) \/ Extend(c)
  BY <1>1, <1>7 DEF Main, LoadConfig, Join, Spawn, Drop, Closed, allVars, netVars,
                    RequestFails, SendRequest, Extend
<1> QED  BY <1>1, <1>2, <1>3, <1>4, <1>5, <1>6, <1>7 DEF ClientNext, UdpStep, Thread

(* A thread keeps the number it was given.                                 *)
LEMMA SpawnedStay ==
  ASSUME ClientOK, [ClientNext]_allVars, NEW c \in Spawned
  PROVE  c \in Spawned' /\ imsi'[c] = imsi[c]
<1>1. CASE UNCHANGED <<cpc, imsi>>
  BY <1>1 DEF Spawned
<1>2. CASE LoadConfig
  BY <1>2 DEF LoadConfig, ClientOK, Spawned
<1>3. ASSUME NEW d \in Client, Spawn(d) PROVE c \in Spawned' /\ imsi'[c] = imsi[c]
  BY <1>3 DEF Spawn, Goto, ClientOK, Spawned
<1>4. ASSUME NEW d \in Client, Thread(d) \/ ReceiveFails(d)
      PROVE  c \in Spawned' /\ imsi'[c] = imsi[c]
  <2>1. UNCHANGED imsi /\ \E l : l \notin {"none", "unborn"} /\ Goto(d, l)
    BY <1>4 DEF Thread, RequestFails, SendRequest, ReceiveAnswer, Extend, ReceiveFails
  <2> QED  BY <2>1 DEF Goto, ClientOK, Spawned
<1> QED  BY <1>1, <1>2, <1>3, <1>4 DEF ClientNext, Main, Join, Drop, Closed, allVars, clientVars

(* A datagram that the server takes fits its buffer.                       *)
LEMMA ReceivedIsSent ==
  ASSUME NetInv, Receive
  PROVE  \E m \in requests : Take(m, requests) /\ hand' = {m}
<1>1. PICK m \in requests : /\ Take(m, requests)
                            /\ hand' = {[m EXCEPT !.bytes = Received(@, BufSize)]}
  BY DEF Receive
<1>2. PICK p \in Port, c \in Spawned : m = Request(p, imsi[c])
  BY DEF NetInv, TrafficOK
<1>3. imsi[c] \in Imsi
  BY DEF NetInv, ClientOK
<1>4. [m EXCEPT !.bytes = Received(@, BufSize)] = m
  BY <1>2, <1>3, NumberArrives DEF Request
<1> QED  BY <1>1, <1>4

(* The answer is about the number of the thread that has asked.            *)
LEMMA ServesItsNumber ==
  ASSUME NetInv, Serve
  PROVE  \E p \in Port, c \in Spawned :
           LET w == IF imsi[c] \in Blacklist THEN "rejected" ELSE "created" IN
           /\ hand = {Request(p, imsi[c])} /\ hand' = {} /\ UNCHANGED <<requests, slips>>
           /\ touched' = IF imsi[c] \in Blacklist THEN touched ELSE touched \cup {imsi[c]}
           /\ answers' \in {answers, answers \cup {[port |-> p, word |-> w]}}
<1>1. PICK m \in hand : LET n == DecodedImsi(m.bytes) IN
        /\ touched' = IF is_blocked(n) THEN touched ELSE touched \cup {n}
        /\ \/ answers' = answers \cup {[port |-> m.port, word |->
                               IF is_blocked(n) THEN "rejected" ELSE "created"]}
           \/ UNCHANGED answers
  BY DEF Serve
<1>2. hand = {m}
  BY DEF NetInv, ServerOK, Serve
<1>3. PICK p \in Port, c \in Spawned : m = Request(p, imsi[c])
  BY DEF NetInv, TrafficOK
<1>4. imsi[c] \in Imsi
  BY DEF NetInv, ClientOK
<1>5. m.port = p /\ DecodedImsi(m.bytes) = imsi[c]
  BY <1>3, <1>4, NumberArrives DEF Request
<1>6. hand' = {} /\ UNCHANGED <<requests, slips>>
  BY DEF Serve
<1> QED  BY <1>1, <1>2, <1>3, <1>5, <1>6 DEF is_blocked

LEMMA SendsItsNumber ==
  ASSUME ClientOK, NEW c \in Client, SendRequest(c)
  PROVE  \E p \in Port :
           /\ \A d \in Client : port[d] # p
           /\ port' = [port EXCEPT ![c] = p] /\ cpc' = [cpc EXCEPT ![c] = "waiting"]
           /\ requests' = requests \cup {Request(p, imsi[c])}
           /\ c \in Spawned
           /\ UNCHANGED <<hand, answers, touched, slips, imsi, word>>
BY DEF SendRequest, Request, Goto, Spawned, udpVars

LEMMA TrafficOnly ==
  ASSUME NetInv, [ClientNext]_allVars
  PROVE  TrafficOK' /\ OnlyAskedTouched'
<1> DEFINE Asked == {imsi[c] : c \in Spawned}
<1>0. \A c \in Spawned : c \in Spawned' /\ imsi'[c] = imsi[c]
  BY SpawnedStay DEF NetInv
<1>1. Asked \subseteq Asked'
  BY <1>0
<1>2. ASSUME requests' \cup hand' \subseteq requests \cup hand,
             answers' \subseteq answers, UNCHANGED touched
      PROVE  TrafficOK' /\ OnlyAskedTouched'
  BY <1>0, <1>1, <1>2 DEF NetInv, TrafficOK, OnlyAskedTouched
<1>3. CASE Receive
  <2>1. requests' \subseteq requests /\ UNCHANGED <<answers, touched>>
    BY <1>3 DEF Receive, Take
  <2> QED  BY <1>2, <1>3, <2>1, ReceivedIsSent
<1>4. CASE Serve
  <2>1. PICK p \in Port, c \in Spawned :
          /\ hand' = {} /\ UNCHANGED requests
          /\ touched' = IF imsi[c] \in Blacklist THEN touched ELSE touched \cup {imsi[c]}
          /\ answers' \in {answers, answers \cup {[port |-> p, word |->
                               IF imsi[c] \in Blacklist THEN "rejected" ELSE "created"]}}
    BY <1>4, ServesItsNumber
  <2>2. TrafficOK'
    BY <1>0, <2>1 DEF NetInv, TrafficOK, Words
  <2>3. OnlyAskedTouched'
    BY <1>1, <2>1 DEF NetInv, OnlyAskedTouched
  <2> QED  BY <2>2, <2>3
<1>5. ASSUME NEW c \in Client, SendRequest(c) PROVE TrafficOK' /\ OnlyAskedTouched'
  <2>1. PICK p \in Port : /\ requests' = requests \cup {Request(p, imsi[c])}
                          /\ c \in Spawned /\ UNCHANGED <<hand, answers, touched>>
    BY <1>5, SendsItsNumber DEF NetInv
  <2>2. TrafficOK'
    BY <1>0, <2>1 DEF NetInv, TrafficOK
  <2>3. OnlyAskedTouched'
    BY <1>1, <2>1 DEF NetInv, OnlyAskedTouched
  <2> QED  BY <2>2, <2>3
<1>6. ASSUME NEW c \in Client, ReceiveAnswer(c) PROVE TrafficOK' /\ OnlyAskedTouched'
  BY <1>2, <1>6 DEF ReceiveAnswer, Take, udpVars
<1>7. CASE Lose \/ Drop
  BY <1>2, <1>7 DEF Lose, Drop, udpVars
<1>8. CASE UNCHANGED <<hand, touched, requests, answers>>
  BY <1>2, <1>8
<1>9. CASE Bind \/ Top \/ ReceiveNothing \/ Stop \/ Main \/ Closed \/ UNCHANGED allVars
           \/ \E c \in Client : RequestFails(c) \/ Extend(c) \/ ReceiveFails(c)
  BY <1>8, <1>9 DEF Bind, Top, ReceiveNothing, Stop, Main, LoadConfig, Spawn, Join, Closed,
                    RequestFails, Extend, ReceiveFails, allVars, udpVars, netVars
<1> QED  BY <1>3, <1>4, <1>5, <1>6, <1>7, <1>9 DEF ClientNext, UdpStep, Thread

LEMMA InitNet == ClientInit => NetInv
<1> SUFFICES ASSUME ClientInit PROVE NetInv
  OBVIOUS
<1>1. ClientOK
  BY ClientAssumption DEF ClientInit, ClientOK, Spawned
<1>2. ServerOK
  BY ClientAssumption DEF ClientInit, UdpInit, ServerOK
<1>3. TrafficOK /\ OnlyAskedTouched
  BY DEF ClientInit, UdpInit, TrafficOK, OnlyAskedTouched
<1> QED  BY <1>1, <1>2, <1>3 DEF NetInv

LEMMA NetInvariant == ClientSpec => []NetInv
<1>1. NetInv /\ [ClientNext]_allVars => NetInv'
  BY ClientOnly, ServerOnly, TrafficOnly DEF NetInv
<1> QED  BY <1>1, InitNet, PTL DEF ClientSpec

(* A thread has a socket while it waits and at no other time, no two       *)
(* sockets have the same port, and the server has a datagram at hand       *)
(* exactly while it serves one, whatever the network loses or doubles.     *)
THEOREM NetTypeCorrect == ClientSpec => []NetTypeOK
<1>1. NetInv => NetTypeOK
  <2>1. SUFFICES ASSUME NetInv PROVE NetTypeOK
    OBVIOUS
  <2>2. Cardinality(hand) = IF upc = "serving" THEN 1 ELSE 0
    <3>1. Cardinality({}) = 0 /\ \A m : Cardinality({m}) = 1
      BY FS_EmptySet, FS_Singleton
    <3> QED  BY <2>1, <3>1 DEF NetInv, ServerOK
  <2> QED  BY <2>1, <2>2 DEF NetInv, ClientOK, ServerOK, TrafficOK, NetTypeOK
<1> QED  BY <1>1, NetInvariant, PTL

(* Nobody but a subscriber of the client program has a session, and no     *)
(* refused one, whatever happens to the datagrams (client.cpp:32-40,       *)
(* udp_server.cpp:77-93).                                                  *)
THEOREM OnlyAskedAreTouched == ClientSpec => []OnlyAskedTouched
<1>1. NetInv => OnlyAskedTouched
  BY DEF NetInv
<1> QED  BY <1>1, NetInvariant, PTL

----------------------------------------------------------------------------
(* Whose datagrams are under way.                                          *)

(* Datagrams and verdicts only get fewer and more, and whoever waits, or   *)
(* has read an answer, stays as it is.                                     *)
LEMMA QuietMine ==
  ASSUME MineInv, slips' = 0 => slips = 0,
         requests' \subseteq requests, hand' \subseteq hand, answers' \subseteq answers,
         touched \subseteq touched', UNCHANGED word,
         \A c \in Client : cpc[c] = "waiting" =>
           cpc'[c] = "waiting" /\ port'[c] = port[c] /\ imsi'[c] = imsi[c],
         \A c \in Client : word[c] # "none" => imsi'[c] = imsi[c]
  PROVE  MineInv'
<1> SUFFICES ASSUME slips = 0
             PROVE  OwnedInv' /\ SingleInv' /\ \A c \in Client : Right(c, word[c])'
  BY DEF MineInv
<1>1. OwnedInv /\ SingleInv /\ \A c \in Client : Right(c, word[c])
  BY DEF MineInv
<1>2. OwnedInv'
  BY <1>1 DEF OwnedInv, Right
<1>3. SingleInv'
  BY <1>1 DEF SingleInv
<1>4. \A c \in Client : Right(c, word[c])'
  BY <1>1 DEF Right
<1> QED  BY <1>2, <1>3, <1>4

LEMMA MineOnly ==
  ASSUME NetInv, MineInv, [ClientNext]_allVars
  PROVE  MineInv'
<1>0. slips \in Nat /\ slips' \in {slips, slips + 1} /\ ClientOK
  <2>1. ClientOK /\ ServerOK
    BY DEF NetInv
  <2>2. slips \in Nat
    BY <2>1, ClientAssumption DEF ServerOK
  <2> QED  BY <2>1, <2>2, ServerOnly
<1> DEFINE Truth == \A c \in Client : Right(c, word[c])
<1>a. slips' = 0 => slips = 0 /\ OwnedInv /\ SingleInv /\ Truth
  BY <1>0 DEF MineInv
<1> HIDE DEF Truth
<1>1. CASE \/ (Bind \/ Top \/ ReceiveNothing \/ Stop \/ Lose) /\ UNCHANGED clientVars
           \/ Join \/ Closed \/ Drop \/ UNCHANGED allVars
  <2>1. UNCHANGED <<cpc, imsi, port, word, touched>>
    BY <1>1 DEF Bind, Top, ReceiveNothing, Stop, Lose, Join, Closed, Drop, allVars, udpVars,
                clientVars
  <2>2. requests' \subseteq requests /\ hand' \subseteq hand /\ answers' \subseteq answers
    BY <1>1 DEF Bind, Top, ReceiveNothing, Stop, Lose, Join, Closed, Drop, allVars, udpVars,
                netVars
  <2> QED  BY <1>0, <2>1, <2>2, QuietMine
<1>2. CASE LoadConfig
  <2>1. \A c \in Client : cpc[c] # "waiting"
    BY <1>0, <1>2 DEF LoadConfig, ClientOK
  <2> QED  BY <1>0, <1>2, <2>1, QuietMine DEF LoadConfig, udpVars, netVars
<1>3. ASSUME NEW c \in Client, Spawn(c) PROVE MineInv'
  <2>1. \A d \in Client : cpc[d] = "waiting" =>
          cpc'[d] = "waiting" /\ port'[d] = port[d] /\ imsi'[d] = imsi[d]
    BY <1>0, <1>3 DEF Spawn, Goto, ClientOK
  <2>2. \A d \in Client : word[d] # "none" => imsi'[d] = imsi[d]
    BY <1>0, <1>3 DEF Spawn, ClientOK, Spawned
  <2> QED  BY <1>0, <1>3, <2>1, <2>2, QuietMine DEF Spawn, udpVars, netVars
<1>4. ASSUME NEW c \in Client, RequestFails(c) \/ Extend(c) PROVE MineInv'
  <2>1. \A d \in Client : cpc[d] = "waiting" => cpc'[d] = "waiting"
    BY <1>0, <1>4 DEF RequestFails, Extend, Goto, ClientOK
  <2> QED  BY <1>0, <1>4, <2>1, QuietMine DEF RequestFails, Extend, udpVars, netVars
<1>5. CASE Receive /\ UNCHANGED clientVars
  <2>1. SUFFICES ASSUME slips' = 0 PROVE OwnedInv' /\ SingleInv' /\ Truth'
    BY DEF MineInv, Truth
  <2>2. UNCHANGED <<cpc, imsi, port, word, touched, answers>>
    BY <1>5 DEF Receive, clientVars
  <2>3. PICK m \in requests : requests' = requests \ {m} /\ hand' = {m}
    BY <1>0, <1>5, <2>1, ReceivedIsSent DEF Take, Slip
  <2>4. OwnedInv'
    BY <1>a, <2>1, <2>2, <2>3 DEF OwnedInv, Right
  <2>5. \A n \in requests : n.port = m.port => n = m
    <3>1. SUFFICES ASSUME NEW n \in requests, n.port = m.port PROVE n = m
      OBVIOUS
    <3>2. PICK d \in Client : cpc[d] = "waiting" /\ n = Request(port[d], imsi[d])
      BY <1>a, <2>1 DEF OwnedInv
    <3>3. PICK e \in Client : cpc[e] = "waiting" /\ m = Request(port[e], imsi[e])
      BY <1>a, <2>1 DEF OwnedInv
    <3>4. port[d] = port[e] /\ port[d] \in Port
      BY <1>0, <3>1, <3>2, <3>3 DEF Request, ClientOK
    <3> QED  BY <1>0, <3>2, <3>3, <3>4, ClientAssumption DEF ClientOK
  <2>6. SingleInv'
    BY <1>a, <2>1, <2>2, <2>3, <2>5 DEF SingleInv
  <2> QED  BY <1>a, <2>1, <2>2, <2>4, <2>6 DEF Truth, Right
<1>6. CASE Serve /\ UNCHANGED clientVars
  <2>1. SUFFICES ASSUME slips' = 0 PROVE OwnedInv' /\ SingleInv' /\ Truth'
    BY DEF MineInv, Truth
  <2>2. UNCHANGED <<cpc, imsi, port, word, requests>>
    BY <1>6 DEF Serve, clientVars
  <2>3. PICK p \in Port, c \in Spawned :
          LET w == IF imsi[c] \in Blacklist THEN "rejected" ELSE "created" IN
          /\ hand = {Request(p, imsi[c])} /\ hand' = {}
          /\ touched' = IF imsi[c] \in Blacklist THEN touched ELSE touched \cup {imsi[c]}
          /\ answers' \in {answers, answers \cup {[port |-> p, word |-> w]}}
    BY <1>6, ServesItsNumber
  <2>4. PICK w : /\ w = IF imsi[c] \in Blacklist THEN "rejected" ELSE "created"
                 /\ answers' \in {answers, answers \cup {[port |-> p, word |-> w]}}
    BY <2>3
  <2>5. PICK d \in Client : cpc[d] = "waiting" /\ port[d] = p /\ imsi[d] = imsi[c]
    <3>1. PICK d \in Client : /\ cpc[d] = "waiting"
                              /\ Request(p, imsi[c]) = Request(port[d], imsi[d])
      BY <1>a, <2>1, <2>3 DEF OwnedInv
    <3>2. port[d] = p /\ imsi_to_bcd(imsi[d]) = imsi_to_bcd(imsi[c])
      BY <3>1 DEF Request
    <3>3. imsi[c] \in Imsi /\ imsi[d] \in Imsi
      BY <1>0, <3>1 DEF ClientOK, Spawned
    <3> QED  BY <3>1, <3>2, <3>3, NumberArrives
  <2>6. \A e \in Client : \A v : Right(e, v) => Right(e, v)'
    BY <2>2, <2>3 DEF Right
  <2>7. Right(d, w)'
    BY <2>2, <2>3, <2>4, <2>5 DEF Right
  <2>8. OwnedInv'
    <3>1. \A m \in requests' \cup hand' :
            \E e \in Client : cpc'[e] = "waiting" /\ m = Request(port'[e], imsi'[e])
      BY <1>a, <2>1, <2>2, <2>3 DEF OwnedInv
    <3>2. \A m \in answers' :
            \E e \in Client : cpc'[e] = "waiting" /\ m.port = port'[e] /\ Right(e, m.word)'
      BY <1>a, <2>1, <2>2, <2>4, <2>5, <2>6, <2>7 DEF OwnedInv
    <3> QED  BY <3>1, <3>2 DEF OwnedInv
  <2>9. SingleInv'
    <3>1. \A a \in answers : a.port # p
      BY <1>a, <2>1, <2>3 DEF SingleInv, Request
    <3>2. \A m \in requests : m.port # p /\ \A a \in answers : m.port # a.port
      <4>1. \A m \in requests, n \in hand \cup answers : m.port # n.port
        BY <1>a, <2>1 DEF SingleInv
      <4>2. Request(p, imsi[c]) \in hand /\ Request(p, imsi[c]).port = p
        BY <2>3 DEF Request
      <4> QED  BY <4>1, <4>2
    <3>3. \A a \in answers' : a \in answers \/ a = [port |-> p, word |-> w]
      BY <2>4
    <3>4. \A a, b \in answers' : a.port = b.port => a = b
      BY <1>a, <2>1, <3>1, <3>3 DEF SingleInv
    <3>5. \A m \in requests', a \in hand' \cup answers' : m.port # a.port
      BY <2>2, <2>3, <3>2, <3>3
    <3> QED  BY <2>3, <3>4, <3>5 DEF SingleInv
  <2>10. Truth'
    BY <1>a, <2>1, <2>2, <2>6 DEF Truth
  <2> QED  BY <2>8, <2>9, <2>10
<1>7. ASSUME NEW c \in Client, SendRequest(c) PROVE MineInv'
  <2>1. SUFFICES ASSUME slips' = 0 PROVE OwnedInv' /\ SingleInv' /\ Truth'
    BY DEF MineInv, Truth
  <2>2. PICK p \in Port :
          /\ \A d \in Client : port[d] # p
          /\ port' = [port EXCEPT ![c] = p] /\ cpc' = [cpc EXCEPT ![c] = "waiting"]
          /\ requests' = requests \cup {Request(p, imsi[c])}
          /\ UNCHANGED <<hand, answers, touched, slips, imsi, word>>
    BY <1>0, <1>7, SendsItsNumber
  <2>3. /\ cpc[c] # "waiting" /\ cpc'[c] = "waiting" /\ port'[c] = p
        /\ \A d \in Client \ {c} : cpc'[d] = cpc[d] /\ port'[d] = port[d]
    BY <1>0, <1>7, <2>2 DEF SendRequest, ClientOK
  <2>4. OwnedInv'
    BY <1>a, <2>1, <2>2, <2>3 DEF OwnedInv, Right
  <2>5. \A m \in requests \cup hand \cup answers : m.port # p
    BY <1>a, <2>1, <2>2 DEF OwnedInv, Request
  <2>6. SingleInv'
    BY <1>a, <2>1, <2>2, <2>5 DEF SingleInv, Request
  <2> QED  BY <1>a, <2>1, <2>2, <2>4, <2>6 DEF Truth, Right
<1>8. ASSUME NEW c \in Client, ReceiveAnswer(c) PROVE MineInv'
  <2>1. SUFFICES ASSUME slips' = 0 PROVE OwnedInv' /\ SingleInv' /\ Truth'
    BY DEF MineInv, Truth
  <2>2. PICK a \in answers : /\ a.port = port[c] /\ answers' = answers \ {a}
                             /\ word' = [word EXCEPT ![c] = a.word]
    <3>1. PICK a \in answers : /\ a.port = port[c] /\ Take(a, answers)
                               /\ word' = [word EXCEPT ![c] = a.word]
      BY <1>8 DEF ReceiveAnswer
    <3>2. ~Slip
      BY <1>0, <2>1 DEF Slip
    <3> QED  BY <3>1, <3>2 DEF Take
  <2>3. /\ UNCHANGED <<hand, touched, requests, imsi>> /\ cpc[c] = "waiting"
        /\ \A d \in Client \ {c} : cpc'[d] = cpc[d] /\ port'[d] = port[d] /\ word'[d] = word[d]
        /\ word'[c] = a.word
    BY <1>0, <1>8, <2>2 DEF ReceiveAnswer, Close, Goto, udpVars, ClientOK
  <2>4. Right(c, a.word)
    <3>1. PICK d \in Client : /\ cpc[d] = "waiting" /\ a.port = port[d]
                              /\ Right(d, a.word)
      BY <1>a, <2>1, <2>2 DEF OwnedInv
    <3>2. port[d] = port[c] /\ port[c] \in Port
      BY <1>0, <2>2, <2>3, <3>1 DEF ClientOK
    <3> QED  BY <1>0, <3>1, <3>2, ClientAssumption DEF ClientOK
  <2>5. OwnedInv'
    <3>1. \A m \in requests \cup hand \cup (answers \ {a}) : m.port # port[c]
      BY <1>a, <2>1, <2>2 DEF SingleInv
    <3>2. \A d, n : Request(port[d], n).port = port[d]
      BY DEF Request
    <3> QED  BY <1>a, <2>1, <2>2, <2>3, <3>1, <3>2 DEF OwnedInv, Right
  <2>6. SingleInv'
    BY <1>a, <2>1, <2>2, <2>3 DEF SingleInv
  <2>7. Truth'
    BY <1>a, <2>1, <2>2, <2>3, <2>4 DEF Truth, Right
  <2> QED  BY <2>5, <2>6, <2>7
<1>9. ASSUME NEW c \in Client, ReceiveFails(c) PROVE MineInv'
  <2>1. slips' # 0
    BY <1>0, <1>9 DEF ReceiveFails, Slip
  <2> QED  BY <2>1 DEF MineInv
<1> QED  BY <1>1, <1>2, <1>3, <1>4, <1>5, <1>6, <1>7, <1>8, <1>9
         DEF ClientNext, UdpStep, Main, Thread

LEMMA InitMine == ClientInit => MineInv
BY DEF ClientInit, UdpInit, MineInv, OwnedInv, SingleInv, Right

(* What a thread reads was said of its own number, as long as nothing is   *)
(* doubled and no socket closed before its answer has come: each request   *)
(* then has at most one answer, and its socket is open until it is read    *)
(* (client.cpp:58-98, udp_server.cpp:77-102).                              *)
THEOREM AnswersAreMine == ClientSpec => []AnswerIsMine
<1>1. NetInv /\ MineInv /\ [ClientNext]_allVars => MineInv'
  BY MineOnly
<1>2. MineInv => AnswerIsMine
  BY DEF MineInv, AnswerIsMine, Right
<1> QED  BY <1>1, <1>2, InitMine, NetInvariant, PTL DEF ClientSpec

====
