---- MODULE CdrWriterProofs ----
(***************************************************************************)
(* For every set of producers and records and every bound: CdrWriter is    *)
(* type-correct, loses, doubles and reorders nothing between write() and   *)
(* the file while the stream is good, and implements the safety part of    *)
(* CdrLog.                                                                 *)
(***************************************************************************)
EXTENDS CdrWriter, SequenceTheorems, TLAPS

(* What NothingLost needs to be inductive, and the refinement besides: the *)
(* stream cannot have failed before the file was opened.                   *)
IInv == TypeOK /\ NothingLost /\ (wpc = "open" => good)

(* A push at the end of the queue is a push at the end of what was         *)
(* accepted.                                                               *)
LEMMA AppendToConcat ==
  ASSUME NEW s \in Seq(Record), NEW q \in Seq(Record), NEW r \in Record
  PROVE  Append(s \o q, r) = s \o Append(q, r)
<1> DEFINE q1 == Append(q, r)
<1>1. /\ q1 \in Seq(Record) /\ Len(q1) = Len(q) + 1
      /\ \A i \in 1..Len(q) : q1[i] = q[i]
      /\ q1[Len(q) + 1] = r
  OBVIOUS
<1>2. /\ s \o q \in Seq(Record) /\ Len(s \o q) = Len(s) + Len(q)
      /\ \A i \in 1..Len(s) + Len(q) :
           (s \o q)[i] = IF i <= Len(s) THEN s[i] ELSE q[i - Len(s)]
  BY ConcatProperties
<1> HIDE DEF q1
<1>3. /\ s \o q1 \in Seq(Record) /\ Len(s \o q1) = Len(s) + Len(q1)
      /\ \A i \in 1..Len(s) + Len(q1) :
           (s \o q1)[i] = IF i <= Len(s) THEN s[i] ELSE q1[i - Len(s)]
  BY <1>1, ConcatProperties
<1> DEFINE t == s \o q
           u == s \o q1
<1>4. t \in Seq(Record) /\ u \in Seq(Record) /\ Len(u) = Len(t) + 1 /\ u[Len(t) + 1] = r
  BY <1>1, <1>2, <1>3
<1>5. \A i \in 1..Len(t) : u[i] = t[i]
  BY <1>1, <1>2, <1>3
<1> HIDE DEF t, u
<1>6. /\ Append(t, r) \in Seq(Record) /\ Len(Append(t, r)) = Len(u)
      /\ \A i \in 1..Len(u) : Append(t, r)[i] = u[i]
  BY <1>4, <1>5
<1>7. Append(t, r) = u
  BY <1>4, <1>6, SeqEqual
<1> QED  BY <1>7 DEF t, u, q1

(* Taking the head of the queue in hand moves nothing.                     *)
LEMMA TakeHead ==
  ASSUME NEW S, NEW s \in Seq(S), NEW q \in Seq(S), q # <<>>
  PROVE  (s \o <<>>) \o q = (s \o <<Head(q)>>) \o Tail(q)
<1>1. Head(q) \in S /\ Tail(q) \in Seq(S) /\ q = <<Head(q)>> \o Tail(q)
  <2>1. Head(q) \in S /\ Tail(q) \in Seq(S) /\ Len(q) \in Nat \ {0}
    BY HeadTailProperties, EmptySeq
  <2>2. <<Head(q)>> \in Seq(S) /\ <<Head(q)>> \o Tail(q) \in Seq(S)
    BY <2>1, ConcatProperties
  <2>3. Len(<<Head(q)>> \o Tail(q)) = Len(q)
    BY <2>1, <2>2, HeadTailProperties, ConcatProperties
  <2>4. \A i \in 1..Len(q) : q[i] = (<<Head(q)>> \o Tail(q))[i]
    BY <2>1, <2>2, HeadTailProperties, ConcatProperties
  <2> QED  BY <2>1, <2>2, <2>3, <2>4, SeqEqual
<1>2. s \o <<>> = s
  BY ConcatEmptySeq
<1> QED  BY <1>1, <1>2, ConcatAssociative

(* The record in hand is the next one that the file is to take.            *)
LEMMA NextToCommit ==
  ASSUME NEW S, NEW s \in Seq(S), NEW r \in S, NEW q \in Seq(S)
  PROVE  /\ Len(s) < Len((s \o <<r>>) \o q)
         /\ s \o <<r>> = Append(s, ((s \o <<r>>) \o q)[Len(s) + 1])
<1>1. <<r>> \in Seq(S) /\ Len(<<r>>) = 1 /\ s \o <<r>> \in Seq(S)
  BY ConcatProperties
<1>2. Len(s \o <<r>>) = Len(s) + 1 /\ (s \o <<r>>)[Len(s) + 1] = r
  BY <1>1, ConcatProperties
<1>3. /\ Len((s \o <<r>>) \o q) = Len(s) + 1 + Len(q)
      /\ ((s \o <<r>>) \o q)[Len(s) + 1] = r
  BY <1>1, <1>2, ConcatProperties
<1>4. s \o <<r>> = Append(s, r)
  BY <1>1, <1>2, ConcatProperties, SeqEqual
<1> QED  BY <1>3, <1>4

----------------------------------------------------------------------------
LEMMA InitIInv == Init => IInv
<1> SUFFICES ASSUME Init PROVE IInv
  OBVIOUS
<1>1. TypeOK
  <2>1. <<>> \in Seq(Record) /\ Len(<<>>) = 0
    BY EmptySeq
  <2>2. queue \in Seq(Record) /\ file \in Seq(Record) /\ accepted \in Seq(Record)
    BY <2>1 DEF Init, Start
  <2>3. held \in Seq(Record) /\ Len(held) = IF wpc = "writing" THEN 1 ELSE 0
    BY <2>1 DEF Init, Start
  <2>4. stop \in BOOLEAN /\ good \in BOOLEAN
    BY DEF Init, Start
  <2>5. wpc \in WriterPC
    BY DEF Init, Start, WriterPC
  <2>6. ppc \in [Producers -> ProducerPC]
    BY DEF Init, Start, ProducerPC
  <2>7. faults \in 0..MaxFaults /\ exits \in 0..MaxExits
    BY BoundsAssumption DEF Init, Start
  <2> QED  BY <2>2, <2>3, <2>4, <2>5, <2>6, <2>7 DEF TypeOK
<1>2. NothingLost
  BY ConcatEmptySeq DEF Init, Start, NothingLost
<1> QED  BY <1>1, <1>2 DEF IInv, Init, Start

(* A step that leaves the records where they are, and does not mend the    *)
(* stream, loses nothing.                                                  *)
LEMMA NothingMoves ==
  ASSUME NothingLost, UNCHANGED <<accepted, file, held, queue>>, good' => good
  PROVE  NothingLost'
BY DEF NothingLost

(* The bound on faults.                                                    *)
LEMMA FaultCounted ==
  ASSUME faults \in 0..MaxFaults, Fault  PROVE faults' \in 0..MaxFaults
BY BoundsAssumption DEF Fault

LEMMA NextIInv == IInv /\ [Next]_vars => IInv'
<1> SUFFICES ASSUME TypeOK, NothingLost, wpc = "open" => good, [Next]_vars
             PROVE  TypeOK' /\ NothingLost' /\ (wpc' = "open" => good')
  BY DEF IInv
<1>1. ASSUME NEW p \in Producers, Notify(p)
      PROVE  TypeOK' /\ NothingLost' /\ (wpc' = "open" => good')
  <2>1. TypeOK'
    BY <1>1 DEF Notify, Woken, TypeOK, WriterPC, ProducerPC
  <2>2. NothingLost'
    BY <1>1, NothingMoves DEF Notify
  <2> QED  BY <1>1, <2>1, <2>2 DEF Notify, Woken
<1>2. ASSUME NEW p \in Producers, NEW r \in Record, Push(p, r)
      PROVE  TypeOK' /\ NothingLost' /\ (wpc' = "open" => good')
  <2>1. TypeOK'
    BY <1>2 DEF Push, TypeOK, ProducerPC
  <2>2. NothingLost'
    <3>1. file \o held \in Seq(Record) /\ queue \in Seq(Record)
      BY ConcatProperties DEF TypeOK
    <3>2. Append((file \o held) \o queue, r) = (file \o held) \o Append(queue, r)
      BY <3>1, AppendToConcat
    <3> QED  BY <1>2, <3>2 DEF Push, NothingLost
  <2> QED  BY <1>2, <2>1, <2>2 DEF Push
<1>3. CASE Open
  <2>1. TypeOK'
    <3>1. faults' \in 0..MaxFaults
      BY <1>3, FaultCounted DEF Open, TypeOK
    <3>2. good' \in BOOLEAN /\ wpc' \in {"top", "done"} /\ wpc = "open"
      BY <1>3 DEF Open, Fault, TypeOK
    <3> QED  BY <1>3, <3>1, <3>2 DEF Open, TypeOK, WriterPC
  <2>2. NothingLost'
    BY <1>3, NothingMoves DEF Open, Fault
  <2> QED  BY <1>3, <2>1, <2>2 DEF Open
<1>4. CASE WriterSleep \/ WriterFinish \/ SpuriousWakeup \/ Destroy
  <2>1. TypeOK'
    BY <1>4 DEF WriterSleep, WriterFinish, SpuriousWakeup, Destroy, Woken, TypeOK, WriterPC
  <2>2. NothingLost'
    BY <1>4, NothingMoves DEF WriterSleep, WriterFinish, SpuriousWakeup, Destroy
  <2>3. UNCHANGED good /\ (wpc' = "open" => wpc = "open")
    BY <1>4 DEF WriterSleep, WriterFinish, SpuriousWakeup, Destroy, Woken
  <2> QED  BY <2>1, <2>2, <2>3
<1>5. CASE WriterTake
  <2>1. /\ Head(queue) \in Record /\ Tail(queue) \in Seq(Record)
        /\ <<Head(queue)>> \in Seq(Record) /\ Len(<<Head(queue)>>) = 1
    BY <1>5, HeadTailProperties DEF WriterTake, TypeOK
  <2>2. TypeOK'
    BY <1>5, <2>1 DEF WriterTake, TypeOK, WriterPC
  <2>3. NothingLost'
    <3>1. held = <<>>
      BY <1>5, EmptySeq DEF WriterTake, TypeOK
    <3>2. (file \o <<>>) \o queue = (file \o <<Head(queue)>>) \o Tail(queue)
      BY <1>5, TakeHead DEF WriterTake, TypeOK
    <3> QED  BY <1>5, <3>1, <3>2 DEF WriterTake, NothingLost
  <2> QED  BY <1>5, <2>2, <2>3 DEF WriterTake
<1>6. CASE WriterWrite
  <2>1. /\ file \o held \in Seq(Record)
        /\ <<>> \in Seq(Record) /\ Len(<<>>) = 0
    BY ConcatProperties, EmptySeq DEF TypeOK
  <2>2. TypeOK'
    <3>1. faults' \in 0..MaxFaults
      BY <1>6, FaultCounted DEF WriterWrite, TypeOK
    <3>2. file' \in Seq(Record) /\ good' \in BOOLEAN
      BY <1>6, <2>1 DEF WriterWrite, Fault, TypeOK
    <3> QED  BY <1>6, <2>1, <3>1, <3>2 DEF WriterWrite, TypeOK, WriterPC
  <2>3. NothingLost'
    <3>1. (file \o held) \o <<>> = file \o held
      BY <2>1, ConcatEmptySeq
    <3>2. CASE good /\ file' = file \o held /\ UNCHANGED good
      BY <1>6, <3>1, <3>2 DEF WriterWrite, NothingLost
    <3>3. CASE ~good'
      BY <3>3 DEF NothingLost
    <3> QED  BY <1>6, <3>2, <3>3 DEF WriterWrite, Fault
  <2> QED  BY <1>6, <2>2, <2>3 DEF WriterWrite
<1>7. CASE Exit
  <2>1. <<>> \in Seq(Record) /\ Len(<<>>) = 0 /\ (file \o <<>>) \o <<>> = file
    BY EmptySeq, ConcatEmptySeq DEF TypeOK
  <2>2. TypeOK'
    <3>1. exits' \in 0..MaxExits
      BY <1>7, BoundsAssumption DEF Exit, TypeOK
    <3>2. ppc' \in [Producers -> ProducerPC]
      BY <1>7 DEF Exit, ProducerPC
    <3>3. held' \in Seq(Record) /\ Len(held') = IF wpc' = "writing" THEN 1 ELSE 0
      BY <1>7, <2>1 DEF Exit
    <3> QED  BY <1>7, <2>1, <3>1, <3>2, <3>3 DEF Exit, TypeOK, WriterPC
  <2>3. NothingLost'
    BY <1>7, <2>1 DEF Exit, NothingLost
  <2> QED  BY <1>7, <2>2, <2>3 DEF Exit
<1>8. CASE Joined \/ UNCHANGED vars
  <2>1. TypeOK'
    BY <1>8 DEF Joined, vars, TypeOK
  <2>2. NothingLost'
    BY <1>8, NothingMoves DEF Joined, vars
  <2> QED  BY <1>8, <2>1, <2>2 DEF Joined, vars
<1> QED  BY <1>1, <1>2, <1>3, <1>4, <1>5, <1>6, <1>7, <1>8 DEF Next, WriterStep

LEMMA IInvInvariant == Spec => []IInv
  BY InitIInv, NextIInv, PTL DEF Spec

(* Every reachable state is well formed; in particular the writer holds a  *)
(* record exactly while it is writing (cdr_writer.cpp:47-55).              *)
THEOREM TypeCorrect == Spec => []TypeOK
<1>1. IInv => TypeOK
  BY DEF IInv
<1> QED  BY <1>1, IInvInvariant, PTL

(* However many threads write and wherever the writer is, nothing is lost, *)
(* doubled or overtaken on the way to a file that still takes records      *)
(* (cdr_writer.cpp:27-56).                                                 *)
THEOREM NothingIsLost == Spec => []NothingLost
<1>1. IInv => NothingLost
  BY DEF IInv
<1> QED  BY <1>1, IInvInvariant, PTL

----------------------------------------------------------------------------
LEMMA InitRefines == Init => Log!LogInit
  BY DEF Init, Start, Log!LogInit

LEMMA StepRefines == IInv /\ [Next]_vars => [Log!LogNext]_Log!logVars
<1> SUFFICES ASSUME IInv, [Next]_vars
             PROVE  Log!LogNext \/ UNCHANGED Log!logVars
  OBVIOUS
<1> USE DEF Log!LogNext, Log!logVars
<1>1. ASSUME NEW p \in Producers, NEW r \in Record, Push(p, r)
      PROVE  Log!Accept
  BY <1>1 DEF Push, Log!Accept
<1>2. ASSUME NEW p \in Producers, Notify(p)
      PROVE  UNCHANGED Log!logVars
  BY <1>2 DEF Notify
<1>3. CASE Open
  BY <1>3 DEF Open, Fault, Log!Fail, IInv
<1>4. CASE WriterSleep \/ WriterFinish \/ SpuriousWakeup \/ Destroy \/ WriterTake
  BY <1>4 DEF WriterSleep, WriterFinish, SpuriousWakeup, Destroy, WriterTake
<1>5. CASE WriterWrite
  <2>1. CASE good /\ file' = file \o held /\ UNCHANGED good
    <3>1. PICK r \in Record : held = <<r>>
      <4>1. held \in Seq(Record) /\ Len(held) = 1
        BY <1>5 DEF WriterWrite, IInv, TypeOK
      <4>2. held[1] \in Record /\ held = <<held[1]>>
        BY <4>1, ElementOfSeq, SeqEqual
      <4> QED  BY <4>2
    <3>2. /\ Len(file) < Len(accepted)
          /\ file' = Append(file, accepted[Len(file) + 1])
      BY <2>1, <3>1, NextToCommit DEF IInv, TypeOK, NothingLost
    <3> QED  BY <1>5, <2>1, <3>2 DEF WriterWrite, Log!Commit
  <2>2. CASE good /\ Fault /\ UNCHANGED file
    BY <1>5, <2>2 DEF WriterWrite, Fault, Log!Fail
  <2>3. CASE ~good /\ UNCHANGED <<good, file>>
    BY <1>5, <2>3 DEF WriterWrite
  <2> QED  BY <1>5, <2>1, <2>2, <2>3 DEF WriterWrite
<1>6. CASE Exit
  BY <1>6 DEF Exit, Log!Restart
<1>7. CASE Joined \/ UNCHANGED vars
  BY <1>7 DEF Joined, vars
<1> QED  BY <1>1, <1>2, <1>3, <1>4, <1>5, <1>6, <1>7 DEF Next, WriterStep

(* CdrWriter implements the safety part of CdrLog: the file only ever      *)
(* takes the next record that was accepted (cdr_writer.cpp:27-56).         *)
THEOREM RefinesCdrLog == Spec => Log!LogSafety
  BY InitRefines, StepRefines, IInvInvariant, PTL DEF Spec, Log!LogSafety

====
