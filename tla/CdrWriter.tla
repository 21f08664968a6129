---- MODULE CdrWriter ----
(***************************************************************************)
(* CdrWriter (cdr_writer.cpp): threads hand records to a queue, and one    *)
(* thread of the writer's own appends them to a file.  The code inside     *)
(* mtx_ is always one short block, so each block is one action; the file   *)
(* is written, and write() notifies, after mtx_ has been given back.       *)
(***************************************************************************)
EXTENDS Naturals, Sequences

CONSTANTS
  Producers,   \* threads that call write
  Record,      \* the records
  MaxRecords,  \* bound: the length of the file with what is queued for it
  MaxFaults,   \* bound: failures to open or to write the file
  MaxExits     \* bound: ends of the process

ASSUME BoundsAssumption ==
  MaxRecords \in Nat /\ MaxFaults \in Nat /\ MaxExits \in Nat

VARIABLES
  queue,     \* queue_
  stop,      \* stop_
  wpc,       \* where the writer thread is
  held,      \* rec, the record the writer took: a sequence of at most one
  good,      \* out.good(); an open or a write that fails is not made up for
  file,      \* the records in the file
  ppc,       \* where each producer is in write()
  accepted,  \* history: the records pushed, after those of earlier processes
  faults, exits

vars == <<queue, stop, wpc, held, good, file, ppc, accepted, faults, exits>>

WriterPC == {"open", "top", "waiting", "writing", "done"}
ProducerPC == {"idle", "pushed"}

(* The writer holds a record exactly between the pop and the end of the    *)
(* write, and at most one (cdr_writer.cpp:47-55).                          *)
TypeOK ==
  /\ queue \in Seq(Record) /\ file \in Seq(Record) /\ accepted \in Seq(Record)
  /\ held \in Seq(Record) /\ Len(held) = IF wpc = "writing" THEN 1 ELSE 0
  /\ stop \in BOOLEAN /\ good \in BOOLEAN
  /\ wpc \in WriterPC
  /\ ppc \in [Producers -> ProducerPC]
  /\ faults \in 0..MaxFaults /\ exits \in 0..MaxExits

----------------------------------------------------------------------------
(* The constructor: a process starts with an empty queue and a new thread. *)
Start ==
  /\ queue = <<>> /\ held = <<>>
  /\ stop = FALSE /\ good = TRUE
  /\ wpc = "open"
  /\ ppc = [p \in Producers |-> "idle"]

Init == Start /\ file = <<>> /\ accepted = <<>> /\ faults = 0 /\ exits = 0

Fault == faults < MaxFaults /\ faults' = faults + 1 /\ good' = FALSE

(* A notification reaches the writer only while it waits.                  *)
Woken == IF wpc = "waiting" THEN "top" ELSE wpc

(* write(rec): the block that pushes ...                                   *)
Push(p, r) ==
  /\ ~stop /\ ppc[p] = "idle" /\ Len(accepted) < MaxRecords
  /\ queue' = Append(queue, r)
  /\ accepted' = Append(accepted, r)
  /\ ppc' = [ppc EXCEPT ![p] = "pushed"]
  /\ UNCHANGED <<stop, wpc, held, good, file, faults, exits>>

(* Mutant: the notification is left out.                                   *)
NotifyMutant(p) ==
  /\ ppc[p] = "pushed"
  /\ ppc' = [ppc EXCEPT ![p] = "idle"]
  /\ UNCHANGED <<queue, wpc, stop, held, good, file, accepted, faults, exits>>

(* ... and notify_one, outside it.                                         *)
Notify(p) ==
  /\ ppc[p] = "pushed"
  /\ ppc' = [ppc EXCEPT ![p] = "idle"]
  /\ wpc' = Woken
  /\ UNCHANGED <<queue, stop, held, good, file, accepted, faults, exits>>

(* Mutant: the destructor notifies nobody.                                 *)
DestroyMutant ==
  /\ ~stop /\ \A p \in Producers : ppc[p] = "idle"
  /\ stop' = TRUE
  /\ UNCHANGED <<queue, wpc, held, good, file, ppc, accepted, faults, exits>>

(* ~CdrWriter: no write() is in progress, and none will follow.            *)
Destroy ==
  /\ ~stop /\ \A p \in Producers : ppc[p] = "idle"
  /\ stop' = TRUE
  /\ wpc' = Woken
  /\ UNCHANGED <<queue, held, good, file, ppc, accepted, faults, exits>>

----------------------------------------------------------------------------
(* writer_loop.                                                            *)

(* A file that does not open ends the thread; write() goes on queueing.    *)
Open ==
  /\ wpc = "open"
  /\ \/ wpc' = "top" /\ UNCHANGED <<good, faults>>
     \/ wpc' = "done" /\ Fault
  /\ UNCHANGED <<queue, stop, held, file, ppc, accepted, exits>>

(* cv_.wait: the predicate is tested under mtx_, which the wait gives back.*)
WriterSleep ==
  /\ wpc = "top" /\ ~stop /\ queue = <<>>
  /\ wpc' = "waiting"
  /\ UNCHANGED <<queue, stop, held, good, file, ppc, accepted, faults, exits>>

SpuriousWakeup ==
  /\ wpc = "waiting" /\ wpc' = "top"
  /\ UNCHANGED <<queue, stop, held, good, file, ppc, accepted, faults, exits>>

(* Mutant: the record is read and stays in the queue.                      *)
WriterTakeMutant ==
  /\ wpc = "top" /\ queue # <<>>
  /\ held' = <<Head(queue)>>
  /\ wpc' = "writing"
  /\ UNCHANGED <<queue, stop, good, file, ppc, accepted, faults, exits>>

WriterTake ==
  /\ wpc = "top" /\ queue # <<>>
  /\ held' = <<Head(queue)>>
  /\ queue' = Tail(queue)
  /\ wpc' = "writing"
  /\ UNCHANGED <<stop, good, file, ppc, accepted, faults, exits>>

(* if (stop_ && queue_.empty()) break: the queue is drained first.         *)
WriterFinish ==
  /\ wpc = "top" /\ stop /\ queue = <<>>
  /\ wpc' = "done"
  /\ UNCHANGED <<queue, stop, held, good, file, ppc, accepted, faults, exits>>

(* Mutant: the record is kept for the next turn.                           *)
WriterWriteMutant ==
  /\ wpc = "writing"
  /\ good /\ file' = file \o held /\ UNCHANGED <<good, faults>>
  /\ wpc' = "top"
  /\ UNCHANGED <<queue, stop, held, ppc, accepted, exits>>

(* out << ... and out.flush(), outside mtx_.  Once a write has failed the  *)
(* stream stays failed, and every later << does nothing.                   *)
WriterWrite ==
  /\ wpc = "writing"
  /\ \/ good /\ file' = file \o held /\ UNCHANGED <<good, faults>>
     \/ good /\ Fault /\ UNCHANGED file
     \/ ~good /\ UNCHANGED <<good, file, faults>>
  /\ held' = <<>>
  /\ wpc' = "top"
  /\ UNCHANGED <<queue, stop, ppc, accepted, exits>>

----------------------------------------------------------------------------
(* The process ends under the writer, by std::exit(0) in http_api.cpp or   *)
(* otherwise, and another one opens the same file to append to it.         *)
Exit ==
  /\ exits < MaxExits /\ exits' = exits + 1
  /\ queue' = <<>> /\ held' = <<>>
  /\ stop' = FALSE /\ good' = TRUE
  /\ wpc' = "open"
  /\ ppc' = [p \in Producers |-> "idle"]
  /\ accepted' = file
  /\ UNCHANGED <<file, faults>>

(* join() has returned.                                                    *)
Joined == stop /\ wpc = "done" /\ UNCHANGED vars

WriterStep == Open \/ WriterSleep \/ WriterTake \/ WriterFinish \/ WriterWrite

Next ==
  \/ \E p \in Producers : Notify(p) \/ \E r \in Record : Push(p, r)
  \/ WriterStep \/ SpuriousWakeup
  \/ Destroy \/ Joined \/ Exit

Spec == Init /\ [][Next]_vars

(* The writer thread runs whenever it can, and so does a producer inside   *)
(* write(); nobody has to call write or the destructor.                    *)
FairSpec ==
  /\ Spec
  /\ WF_vars(WriterStep)
  /\ \A p \in Producers : WF_vars(Notify(p))

----------------------------------------------------------------------------
(* Properties.                                                             *)

(* No record is lost, doubled or overtaken between write() and the file:   *)
(* the file, the record in the writer's hands and the queue are together   *)
(* what was accepted (cdr_writer.cpp:27-56).                               *)
NothingLost == good => accepted = file \o held \o queue

(* The writer keeps the promise of CdrLog: every accepted record reaches   *)
(* the file, in order, although write() notifies outside mtx_ and the      *)
(* writer may be anywhere then (cdr_writer.cpp:31-45).                     *)
Log == INSTANCE CdrLog WITH log <- file
ImplementsCdrLog == Log!LogSpec

(* The destructor's join() comes back unless the process ends first, with  *)
(* records queued or a file that never opened (cdr_writer.cpp:18-25).      *)
DestructorReturns == stop ~> (wpc = "done" \/ ~stop)

====
