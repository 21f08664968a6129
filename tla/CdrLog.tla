---- MODULE CdrLog ----
(***************************************************************************)
(* What CdrWriter promises its callers: the file takes the accepted        *)
(* records one by one, in the order in which they were accepted, and takes *)
(* them all unless the stream has failed or the process has ended.         *)
(***************************************************************************)
EXTENDS Naturals, Sequences

CONSTANT Record

VARIABLES
  accepted,  \* the records accepted, after those of earlier processes
  log,       \* the records in the file
  good       \* FALSE: the stream has failed and takes nothing any more

logVars == <<accepted, log, good>>

LogInit == accepted = <<>> /\ log = <<>> /\ good = TRUE

Accept ==
  /\ \E r \in Record : accepted' = Append(accepted, r)
  /\ UNCHANGED <<log, good>>

Commit ==
  /\ good /\ Len(log) < Len(accepted)
  /\ log' = Append(log, accepted[Len(log) + 1])
  /\ UNCHANGED <<accepted, good>>

Fail ==
  /\ good /\ good' = FALSE
  /\ UNCHANGED <<accepted, log>>

(* What had been accepted and not committed is forgotten.                  *)
Restart ==
  /\ accepted' = log /\ good' = TRUE
  /\ UNCHANGED log

LogNext == Accept \/ Commit \/ Fail \/ Restart

LogSafety == LogInit /\ [][LogNext]_logVars

LogSpec == LogSafety /\ WF_logVars(Commit)

====
