# mini-pgw: TLA+ models, checks and proofs

mini-pgw is a small packet gateway: subscribers announce themselves by UDP, the
server keeps a session for each of them for `session_timeout_sec` seconds, writes
call detail records (CDRs), and offers an HTTP interface with a graceful stop.
This directory models the server, the client that loads it and the network between
them in TLA+, checks the models with TLC on small instances and proves, with TLAPS and
for all values of the constants, every safety property that the runs check.

    tlc -config SessionManager_safety.cfg MCSessionManager
    tlapm SessionManagerLifecycle.tla

Line numbers below are those of `src/server/*.cpp`, `src/client/*.cpp` and
`include/pgw/*.hpp`.

## 1. Inventory

| component | state | operations | talks to |
|---|---|---|---|
| `ISessionStore`: `InMemorySessionStore`, `SqliteSessionStore` | table imsi -> (created_at, expires_at), own mutex | load / save / delete / exists / cleanup / load_expired | called by SessionManager |
| `SessionManager` | the store, `mtx_`, `cv_`, `stop_`, cleaner thread | touch_session, is_active, offload_rate, graceful_stop, cleaner_loop, destructor | store, CdrWriter |
| `CdrWriter` | `queue_`, `mtx_`, `cv_`, `stop_`, writer thread, file | write, writer_loop, destructor | called by SessionManager |
| `UdpServer` | `running_`, its thread, a socket | start, stop, join, run_loop | Blacklist, touch_session, clients |
| `HttpApi` | its thread, `stop_requested`, httplib's workers | /check_subscriber, /stop, listen loop | is_active, graceful_stop, UdpServer::stop, `std::exit` |
| `main` | all of the above | builds, starts, joins | |
| `Blacklist`, `Config` | values that never change | is_blocked, load_from_file | main, UdpServer |
| client | one thread per simulated subscriber, one socket per request | load_config, encode, send, wait, extend, join | UdpServer |
| `session.hpp` | unused | | |

Which behaviours are hard, and what makes each component correct:

* **SessionManager.** Four kinds of threads meet here. touch_session and is_active
  work under `mtx_`; graceful_stop gives `mtx_` up between choosing a session and
  deleting it; the cleaner does not take `mtx_` for its work at all. All four call
  `std::localtime`, whose result is one static buffer. Right means: a live session
  is not lost, what leaves the table is recorded, "expired" never comes before
  "created", is_active does not deny a live session, graceful_stop and the destructor
  come back, expired sessions go.
* **Store.** Each call is atomic, but a SQLite call can fail, and nobody looks at the
  result; the two implementations disagree on `expires_at = now`.
* **CdrWriter.** A condition variable notified outside the lock, a file written
  outside the lock, a destructor that drains, a process that may end without it.
  Right means: an ordered log, nothing lost while the stream is good.
* **UdpServer, HttpApi, main.** A stop that is a flag read before a blocking call,
  and a process that ends by `std::exit` under running threads. Right means: /stop
  ends the process, and what it leaves behind is bounded.
* **Restart.** SQLite's table is saved at every statement, a CDR only some time after
  it has been queued, and the process ends without draining the queue. The next process
  may open another database. Right means: each end costs a bounded number of records,
  and one that loses nothing costs none.
* **Client and network.** Datagrams get lost, doubled and reordered, a request waits
  without a timeout, and a port is used again at once. Right means: an answer is read
  by the subscriber it was meant for, nobody is touched who has not asked, and the
  program ends when nothing was lost.

`PROJECT.json` lists every hazard at its line with the properties about it.

## 2. Modules

| module | contents |
|---|---|
| `SessionStore` | the table and its operations, for both implementations (`StoreKind`), with unreported SQLite failures (`Fault`) |
| `SessionManager` | extends it: threads, `mtx_`, clock, records; safety and liveness properties |
| `MCSessionManager` | symmetry of the subscribers for TLC |
| `SessionLifecycle` | abstract specification of SessionManager: sessions, the cleaner's round, records, no time and no threads |
| `CdrLog` | abstract specification: an ordered log that may fail or be restarted |
| `CdrWriter` | queue, writer thread, file; implements `CdrLog` |
| `PgwServer` | extends SessionManager with UdpServer, HttpApi and main around it |
| `MCPgwServer` | for TLC |
| `Config` | which configuration files load, start the server and select which store and database |
| `PgwRestart`, `MCPgwRestart` | extends SessionLifecycle and Config, instantiates CdrLog: several lives of the process over several databases and one CDR file |
| `Bcd` | encoding and decoding of a subscriber number |
| `UdpServer` | extends Bcd: the UDP thread, and the network |
| `PgwClient`, `MCPgwClient` | extends UdpServer with the client program |
| `CdrWriterProofs` | type correctness, nothing lost, refinement of CdrLog |
| `SessionManagerProofs` | type correctness |
| `SessionManagerSafety` | live sessions are kept, is_active is right |
| `SessionManagerCdrs` | sessions are accounted for, "expired" after "created" |
| `SessionManagerLifecycle` | SessionManager implements SessionLifecycle, in the first life of the process and in later ones |
| `PgwServerProofs` | the server is a SessionManager, so that the manager's theorems hold of it; type correctness; at most one session in force left |
| `PgwRestartProofs` | tables and CDR file through any number of ends of the process |
| `PgwClientProofs` | decoding inverts encoding; type correctness; who is touched, whose answer is read |

### SessionStore and SessionManager

`store[i]` is the `expires_at` of subscriber `i`'s session, in whole seconds (the
resolution of the strings that the code compares), or `NoSession`. `created_at` and
the time stamps inside records are written and never read by the program, so they
are left out. `Lapsed` keeps the difference between `<=` (SQLite) and `<`
(`is_before`).

`pc[t]` says where thread `t` is, `stamp[t]` is the time string it holds, `target[t]`
the subscriber it works on. An action runs from one shared access to the next:

| code | actions |
|---|---|
| touch_session 54-84 | `TouchStamp` (times, before the lock), `TouchLock`, `TouchRefresh` or `TouchCreate` then `TouchWriteCdr` |
| is_active 86-91 | `CheckStamp`, `CheckLoad` |
| graceful_stop 112-123 | `StopCall`, `StopStamp`, `StopLoad` |
| offload_rate 93-110, expire_session_locked 125-129 | `StopStamp`, `OffloadPick`, `OffloadDelete`, `OffloadWriteCdr` |
| cleaner_loop 131-149 | `CleanerTop`, `CleanerLoad`, `CleanerWriteCdr`, `CleanerCleanup`, `CleanerSleep`, `CleanerWake` |
| destructor 47-52 | `Destroy`, `Destroyed` |

A `cdr_.write` is an append to `cdr`: what happens to the record afterwards is
CdrWriter's matter. `SELECT` promises no order and `unordered_map` has none, so
`all.front()` is any row. A condition variable may always wake spuriously, so
`CleanerWake` needs no notification. `SharedTm` says whether `localtime`'s buffer is
shared, as it is in the build: `Localtime` then lets a call change the time of any
thread that may still be between its own `localtime` and `put_time`. That is the
coarsest effect of the data race; half-overwritten fields are not modelled.

### SessionLifecycle

The abstract specification: `stored` are the subscribers with a session, `ended` and
`listed` the cleaner's round (what it will delete, what it has still to record), `due`
the record owed for a save or delete that has just been made. One caller acts at a
time (`Create`, `Prolong`, `Offload`, each waiting for `due` to be written by `WriteDue`),
the cleaner beside it (`List`, `Note`, `Remove`). SessionManager implements it
(`ImplementsLifecycle`) under

| abstract | from SessionManager |
|---|---|
| `stored` | `Stored` |
| `ended` | the sessions past the cleaner's `now` from its load until its delete, else none |
| `listed` | `todo` |
| `due` | what the UDP thread or a graceful_stop, between its change of the table and its `cdr_.write`, is about to write |
| `cdr` | `cdr` |
| `old` | 0 |

What the abstraction lets happen is what the code does: a session prolonged since the
list was read is noted as expired and stays (`Note` after `Prolong`), `Offload` of a
session that is gone already writes a second record, and a session that the cleaner
deletes between session_exists and save_session comes back without a record (`Prolong`
of a `Recorded` subscriber). What it forbids: any other order of table change and
record, a deletion of what was not listed, two callers' changes mixed.
`SessionManagerLifecycle` proves that it holds for all constants, and that it still holds
(`After(before)`) when `cdr` is `before \o cdr` and `old` is `Len(before)`, for any records
`before` that earlier processes have left in the file.

### CdrWriter and CdrLog

Each block under the writer's `mtx_` is one action (`Push`, `Destroy`, `WriterSleep`,
`WriterTake`, `WriterFinish`); `Notify` and `WriterWrite` happen outside it. `Open` and
`WriterWrite` may fail, and a failed stream stays failed. `Exit` is the end of the
process (`std::exit` in http_api.cpp:105, or a kill) followed by a new one: what was
queued is gone, the file stays and is appended to. A line torn by a kill is not
modelled. The history variable `accepted` holds what was pushed, after what earlier
processes had written; under `log <- file` the writer implements `CdrLog`, including
its fairness: every accepted record is committed unless the stream fails.

### PgwServer

Uses the actions of SessionManager unchanged (`Within`) and adds who calls them. The
UDP thread binds or gives up (`UdpBind`), looks at `running_` (`UdpTop`), blocks in
recvfrom (`receiving`), gets nothing, a blocked subscriber or another one
(`UdpRecvNothing`, `UdpReject`, `UdpReceive`), and answers when touch_session is back
(`UdpReply`). A /stop request clears `running_` and calls graceful_stop (`HttpStop`);
when that is back, server.stop() is called (`HttpStopped`), listen returns when all
workers are done (`ListenReturns`), and `Exit` ends the process. `Destroy` does not
occur: `std::exit` destroys nothing that main owns. httplib (workers, listen, stop) is
modelled from its use; a request that waits in httplib's queue while the server closes
is not served. `Listen` is the moment the port is bound: while it is taken, the loop
calls listen again and again and nothing changes, so `Listen` need never happen.

### Config and PgwRestart

A configuration file is a record of what decides something: whether it opens and
parses, and for each field whether it is there, has the right type, is empty, says
"sqlite", the default of an optional field, or anything else. `Loads` is load_from_file
without an exception, `Starts` main beyond CdrWriter's constructor, `StoreOf` the choice of
the store. `TableOf` is where the sessions then are: in the database that
`sqlite_db_path` names (`DatabaseOf`; `sessions.db` if it is left out), or in a table that
goes with the process (`"private"`): in memory, or in the temporary database that SQLite
makes for an empty name. A path `:memory:`, which does the same, is not told apart
from other names, and each of the others is a file of its own.

PgwRestart is put together from specifications, not from the detailed modules, whose
product TLC could not search: `Serve` is any step of SessionLifecycle (which
SessionManager implements), `Write` any step of CdrLog's writer (which CdrWriter
implements), with CdrLog's `accepted` being SessionLifecycle's `cdr`. `disk` holds the
sessions of each database but the one that the running process has open (`table`), whose
sessions are `stored`. `Boot` starts the process with any file of `Files` that starts it;
the sessions are then what the named database kept, or none. `End` is `std::exit` or a kill
between any two steps: a database keeps its sessions, a private table is gone, and so are
the records queued or owed. `losses` is a history variable: the ends at which any of these was
lost (`Losing`). Within it the clock, `mtx_` and the program counters do not occur. SQLite
is assumed to work here; sessions_faults is about its failures. There is one CDR file:
`OneCdrFile` says that the configurations that start the server name the same one.

### Bcd, UdpServer and PgwClient

`requests` and `answers` are sets of datagrams under way: any may be taken next, a second
copy stays behind at the price of a slip (`Take`), one may vanish at the price of a loss
(`Lose`, or a sendto that fails). The server's thread is `Bind`, `Top`, `Receive` or
`ReceiveNothing`, `Serve` (decode, blacklist, touch_session, sendto). touch_session always
returns true and is only noted in `touched`. Numbers are sequences of digits and are
really encoded into and decoded from bytes.

A client thread is `SendRequest` (a socket on a free port, sendto) or `RequestFails`,
`ReceiveAnswer` or `ReceiveFails`, then perhaps `Extend` and the same again. Main is
`LoadConfig`, `Spawn` for each thread, `Join`. An answer is bound to a port and to nothing
else. `Drop` throws away what arrives on a port that is not open.

## 3. Runs

| run | module, cfg | shows | size |
|---|---|---|---|
| sessions_safety | MCSessionManager, `SessionManager_safety` | type invariant, accounting, order of records, live sessions kept, is_active right, SessionLifecycle implemented | 3.4M states |
| sessions_faults | `SessionManager_faults` | what survives a failed SQLite statement and a restored session, and what the failure costs each subscriber | 4.5M |
| sessions_liveness | `SessionManager_liveness` | graceful_stop and the destructor return, expired sessions go; in-memory store, shared buffer | 169k |
| server_restart | MCPgwRestart, `PgwRestart_accounts` | what tables and CDR file may disagree on after any number of ends, and that an end that loses nothing costs nothing | 2.4M |
| client_network | MCPgwClient, `PgwClient_network` | answers reach those who asked, only they are touched, the client ends | 144k |
| cdr_writer | CdrWriter, `CdrWriter_fair` | nothing lost, CdrLog implemented, destructor returns | 11k |
| server_stop | MCPgwServer, `PgwServer_stop` | /stop ends the process; at most one session in force is left | 249k |
| false_expired | violation | "expired" is written for a session that goes on | |
| double_expired | violation | one session, two "expired" | |
| shared_tm | violation | a live session is deleted through localtime's buffer | |
| late_session | violation | a session created after graceful_stop survives it | |
| udp_join | violation | join() of a stopped UdpServer waits for one more datagram | |

What the five violations say of the code is under `findings` in `PROJECT.json`.

Three properties should not be read for more than they say. `SessionsAccounted` counts
records: an "expired" for a session that goes on (false_expired) could stand in for one
that is missing later. That none is missing is in `ImplementsLifecycle`, where a session
is deleted only in the round that has listed it, each listed one being noted, or owing
its record (`Offload`). `FaultsAccounted` counts for each subscriber:
a failed load_expired_sessions followed by a cleanup that works removes every lapsed
session unrecorded, so that one failure may cost as many records as there are subscribers,
but nobody two. `AtMostOneSessionLeft` counts sessions in force: rows whose time is over and
which the cleaner has not yet deleted may stay in the table beside it, as
graceful_stop does not load them.

**Bounds.** Two subscribers: one whose session is in somebody's hands and one that
is not; no property relates three. (server_stop has a third, blocked one.) Three
calls of touch_session let a session be created, prolonged or expired, and created
again while the cleaner still holds a list from before. `Timeout = 2` with
`MaxLag = 1` is the smallest pair in which a call may cross a second and still be
shorter than the timeout; `MaxTime = 5` lets two timeouts pass. `MaxFaults = 1` puts one
failure anywhere. In cdr_writer four records, one fault and one end of the process
fill the queue behind a record being written and start again with a non-empty file.
The liveness and server instances are smaller (`Timeout = 1`, two calls), since every
interleaving of one session's end with each thread already occurs there.
In server_restart four records and two ends let two subscribers come and go, records be
lost at each end, and a session come back from a database after a process that had
another one open; `Files` holds the repository's configuration and the files that differ
from it in one field, without a second CDR file and with two databases out of three. In
client_network two threads make up to four
requests on two ports, so that a port is used again with an old answer under way; the
numbers have three digits (an odd number, as the real 15) and the buffer two bytes,
exactly enough, as 16 are more than enough for 8; one is another with two digits
exchanged, and blocked. One loss and one slip can strike anywhere.
`MaxLag < Timeout` is a real assumption: a touch_session that waits for `mtx_` longer
than the timeout saves a session that is already over. `MaxTime`, `MaxTouches`,
`MaxRecords`, `MaxExits`, `MaxLosses` and `MaxSlips` bound TLC's search; none of the proofs
fixes them.

**Fairness.** A thread inside a call keeps running (`WF`, or `SF` where it has to win
`mtx_`, as no thread that keeps asking for a mutex is passed over for ever by the
scheduler), the cleaner and the writer run for ever, `wait_for` ends by itself. No
caller has to call, no datagram has to arrive, and the clock need not move: the
liveness properties hold without them. `GracefulStopTerminates` holds because the calls
of touch_session are finitely many; `StopEndsProcess` because /stop stops them. In
PgwClient the threads of both programs run (`WF`), and `SF` of `Receive` says that a
recvfrom does not fail for ever while datagrams are waiting; the network is not fair.
`ClientFinishes` names what is left: a loss, a stopped server, or one that has no socket.

**Mutants.** Each property of a passing run is paired in `PROJECT.json` with a mutated
action (`...Mutant` next to the original) that breaks it under the same cfg.

## 4. Proofs

All theorems hold for any sets of subscribers and threads, any timeout, rate and
bound; assumptions beyond the modules' own are stated.

| theorem | assumes | property |
|---|---|---|
| `CdrWriterProofs!TypeCorrect`, `NothingIsLost` | | `TypeOK`, `NothingLost` |
| `CdrWriterProofs!RefinesCdrLog` | | `Spec => Log!LogSafety` |
| `SessionManagerProofs!TypeCorrect` | | `TypeOK` |
| `SessionManagerSafety!LiveSessionIsKept` | `~SharedTm` | `LiveSessionKept` |
| `SessionManagerSafety!NotActiveIsRight` | `~SharedTm`, no faults | `NotActiveOnlyIfOver` |
| `SessionManagerCdrs!SessionsAreAccounted` | `~SharedTm`, `MaxLag < Timeout`, no faults | `SessionsAccounted` |
| `SessionManagerCdrs!FaultsAreAccounted` | `~SharedTm`, `MaxLag < Timeout` | `FaultsAccounted`: a failure costs each subscriber at most one record |
| `SessionManagerCdrs!ExpiredComesAfterCreated` | `~SharedTm`, `MaxLag < Timeout` | `ExpiredOnlyAfterCreated` |
| `SessionManagerLifecycle!LifecycleIsImplemented` | `~SharedTm`, `MaxLag < Timeout`, no faults | `ImplementsLifecycle` |
| `SessionManagerLifecycle!LaterLivesAreAlike` | the same | every step is one of `After(before)!LifeNext`, or none |
| `PgwServerProofs!ServerTypeCorrect` | | `ServerTypeOK` |
| `PgwServerProofs!AtMostOneIsLeft` | `~SharedTm`, no faults | `AtMostOneSessionLeft`: one in force |
| `PgwServerProofs!ServerAccounts`, `ServerPaysForFaults`, `ServerRecordsInOrder`, `ServerKeepsSessions`, `ServerChecksRightly`, `ServerImplementsLifecycle`, `ServerServes` | as for the manager | what the manager's theorems say, of the whole server process |
| `PgwRestartProofs!RestartTypeCorrect` | | `RestartTypeOK` |
| `PgwRestartProofs!FewAreUnmatched`, `GoneOnesAreMatched` | | `UnmatchedAreFew`, `GoneAreMatched` |
| `PgwRestartProofs!OnlyLossesAreCostly`, `CreatedComesFirst` | | `OnlyLossesCost`, `CreatedIsFirst` |
| `PgwClientProofs!DecodingInvertsEncoding` | | what the server reads is the number that was sent, if its buffer holds it |
| `PgwClientProofs!NetTypeCorrect`, `OnlyAskedAreTouched`, `AnswersAreMine` | | `NetTypeOK`, `OnlyAskedTouched`, `AnswerIsMine` |

The arguments:

* *CdrWriter.* `IInv` = `TypeOK`, `NothingLost`, and a stream that is good before it is
  opened. The refinement maps `WriterWrite` to Commit, `Push` to Accept, `Fault` to Fail and
  `Exit` to Restart; `NothingLost` says which record is the next to commit.
* *Live sessions.* `TimeInv`: no thread but the UDP thread holds a time that lies ahead
  of the clock, and the UDP thread, the only one to call touch_session, holds the
  latest `expires_at` there is, exactly `age` seconds old. So the cleaner deletes only
  what is past, and a save never moves an end back. The shared buffer breaks the
  first part; run shared_tm shows where that leads.
* *Accounting.* `AccountInv` adds to the property: whatever the cleaner is about to
  delete by time has had its record written or is on its list (`CleanInv`; this needs
  that a session saved meanwhile ends after the cleaner's `now`, hence
  `MaxLag < Timeout`), a session about to be created is not stored, and between
  save_session and its record it is the one just saved. `MutexInv` ties `mtx_` to
  program counters. All of it is stated with failed statements counted: a failure may
  leave a session deleted and unrecorded or saved and unknown, and each such gap is
  charged to the failure that made it, so that `SessionsAccounted` is the case without
  failures of `FaultsAccounted`.
* *Lifecycle.* One lemma per step of SessionLifecycle (`RefreshIsProlong`,
  `CreateIsCreate`, `DeleteIsOffload`, `WriteIsWriteDue`, `LoadIsList`, `WriteIsNote`,
  `CleanupIsRemove`), and one per kind of thread for the steps that nobody sees there.
  The guards of the abstract steps need `HeldInv` (a session that touch_session has not
  found is still not stored when it is created, and one just saved or deleted is still so
  when its record is written), `KnownInv` (a session that was found and is gone when it is
  saved or deleted has been recorded meanwhile, which is the cleaner's doing) and
  `RoundInv` (what the cleaner will delete it has listed or recorded). The last one holds
  as touch_session cannot save what lies before the cleaner's `now`.
* *Order of records.* `BornInv`: every stored session and every session in a thread's
  hands has its "created" record, except the one the UDP thread has just saved, which
  nobody can see without `mtx_` or before its time.
* *Server.* Each step of PgwServer is a step of SessionManager or leaves it alone
  (`ServerStep`), so the manager's theorems carry over. `LeftInv`: once a graceful_stop has
  found the table empty, no more than one session in force is stored, and none while the UDP
  thread may still store one; afterwards it finds `running_` cleared.
* *Restarts.* Begun and over are the numbers of a subscriber's "created" and "expired"
  records. `BalanceInv`: begun is at most over, plus what may account for the rest
  (`Credits`: the number of ends; and also, which is less, the ends that lost something and
  the closed databases that hold a session of the subscriber), plus
  one while somebody has yet to write "expired" (`Pending`: the session is stored and the
  cleaner is not done with it, or the record is owed). The
  induction needs `DueInv`: one record is owed at a time, and a "created" only for a
  session the cleaner leaves alone. An end cuts the records back to what is in the file,
  anywhere in between; that is why `UnmatchedAreFew` speaks of every prefix, and `PrefixInv`
  of those that may still be cut to: the one that
  stays is already balanced but for one, and the end pays for that one, if it loses
  anything; if not, the session is stored and moves to a closed database, which held none
  of this process's (`HandInv`). Any other step
  has to show it of the longest prefix only. `CreatedIsFirst` rests on a second invariant,
  `BornInv`: as long as nothing has been lost, every subscriber with a session in the open
  table or a closed database, on the cleaner's list or owed an "expired" has a "created"
  among the records, but for one whose "created" is owed. The theorems are about SessionLifecycle's
  and CdrLog's steps: that the server's threads take no others is `ServerServes` and
  `RefinesCdrLog`.
* *Numbers.* `DecodingInvertsEncoding` is about folds, and the provers have no induction
  over data. The recursive functions are unfolded at one index instead, and an index where
  two of them differ is taken to be the least one (`LeastNumber`, from the well-foundedness
  of the naturals): at the one before they agree, and so they agree.
* *Client.* `NetInv` adds to `NetTypeOK` that every datagram on its way, and the one the
  server has at hand, is the encoded number of a thread that has been started; with
  `DecodingInvertsEncoding` nobody else is touched. `AnswerIsMine` is not inductive: an answer
  is bound to a port only. `OwnedInv` says that the port of every datagram is the open one of
  a thread, with that thread's number or an answer that is right for it, and `SingleInv` that for each port there is at most one of request, datagram at
  hand and answer, and none when its port is free. A doubled datagram or a receive that
  fails breaks both and counts as a slip.

Only model-checked: the liveness properties (`GracefulStopTerminates`,
`DestructorTerminates`, `ExpiredEventuallyRemoved`, `DestructorReturns`, `StopEndsProcess`,
`ClientFinishes`) and the fairness half of the refinement of `CdrLog`
(`ImplementsCdrLog`): liveness and ENABLED are beyond this prover. The five violated
claims are refuted by TLC's counterexamples. `~SharedTm` is assumed where the shared buffer
makes the statement false: shared_tm shows it for `LiveSessionKept`.

## 5. Not modelled

* Logging and `session.hpp` decide nothing; `created_at` and time stamps are never read.
  The sinks are spdlog's single-threaded ones and are used by several threads: a data
  race whose effects on memory have no model.
* `HttpApi::stop` is never called, /test changes no state.
* The pace of offload_rate (`sleep_for(1000 / rate)`) and the client's pauses: the models
  let any time pass there.
* A clock that is set back, and the hour that local time repeats in autumn.
* The narrowing of configured numbers (`get<uint16_t>`): another value of a constant.
* The subscriber number from the client's command line or `default_imsi`: main computes
  it and gives it to nobody, so that the client always runs `num_clients` random
  subscribers (README.md:23 of the repository says one for a given number).
* touch_session's result: session_manager.hpp:30 says true means newly created; the code
  returns true always, and the server answers "created" to a prolongation too.
* Datagrams that imsi_to_bcd does not produce: `Bcd` defines what they decode to, but
  no run sends them.
* A CDR line torn by a kill.

## 6. Plan

Everything that decides something is modelled, and every safety property that the runs
check is proved. Proofs still worth having:

1. What of the lifecycle remains when `std::localtime` is shared or SQLite fails: a weaker
   SessionLifecycle in which `Remove` may take what was not listed.
2. PgwServer and CdrWriter together as PgwRestart's `Serve` and `Write`, which so far are
   two refinements side by side.
