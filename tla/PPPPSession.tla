----------------------------- MODULE PPPPSession -----------------------------
(***************************************************************************)
(* The one session a printer accepts, and who competes for it: PPPPService  *)
(* (web/service/pppp.py), which holds it for video, timelapse and light     *)
(* and is borrowed through the ServiceManager, and file transfers           *)
(* (web/service/filetransfer.py), which open their own connection inside    *)
(* reserve_session().                                                       *)
(*                                                                          *)
(* The service thread and the borrowers are those of Service and            *)
(* ServiceManager; here worker_start(), worker_run() and worker_stop() do   *)
(* what PPPPService makes of them, and stop() also closes the connection    *)
(* from the caller's thread.  Deadlines are left out: a retry may come at   *)
(* any time, a bounded wait may give up at any time.                        *)
(***************************************************************************)
EXTENDS ServiceManager

CONSTANTS Uploads,       \* threads that send a file
          StopTimesOut,  \* whether the service may take longer to stop than reserve_session() waits
          MaxDrops       \* bound: sessions the printer ends of its own accord

\* One printer, one PPPPService: what the connection's variables stand for.
OnePrinter == \E s \in Svc : Svc = {s}

ASSUME SessionAssumption ==
  /\ NoThread \notin Uploads /\ StopTimesOut \in BOOLEAN /\ MaxDrops \in Nat

VARIABLES
  wpc,        \* the service thread inside worker_start()
  api,        \* PPPPService._api is there, and believes itself Connected
  closeMsg,   \* a CLOSE of the printer waits in that connection's socket
  slot,       \* the printer: whose session it has
  drops,      \* how often the printer has ended one
  slock,      \* who holds the session lock of this printer
  upc,        \* what each upload does next
  wasWanted   \* reserve_session()'s was_wanted

connVars    == <<wpc, api, closeMsg, slot, drops>>
uploadVars  == <<slock, upc, wasWanted>>
sessionVars == <<vars, connVars, uploadVars>>

SessionTypeOK ==
  /\ TypeOK
  /\ wpc \in {"none", "probe", "handshake", "connected"}
  /\ api \in BOOLEAN /\ closeMsg \in BOOLEAN /\ drops \in 0 .. MaxDrops
  /\ slot \in {"free", "service", "upload", "ghost"}
  /\ slock \in Uploads \cup {NoThread}
  /\ upc \in [Uploads -> {"idle", "stop", "await", "connect", "transfer", "restart", "done"}]
  /\ wasWanted \in [Uploads -> BOOLEAN]

SessionInit ==
  /\ Init
  /\ wpc = "none" /\ api = FALSE /\ closeMsg = FALSE /\ slot = "free" /\ drops = 0
  /\ slock = NoThread
  /\ upc = [u \in Uploads |-> "idle"] /\ wasWanted = [u \in Uploads |-> FALSE]

-----------------------------------------------------------------------------
(* The printer.  It takes a new session when it has none and answers CLOSE    *)
(* when it has one; a session whose CLOSE was lost it keeps for a while.      *)

\* A CLOSE for `owner` is sent to the printer.
Close(owner) == slot' \in IF slot = owner THEN {"free", "ghost"} ELSE {slot}

PrinterForgets ==
  /\ slot = "ghost" /\ slot' = "free"
  /\ UNCHANGED <<vars, wpc, api, closeMsg, drops, uploadVars>>

PrinterDrops ==
  /\ drops < MaxDrops /\ drops' = drops + 1
  /\ slot \in {"service", "upload"} /\ slot' = "free"
  /\ closeMsg' = (closeMsg \/ slot = "service")
  /\ UNCHANGED <<vars, wpc, api, uploadVars>>

-----------------------------------------------------------------------------
(* PPPPService.                                                              *)

\* _force_close_api(): say goodbye to the printer and drop the connection.
ForceCloseApi ==
  /\ api' = FALSE
  /\ IF api THEN Close("service") /\ closeMsg' = FALSE ELSE UNCHANGED <<slot, closeMsg>>
  /\ UNCHANGED <<wpc, drops>>

\* The steps of the thread that do not touch the connection.
Bookkeeping(s) ==
  /\ \/ BeginStart(s) \/ ClearStopped(s) \/ CancelStart(s) \/ ClearReady(s) \/ SetStopped(s)
     \/ SetReady(s) \/ BeginStop(s)
  /\ UNCHANGED <<mgrVars, connVars, uploadVars>>

EnterWorkerStart(s) ==
  /\ CallWorkerStart(s)
  /\ wpc' = "probe"
  /\ UNCHANGED <<mgrVars, api, closeMsg, slot, drops, uploadVars>>

\* worker_start() raised.
StartFails(s) == WorkerStartFailed(s) /\ wpc' = "none"

\* Mutant: worker_start() waits for the lock.
ProbeLock_Blocks(s) ==
  /\ wpc = "probe" /\ slock = NoThread
  /\ wpc' = "handshake" /\ UNCHANGED svcVars
  /\ UNCHANGED <<mgrVars, api, closeMsg, slot, drops, uploadVars>>

\* lock.acquire(blocking=False), given back at once: connect only if nobody has reserved the session.
ProbeLock(s) ==
  /\ wpc = "probe"
  /\ IF slock = NoThread THEN wpc' = "handshake" /\ UNCHANGED svcVars ELSE StartFails(s)
  /\ UNCHANGED <<mgrVars, api, closeMsg, slot, drops, uploadVars>>

\* The handshake succeeds, is refused with CLOSE, or times out with or without a session at the printer.
Handshake(s) ==
  /\ wpc = "handshake"
  /\ \/ slot = "free" /\ slot' = "service" /\ wpc' = "connected" /\ UNCHANGED svcVars
     \/ StartFails(s) /\ slot' \in IF slot = "free" THEN {"free", "ghost"} ELSE {slot}
  /\ UNCHANGED <<mgrVars, api, closeMsg, drops, uploadVars>>

\* self._api = api: from here on stop() can close it.
KeepApi(s) ==
  /\ wpc = "connected" /\ wpc' = "none"
  /\ api' = TRUE
  /\ WorkerStarted(s)
  /\ UNCHANGED <<mgrVars, closeMsg, slot, drops, uploadVars>>

\* worker_run() meets the CLOSE: in its first poll() it asks for a restart; the loop that drains
\* the socket ignores it, and process() has not touched the connection's state.
PollsClose(s) ==
  /\ api /\ closeMsg /\ AtLoop(s, "Running") /\ wanted[s]
  /\ closeMsg' = FALSE
  /\ WorkerRunFailed(s) \/ UNCHANGED svcVars
  /\ UNCHANGED <<mgrVars, wpc, api, slot, drops, uploadVars>>

\* Mutant: worker_run() has nothing to poll, and idles.
ApiMissing_Idles(s) ==
  /\ ~api /\ AtLoop(s, "Running") /\ wanted[s]
  /\ UNCHANGED sessionVars

\* worker_run() without a connection: stop() has closed it, and a start() come just after.
ApiMissing(s) ==
  /\ ~api /\ WorkerRunFailed(s)
  /\ UNCHANGED <<mgrVars, connVars, uploadVars>>

\* Mutant: worker_stop() only clears its event.
StopWorker_KeepsApi(s) ==
  /\ WorkerStopped(s)
  /\ UNCHANGED <<mgrVars, connVars, uploadVars>>

StopWorker(s) ==
  /\ WorkerStopped(s)
  /\ ForceCloseApi
  /\ UNCHANGED <<mgrVars, uploadVars>>

WorkerStep(s) ==
  \/ Bookkeeping(s) \/ EnterWorkerStart(s) \/ ProbeLock(s) \/ Handshake(s) \/ KeepApi(s)
  \/ PollsClose(s) \/ ApiMissing(s) \/ StopWorker(s)

-----------------------------------------------------------------------------
(* The borrowers; PPPPService.stop() closes the connection if it was wanted,  *)
(* also when there is nothing to stop because the thread is Stopping.         *)

Borrow(c) ==
  /\ \/ GetAcquire(c) \/ GetAwaitStopped(c) \/ GetDecide(c) \/ GetStart(c)
     \/ AwaitReadyCheck(c) \/ AwaitReadyReturn(c) \/ AwaitReadyTimeout(c)
  /\ UNCHANGED <<connVars, uploadVars>>

Release(c) ==
  /\ Put(c)
  /\ IF refs = 1 /\ wanted[cur] /\ StopIsNoop(cur) THEN ForceCloseApi ELSE UNCHANGED connVars
  /\ UNCHANGED uploadVars

ReleaseStop(c) == PutStop(c) /\ ForceCloseApi /\ UNCHANGED uploadVars

BorrowStep(c) == Borrow(c) \/ Release(c) \/ ReleaseStop(c)

-----------------------------------------------------------------------------
(* reserve_session() around a file transfer.                                 *)

Goes(u, from, to) == upc[u] = from /\ upc' = [upc EXCEPT ![u] = to]

\* Mutant: what is remembered is the service, not whether it was wanted.
Reserve_RemembersService(u) ==
  /\ slock = NoThread /\ slock' = u
  /\ wasWanted' = [wasWanted EXCEPT ![u] = cur]
  /\ Goes(u, "idle", IF wanted[cur] THEN "stop" ELSE "connect")
  /\ UNCHANGED <<vars, connVars>>

\* Take the lock, and look whether the service wants to run.
Reserve(u) ==
  /\ slock = NoThread /\ slock' = u
  /\ wasWanted' = [wasWanted EXCEPT ![u] = wanted[cur]]
  /\ Goes(u, "idle", IF wanted[cur] THEN "stop" ELSE "connect")
  /\ UNCHANGED <<vars, connVars>>

\* svc.stop(), whoever holds a reference.
StopService(u) ==
  /\ Goes(u, "stop", "await")
  /\ IF wanted[cur]
       THEN /\ wanted' = [wanted EXCEPT ![cur] = StopIsNoop(cur)]
            /\ ForceCloseApi
       ELSE UNCHANGED <<wanted, connVars>>
  /\ SvcUnchangedBut_wanted
  /\ UNCHANGED <<mgrVars, slock, wasWanted>>

\* svc.await_stopped(timeout=15.0), whatever it returns.
AwaitStop(u) ==
  /\ AwaitStoppedReturns(cur) \/ StopTimesOut
  /\ Goes(u, "await", "connect")
  /\ UNCHANGED <<vars, connVars, slock, wasWanted>>

\* pppp_open(): another attempt, until one is accepted ...
Connect(u) ==
  /\ slot = "free"
  /\ \/ slot' = "upload" /\ Goes(u, "connect", "transfer")
     \/ slot' = "ghost" /\ Goes(u, "connect", "connect")
  /\ UNCHANGED <<vars, wpc, api, closeMsg, drops, slock, wasWanted>>

\* Connecting outlasts a step of the service thread that waits for nothing (timing assumption).
Settled(s) ==
  /\ tpc[s] \in {"loop", "starting"}
  /\ tpc[s] = "loop" /\ ~wanted[s] => state[s] = "Stopped"

\* Leave reserve_session(): give the lock back, and then restart what was stopped.
Leave(u, from) ==
  /\ Settled(cur)
  /\ Goes(u, from, IF wasWanted[u] THEN "restart" ELSE "done")
  /\ slock' = NoThread
  /\ UNCHANGED <<vars, wasWanted>>

\* ... or the time is over.
ConnectFails(u) == Leave(u, "connect") /\ UNCHANGED connVars

\* The transfer ends, well or not; api.stop() says goodbye.
TransferEnds(u) ==
  /\ Leave(u, "transfer")
  /\ Close("upload")
  /\ UNCHANGED <<wpc, api, closeMsg, drops>>

\* svc.start()
Restart(u) ==
  /\ Goes(u, "restart", "done")
  /\ wanted' = [wanted EXCEPT ![cur] = @ \/ ~StartIsNoop(cur)]
  /\ SvcUnchangedBut_wanted
  /\ UNCHANGED <<mgrVars, connVars, slock, wasWanted>>

UploadStep(u) ==
  \/ Reserve(u) \/ StopService(u) \/ AwaitStop(u) \/ Connect(u) \/ ConnectFails(u)
  \/ TransferEnds(u) \/ Restart(u)

-----------------------------------------------------------------------------
SessionNext ==
  \/ PrinterForgets \/ PrinterDrops
  \/ \E s \in Svc : WorkerStep(s)
  \/ \E c \in Borrowers : BorrowStep(c)
  \/ \E u \in Uploads : UploadStep(u)

SessionSpec == SessionInit /\ [][SessionNext]_sessionVars

\* The service thread runs, and a handshake that is tried again and again with a free printer
\* succeeds; the printer forgets a dead session; an upload goes on (its deadlines see to that),
\* and so does a borrower inside get() or put().
SessionFairness ==
  /\ WF_sessionVars(PrinterForgets)
  /\ \A s \in Svc :
       /\ WF_sessionVars(WorkerStep(s)) /\ SF_sessionVars(Handshake(s) /\ wpc' = "connected")
       /\ WF_sessionVars(PollsClose(s))
  /\ \A u \in Uploads :
       /\ WF_sessionVars(StopService(u) \/ AwaitStop(u) \/ ConnectFails(u) \/ TransferEnds(u) \/ Restart(u))
  /\ \A c \in Borrowers :
       WF_sessionVars(cpc[c] \notin {"idle", "held"} /\ BorrowStep(c))

FairSessionSpec == SessionSpec /\ SessionFairness

-----------------------------------------------------------------------------
(* What the reservation promises. *)

\* A service that says it has stopped keeps neither a connection nor the printer's session:
\* reserve_session() opens its own as soon as await_stopped() returns.
StoppedMeansClosed ==
  \A s \in Svc : state[s] = "Stopped" => ~api /\ slot # "service"

\* Every upload comes to an end: it does not wait for a service that waits for it.
UploadsFinish == \A u \in Uploads : upc[u] # "idle" ~> upc[u] = "done"

\* The drain loop has swallowed the CLOSE: the connection believes itself Connected, the printer
\* has ended its session, and nothing is left in the socket that could tell.
Swallowed == api /\ slot # "service" /\ ~closeMsg

\* The video is served again: a service that is held gets back a session the printer knows of,
\* after uploads, refused sessions and lost ones.  worker_run() says that a connection that is not
\* connected must "force an internal restart instead of idling forever"; the exception is the
\* case in which it does idle: a CLOSE that comes while it drains the socket is ignored.
HeldIsServedUnlessSwallowed ==
  \A c \in Borrowers :
    At(c, "held") ~> \/ ~At(c, "held")
                     \/ state[cur] = "Running" /\ api /\ slot = "service"
                     \/ Swallowed

\* The strengthening of StoppedMeansClosed, with ThreadInv: the thread is in worker_start() for as
\* long as that has a position, and the printer's session belongs to a connection somebody has.
ConnInv ==
  /\ \A s \in Svc : (wpc # "none" => tpc[s] = "starting") /\ (api => worker[s])
  /\ slot = "service" => api \/ wpc = "connected"
=============================================================================
