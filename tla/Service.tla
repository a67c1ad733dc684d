------------------------------- MODULE Service -------------------------------
(***************************************************************************)
(* The service thread of web/lib/service.py: a Thread that drives one       *)
(* worker (worker_start, worker_run, worker_stop) through RunState, while   *)
(* other threads only ask for it with start() and stop() and observe it     *)
(* through two events.  RunState, `wanted` and the events are written one   *)
(* after the other and without a lock, so each write is a step here.        *)
(*                                                                          *)
(* Time is left out: a holdoff that has not passed is a thread that has not *)
(* taken its next step, so AttemptStart and AttemptStop wait for nothing.   *)
(***************************************************************************)
EXTENDS Naturals, FiniteSets

CONSTANTS Svc,        \* the Service objects that may exist
          RunMayFail  \* whether worker_run() may raise (ServiceRestartSignal or any exception)

ASSUME SvcAssumption == Svc # {} /\ RunMayFail \in BOOLEAN

VARIABLES
  state,       \* Service.state
  wanted,      \* Service.wanted
  running,     \* Service.running: FALSE tells the thread to leave its loop
  readyEvt,    \* _ready_event.is_set()
  stoppedEvt,  \* _stopped_event.is_set()
  worker,      \* whether what worker_start() acquired is still held
  tpc          \* where the thread is between two of its writes

svcVars == <<state, wanted, running, readyEvt, stoppedEvt, worker, tpc>>

RunState == {"Starting", "Running", "Stopping", "Stopped"}

\* "loop" is the head of the while loop; the others are the write that comes next.
ThreadPc == {"loop", "starting", "setReady", "clearStopped",
             "clearReady", "setStopped", "exit"}

SvcTypeOK ==
  /\ state      \in [Svc -> RunState]
  /\ wanted     \in [Svc -> BOOLEAN]
  /\ running    \in [Svc -> BOOLEAN]
  /\ readyEvt   \in [Svc -> BOOLEAN]
  /\ stoppedEvt \in [Svc -> BOOLEAN]
  /\ worker     \in [Svc -> BOOLEAN]
  /\ tpc        \in [Svc -> ThreadPc]

SvcInit ==
  /\ state      = [s \in Svc |-> "Stopped"]
  /\ wanted     = [s \in Svc |-> FALSE]
  /\ running    = [s \in Svc |-> TRUE]
  /\ readyEvt   = [s \in Svc |-> FALSE]
  /\ stoppedEvt = [s \in Svc |-> TRUE]
  /\ worker     = [s \in Svc |-> FALSE]
  /\ tpc        = [s \in Svc |-> "loop"]

-----------------------------------------------------------------------------
(* What the callers' side reads: the early returns of start() and stop().   *)

StartIsNoop(s) == wanted[s] \/ state[s] \in {"Starting", "Running"}
StopIsNoop(s)  == ~wanted[s] \/ state[s] \in {"Stopping", "Stopped"}

-----------------------------------------------------------------------------
(* The thread.                                                              *)

AtLoop(s, st) == tpc[s] = "loop" /\ running[s] /\ state[s] = st
Goto(s, pc)   == tpc' = [tpc EXCEPT ![s] = pc]
Become(s, st) == state' = [state EXCEPT ![s] = st]

\* Stopped and wanted: begin a start.  The stopped event is cleared one write later.
BeginStart(s) ==
  /\ AtLoop(s, "Stopped") /\ wanted[s]
  /\ Become(s, "Starting")
  /\ Goto(s, "clearStopped")
  /\ UNCHANGED <<wanted, running, readyEvt, stoppedEvt, worker>>

ClearStopped(s) ==
  /\ tpc[s] = "clearStopped"
  /\ stoppedEvt' = [stoppedEvt EXCEPT ![s] = FALSE]
  /\ Goto(s, "loop")
  /\ UNCHANGED <<state, wanted, running, readyEvt, worker>>

\* Mutant: the retry loop does not look at `wanted`.
CancelStart_Idles(s) ==
  /\ AtLoop(s, "Starting") /\ ~wanted[s]
  /\ UNCHANGED svcVars

\* stop() came during the start's holdoff: straight to Stopped, worker_stop() not called.
CancelStart(s) ==
  /\ AtLoop(s, "Starting") /\ ~wanted[s]
  /\ Become(s, "Stopped")
  /\ Goto(s, "clearReady")
  /\ UNCHANGED <<wanted, running, readyEvt, stoppedEvt, worker>>

ClearReady(s) ==
  /\ tpc[s] = "clearReady"
  /\ readyEvt' = [readyEvt EXCEPT ![s] = FALSE]
  /\ Goto(s, "setStopped")
  /\ UNCHANGED <<state, wanted, running, stoppedEvt, worker>>

SetStopped(s) ==
  /\ tpc[s] = "setStopped"
  /\ stoppedEvt' = [stoppedEvt EXCEPT ![s] = TRUE]
  /\ Goto(s, "loop")
  /\ UNCHANGED <<state, wanted, running, readyEvt, worker>>

\* The thread enters worker_start(); `wanted` may change before it returns.
CallWorkerStart(s) ==
  /\ AtLoop(s, "Starting") /\ wanted[s]
  /\ Goto(s, "starting")
  /\ UNCHANGED <<state, wanted, running, readyEvt, stoppedEvt, worker>>

WorkerStarted(s) ==
  /\ tpc[s] = "starting"
  /\ worker' = [worker EXCEPT ![s] = TRUE]
  /\ Become(s, "Running")
  /\ Goto(s, "setReady")
  /\ UNCHANGED <<wanted, running, readyEvt, stoppedEvt>>

SetReady(s) ==
  /\ tpc[s] = "setReady"
  /\ readyEvt' = [readyEvt EXCEPT ![s] = TRUE]
  /\ Goto(s, "clearStopped")
  /\ UNCHANGED <<state, wanted, running, stoppedEvt, worker>>

\* worker_start() raised: retried after a holdoff while wanted, given up otherwise.
WorkerStartFailed(s) ==
  /\ tpc[s] = "starting"
  /\ \/ wanted[s]  /\ Goto(s, "loop") /\ UNCHANGED state
     \/ ~wanted[s] /\ Goto(s, "setStopped") /\ Become(s, "Stopped")
  /\ UNCHANGED <<wanted, running, readyEvt, stoppedEvt, worker>>

\* Mutant: a worker that fails is not wanted any more.
WorkerRunFailed_GivesUp(s) ==
  /\ RunMayFail
  /\ AtLoop(s, "Running") /\ wanted[s]
  /\ Become(s, "Stopping")
  /\ wanted' = [wanted EXCEPT ![s] = FALSE]
  /\ UNCHANGED <<running, readyEvt, stoppedEvt, worker, tpc>>

\* worker_run() raised: the worker is stopped, and restarted as long as it is wanted.
WorkerRunFailed(s) ==
  /\ RunMayFail
  /\ AtLoop(s, "Running") /\ wanted[s]
  /\ Become(s, "Stopping")
  /\ UNCHANGED <<wanted, running, readyEvt, stoppedEvt, worker, tpc>>

\* Mutant: the state says Stopped before worker_stop() has run.
BeginStop_AtOnce(s) ==
  /\ AtLoop(s, "Running") /\ ~wanted[s]
  /\ Become(s, "Stopped")
  /\ Goto(s, "clearReady")
  /\ UNCHANGED <<wanted, running, readyEvt, stoppedEvt, worker>>

BeginStop(s) ==
  /\ AtLoop(s, "Running") /\ ~wanted[s]
  /\ Become(s, "Stopping")
  /\ UNCHANGED <<wanted, running, readyEvt, stoppedEvt, worker, tpc>>

\* worker_stop() returned.  When it raises, the thread retries: no state changes.
WorkerStopped(s) ==
  /\ AtLoop(s, "Stopping")
  /\ worker' = [worker EXCEPT ![s] = FALSE]
  /\ Become(s, "Stopped")
  /\ Goto(s, "clearReady")
  /\ UNCHANGED <<wanted, running, readyEvt, stoppedEvt>>

\* running = False: the thread ends.  Only a Running worker is stopped on the way out;
\* its worker_stop() may raise, which ends the thread with the worker still held.
ThreadExit(s) ==
  /\ tpc[s] = "loop" /\ ~running[s]
  /\ \/ state[s] = "Running" /\ worker' = [worker EXCEPT ![s] = FALSE]
     \/ UNCHANGED worker
  /\ Goto(s, "exit")
  /\ UNCHANGED <<state, wanted, running, readyEvt, stoppedEvt>>

ThreadStep(s) ==
  \/ BeginStart(s) \/ ClearStopped(s) \/ CancelStart(s) \/ ClearReady(s) \/ SetStopped(s)
  \/ CallWorkerStart(s) \/ WorkerStarted(s) \/ SetReady(s) \/ WorkerStartFailed(s)
  \/ WorkerRunFailed(s) \/ BeginStop(s) \/ WorkerStopped(s) \/ ThreadExit(s)
=============================================================================
