-------------------------- MODULE VideoQueueProofs --------------------------
(***************************************************************************)
(* That the camera does not stream for a video queue which is off, for any *)
(* viewers and sessions and any number of calls and faults: IInv is        *)
(* inductive, with one step per action of the service's thread.            *)
(***************************************************************************)
EXTENDS VideoQueue, TLAPS

LEMMA InvariantInit == Init => IInv
  BY DEF Init, IInv, Silent

\* Those who ask change neither the worker's state nor the stream.
LEMMA UsersKeep == Users => UNCHANGED <<state, stopped, streams>>
<1>1. ASSUME NEW on \in BOOLEAN, Switch(on) \/ SetTimelapse(on) PROVE UNCHANGED <<state, stopped, streams>>
  BY <1>1 DEF Switch, SetTimelapse, Others, peer
<1>2. CASE Snapshot \/ SnapshotEnds
  BY <1>2 DEF Snapshot, SnapshotEnds, Others, peer
<1>3. CASE RequestRecovery
  BY <1>3 DEF RequestRecovery, peer
<1>4. ASSUME NEW v \in Viewer, ViewerComes(v) \/ ViewerGets(v) \/ ViewerPuts(v) \/ ViewerLeaves(v)
      PROVE  UNCHANGED <<state, stopped, streams>>
  BY <1>4 DEF ViewerComes, ViewerGets, ViewerPuts, ViewerLeaves, Others, peer
<1>5. ASSUME NEW s \in Session, SessionBegins(s) \/ SessionGets(s) \/ SessionPuts(s) \/ SessionEnds(s)
      PROVE  UNCHANGED <<state, stopped, streams>>
  BY <1>5 DEF SessionBegins, SessionGets, SessionPuts, SessionEnds, sessionElse, peer
<1> QED
  BY <1>1, <1>2, <1>3, <1>4, <1>5 DEF Users

LEMMA InvariantStep == IInv /\ [Next]_vars => IInv'
<1> SUFFICES ASSUME IInv, [Next]_vars PROVE IInv'
  OBVIOUS
<1> USE DEF IInv, Silent
<1>1. CASE Users
  BY <1>1, UsersKeep
<1>2. CASE Wakes \/ Cancels
  BY <1>2 DEF Wakes, Cancels, Idling, peer
<1>3. CASE WorkerStart
  <2>1. stopped' = stopped /\ state = "Starting" /\ state' = "Running"
    BY <1>3 DEF WorkerStart
  <2> QED
    BY <2>1
<1>4. CASE WorkerStartFails
  BY <1>4 DEF WorkerStartFails
<1>5. CASE RunEnsures
  BY <1>5 DEF RunEnsures
<1>6. CASE RunRecovers \/ RunStarts \/ RunRefreshes
  <2>1. state = "Running" /\ UNCHANGED <<state, stopped>>
    BY <1>6 DEF RunRecovers, RunStarts, RunRefreshes, Watches, Runs
  <2> QED
    BY <2>1
<1>7. CASE RunRestarts \/ Unwanted
  BY <1>7 DEF RunRestarts, Unwanted, Watches, Runs, Idling, peer
<1>8. CASE WorkerStop
  BY <1>8 DEF WorkerStop
<1>9. CASE HasStopped
  BY <1>9 DEF HasStopped, Idling, peer
<1>10. CASE PThread
  <2>1. UNCHANGED <<state, stopped>> /\ (streams' => streams)
    BY <1>10 DEF PThread, PeerElse
  <2> QED
    BY <2>1
<1>11. CASE Fault \/ Frame \/ Stale
  BY <1>11 DEF Fault, Frame, Stale, PeerElse, peer
<1>12. CASE UNCHANGED vars
  BY <1>12 DEF vars, peer
<1> QED
  BY <1>1, <1>2, <1>3, <1>4, <1>5, <1>6, <1>7, <1>8, <1>9, <1>10, <1>11, <1>12 DEF Next, Thread

\* The inductive invariant holds in every reachable state of the video queue.
THEOREM Invariant == Spec => []IInv
  BY InvariantInit, InvariantStep, PTL DEF Spec

\* worker_stop() sends CLOSE_LIVE before the state says Stopped, and nothing starts the stream
\* again before worker_start(): a service that is off leaves no camera streaming.
THEOREM CameraStopped == Spec => []CameraOff
<1>1. IInv => CameraOff
  BY DEF IInv, Silent, CameraOff
<1> QED
  BY <1>1, Invariant, PTL
=============================================================================
