----------------------------- MODULE VideoQueue -----------------------------
(***************************************************************************)
(* VideoQueue (web/service/video.py), the service that keeps the printer's  *)
(* camera streaming over a borrowed PPPPService, with those who ask for it: *)
(* the video switch, the timelapse, sessions that switch the light, viewers *)
(* on /ws/video, and the notifier's snapshots.                              *)
(*                                                                         *)
(* Nobody else borrows PPPP here (ServiceManager has several borrowers), so *)
(* a put() stops it.  A service that was replaced is not seen again.  Time  *)
(* is not counted: a frame grows stale, or a wait for the first one ends,   *)
(* only if the camera does not stream.  A stop() decided on by reading the  *)
(* settings is one step with the reading.                                   *)
(***************************************************************************)
EXTENDS Naturals, FiniteSets

CONSTANTS
  Viewer,     \* clients of /ws/video
  Session,    \* calls of set_printer_light_state()
  MaxFaults,  \* bound: connections lost, streams that stall
  MaxCalls    \* bound: uses of the switches, and of sessions and viewers

ASSUME VideoAssumption == MaxFaults \in Nat /\ MaxCalls \in Nat

Retries == 2  \* _STALL_MAX_RETRIES

VARIABLES
  \* who asks
  video, timelapse, light,   \* video_enabled, timelapse_enabled, light_control_enabled
  viewer,                    \* /ws/video handlers
  session,                   \* light sessions: where they are, the flag they found
  snapshot,                  \* the notifier enabled the video and is to disable it
  \* the service
  state, wanted, persistent,
  stopped,                   \* worker_stop() is done, the state is yet to change
  held,                      \* self.pppp, _pppp_ref_held
  api,                       \* api_id: none, that of the connection, or of an earlier one
  awaiting,                  \* _awaiting_pppp_recycle
  started, frame, tries,     \* _live_started_at, last_frame_at, _stall_retry_count
  recovery,                  \* a requested recovery: none, soft or hard
  \* PPPPService and the printer
  pppp,                      \* its state and wanted flag
  attached,                  \* its xzyh_handlers have _handler
  streams,                   \* the camera streams into the connection
  faults, calls

asks == <<video, timelapse, light, viewer, session, snapshot>>
worker == <<held, api, awaiting, started, frame, tries>>
peer == <<pppp, attached, streams>>
vars == <<asks, state, wanted, persistent, stopped, worker, recovery, peer, faults, calls>>

RunState == {"Stopped", "Starting", "Running", "Stopping"}

\* Types, and what goes together.
TypeOK ==
  /\ video \in BOOLEAN /\ timelapse \in BOOLEAN /\ light \in BOOLEAN /\ snapshot \in BOOLEAN
  /\ viewer \in [Viewer -> {"away", "counted", "watching", "put", "uncounted"}]
  /\ session \in [Session -> [pc : {"idle", "set", "held", "put"}, found : BOOLEAN]]
  /\ state \in RunState /\ wanted \in BOOLEAN /\ persistent \in BOOLEAN /\ stopped \in BOOLEAN
  /\ held \in BOOLEAN /\ api \in {"none", "current", "old"} /\ awaiting \in BOOLEAN
  /\ started \in BOOLEAN /\ frame \in {"none", "fresh", "stale"} /\ tries \in 0..Retries
  /\ recovery \in {"none", "soft", "hard"}
  /\ pppp \in [state : RunState, wanted : BOOLEAN]
  /\ attached \in BOOLEAN /\ streams \in BOOLEAN /\ faults \in 0..MaxFaults /\ calls \in 0..MaxCalls
  /\ (api # "none" \/ attached) => held
  /\ stopped => state = "Stopping"

Init ==
  /\ video = FALSE /\ timelapse = FALSE /\ light = FALSE /\ snapshot = FALSE
  /\ viewer = [v \in Viewer |-> "away"]
  /\ session = [s \in Session |-> [pc |-> "idle", found |-> FALSE]]
  /\ state = "Stopped" /\ wanted = FALSE /\ persistent = FALSE /\ stopped = FALSE
  /\ held = FALSE /\ api = "none" /\ awaiting = FALSE
  /\ started = FALSE /\ frame = "none" /\ tries = 0 /\ recovery = "none"
  /\ pppp = [state |-> "Stopped", wanted |-> FALSE] /\ attached = FALSE /\ streams = FALSE
  /\ faults = 0 /\ calls = 0

-----------------------------------------------------------------------------
\* What the code computes from the settings.

Counted == {v \in Viewer : viewer[v] \in {"counted", "watching", "put"}}
Referring == {v \in Viewer : viewer[v] \in {"watching", "uncounted"}}
               \cup {s \in Session : session[s].pc = "held"}
Requested == video \/ timelapse \/ light \/ Counted # {}
Connected == pppp.state = "Running" /\ pppp.wanted
Sync == persistent' = Requested'

\* start() and stop()
Start == wanted' = (wanted \/ state \in {"Stopping", "Stopped"})
Stop == wanted' = (wanted /\ state \in {"Stopping", "Stopped"})

ClearLive == started' = FALSE /\ frame' = "none" /\ tries' = 0 /\ awaiting' = FALSE
KeepLive == UNCHANGED <<started, frame, tries, awaiting>>

\* _stop_if_unrequested()
StopIfUnrequested ==
  IF Requested' THEN KeepLive /\ UNCHANGED wanted ELSE ClearLive /\ wanted' = FALSE

-----------------------------------------------------------------------------
\* Those who ask.

Others == <<state, stopped, held, api, recovery, peer, faults>>
Call == calls < MaxCalls /\ calls' = calls + 1

\* set_video_enabled()
SetVideo(on) ==
  /\ video' = on /\ Sync
  /\ IF on THEN (IF state = "Stopped" \/ ~wanted THEN Start ELSE UNCHANGED wanted) /\ KeepLive
     ELSE IF video THEN StopIfUnrequested ELSE KeepLive /\ UNCHANGED wanted

Switch(on) ==
  /\ UNCHANGED <<timelapse, light, viewer, session, snapshot, Others>>
  /\ Call /\ SetVideo(on)

\* set_timelapse_enabled()
SetTimelapse(on) ==
  /\ UNCHANGED <<video, light, viewer, session, snapshot, Others>>
  /\ Call /\ timelapse' = on /\ Sync
  /\ IF on THEN Start /\ KeepLive
     ELSE IF timelapse THEN StopIfUnrequested ELSE KeepLive /\ UNCHANGED wanted

\* _capture_live_snapshot() of the notifier: the video is enabled for a while.
Snapshot ==
  /\ UNCHANGED <<timelapse, light, viewer, session, Others>>
  /\ Call /\ SetVideo(TRUE)
  /\ snapshot' = (snapshot \/ ~video)

\* _snapshot_disable(), of its timer: not while somebody has the service.
SnapshotEnds ==
  /\ snapshot /\ Referring = {}
  /\ UNCHANGED <<timelapse, light, viewer, session, calls, Others>>
  /\ SetVideo(FALSE) /\ snapshot' = FALSE

\* The thread will not come to a frame by itself.
NothingComes ==
  \/ ~wanted
  \/ held /\ ~pppp.wanted
  \/ state = "Running" /\ api = "current" /\ Connected /\ ~started

\* request_live_recovery(), by a timelapse that finds no recent frame.  One that does not
\* wait for what is under way counts as a fault.
RequestRecovery ==
  /\ timelapse /\ frame # "fresh"
  /\ IF NothingComes THEN UNCHANGED faults ELSE faults < MaxFaults /\ faults' = faults + 1
  /\ recovery' = IF Connected THEN "soft" ELSE "hard"
  /\ wanted' = (wanted \/ state = "Stopped")
  /\ UNCHANGED <<asks, state, persistent, stopped, worker, peer, calls>>

\* Reads no setting; the put() of the last reference stops a service that is not persistent.
PutsLast(r) == IF Referring = {r} /\ ~persistent THEN Stop ELSE UNCHANGED wanted

\* /ws/video: counted first, then the stream borrows the service and watches it.
ViewerComes(v) ==
  /\ Call /\ viewer[v] = "away" /\ viewer' = [viewer EXCEPT ![v] = "counted"]
  /\ UNCHANGED <<video, timelapse, light, session, snapshot, wanted, persistent, started, frame,
                 tries, awaiting, Others>>

\* get(): nothing is started while the worker stops.
ViewerGets(v) ==
  /\ viewer[v] = "counted" /\ state # "Stopping"
  /\ viewer' = [viewer EXCEPT ![v] = "watching"]
  /\ IF Referring = {} \/ state = "Stopped" THEN Start ELSE UNCHANGED wanted
  /\ UNCHANGED <<video, timelapse, light, session, snapshot, persistent, started, frame, tries,
                 awaiting, calls, Others>>

\* The stream ends with the service, or when the client has gone; the reference is put back
\* and the viewer is no longer counted, in either order.
ViewerPuts(v) ==
  /\ viewer[v] \in {"watching", "uncounted"}
  /\ viewer' = [viewer EXCEPT ![v] = IF @ = "watching" THEN "put" ELSE "away"]
  /\ PutsLast(v)
  /\ UNCHANGED <<video, timelapse, light, session, snapshot, persistent, started, frame, tries,
                 awaiting, calls, Others>>

\* viewer_disconnected()
ViewerLeaves(v) ==
  /\ viewer[v] \in {"watching", "put"}
  /\ viewer' = [viewer EXCEPT ![v] = IF @ = "watching" THEN "uncounted" ELSE "away"]
  /\ UNCHANGED <<video, timelapse, light, session, snapshot, persistent, started, frame, tries,
                 awaiting, calls, Others>>
  /\ IF ~Requested' /\ state = "Running" THEN Stop ELSE UNCHANGED wanted

-----------------------------------------------------------------------------
\* _send_light_via_videoqueue_session(): set the flag, borrow, send, put, restore the flag.

Goes(s, pc) == session' = [session EXCEPT ![s].pc = pc]
sessionElse == <<video, timelapse, viewer, snapshot, state, stopped, held, api, recovery, peer, faults>>

SetLight(on) ==
  /\ light' = on /\ Sync
  /\ IF on THEN Start /\ KeepLive ELSE StopIfUnrequested

SessionBegins(s) ==
  /\ Call /\ session[s].pc = "idle" /\ ~(held /\ Connected)
  /\ session' = [session EXCEPT ![s] = [pc |-> "set", found |-> light]]
  /\ UNCHANGED sessionElse
  /\ SetLight(TRUE)

SessionGets(s) ==
  /\ session[s].pc = "set" /\ state # "Stopping"
  /\ Goes(s, "held")
  /\ IF Referring = {} \/ state = "Stopped" THEN Start ELSE UNCHANGED wanted
  /\ KeepLive
  /\ UNCHANGED <<light, persistent, calls, sessionElse>>

\* The command is sent, or there was no time left, or the service is not wanted any more.
SessionPuts(s) ==
  /\ session[s].pc = "held"
  /\ Goes(s, "put") /\ PutsLast(s) /\ KeepLive
  /\ UNCHANGED <<light, persistent, calls, sessionElse>>

SessionEnds(s) ==
  /\ session[s].pc = "put"
  /\ Goes(s, "idle")
  /\ UNCHANGED <<calls, sessionElse>>
  /\ SetLight(session[s].found)

-----------------------------------------------------------------------------
\* PPPP, as the worker uses it.

\* start() wakes a thread that has stopped.
PStart ==
  pppp' = CASE pppp.state = "Stopped" -> [state |-> "Starting", wanted |-> TRUE]
            [] pppp.state = "Stopping" -> [pppp EXCEPT !.wanted = TRUE]
            [] OTHER -> pppp
\* stop() of PPPPService also closes the connection.
Put == held' = FALSE /\ pppp' = [pppp EXCEPT !.wanted = @ /\ pppp.state \in {"Stopping", "Stopped"}]

\* _ensure_pppp_ready(): a PPPP still held is waited for, and got again if nobody wants it.
\* After a recycle one that has not stopped is replaced, and one that is wanted again waited for.
OldOneRuns == awaiting /\ pppp.wanted /\ pppp.state # "Stopped"
CanEnsure == ~held \/ Connected \/ ~pppp.wanted
Ensure ==
  /\ held' = TRUE
  /\ IF held /\ Connected THEN UNCHANGED <<pppp, awaiting>>
     ELSE IF awaiting /\ ~pppp.wanted /\ pppp.state # "Stopped"
       THEN pppp' = [state |-> "Starting", wanted |-> TRUE] /\ awaiting' = FALSE
       ELSE pppp.state # "Stopping" /\ ~OldOneRuns /\ PStart /\ awaiting' = FALSE

\* api_start_live()
ApiStartLive == streams' = TRUE

\* _start_live_if_needed(), once connected
StartLive ==
  IF Requested /\ wanted THEN ApiStartLive /\ started' = TRUE /\ frame' = "none"
  ELSE UNCHANGED <<streams, started, frame>>

Elsewhere == <<asks, persistent, faults, calls>>

\* _recycle_pppp_in_place(), for somebody who wants the video
Recycle ==
  /\ streams' = (streams /\ ~Connected) /\ attached' = FALSE
  /\ IF held THEN awaiting' = TRUE /\ Put ELSE UNCHANGED <<held, awaiting, pppp>>
  /\ api' = "none" /\ started' = FALSE /\ frame' = "none" /\ tries' = 0

\* _attempt_stall_recovery(): START_LIVE again, and recycle PPPP after the last try.
Refresh ==
  IF tries + 1 < Retries
    THEN StartLive /\ tries' = tries + 1 /\ UNCHANGED <<held, api, awaiting, pppp, attached>>
    ELSE Recycle

-----------------------------------------------------------------------------
\* The service's thread.

Idling == <<Elsewhere, worker, recovery, peer>>

Wakes ==
  /\ state = "Stopped" /\ wanted /\ state' = "Starting"
  /\ UNCHANGED <<wanted, stopped, Idling>>

Cancels ==
  /\ state = "Starting" /\ ~wanted /\ state' = "Stopped"
  /\ UNCHANGED <<wanted, stopped, Idling>>

\* worker_start(); unrequested, there is nothing to start.
WorkerStart ==
  /\ state = "Starting" /\ wanted /\ state' = "Running"
  /\ IF ~Requested THEN tries' = 0 /\ UNCHANGED <<held, api, awaiting, started, frame, peer>>
     ELSE /\ CanEnsure /\ Ensure /\ tries' = 0
          /\ IF Connected
               THEN api' = "current" /\ attached' = TRUE /\ StartLive
               ELSE api' = "none" /\ UNCHANGED <<attached, streams, started, frame>>
  /\ UNCHANGED <<wanted, stopped, recovery, Elsewhere>>

\* The connection is lost before the commands are sent: worker_start() raises.
WorkerStartFails ==
  /\ state = "Starting" /\ wanted /\ Requested /\ held /\ Connected
  /\ faults < MaxFaults /\ faults' = faults + 1
  /\ pppp' = [pppp EXCEPT !.state = "Stopping"] /\ streams' = FALSE /\ attached' = TRUE
  /\ api' = "current" /\ tries' = 0
  /\ UNCHANGED <<state, wanted, stopped, held, awaiting, started, frame, recovery, asks, persistent,
                 calls>>

Runs == state = "Running" /\ wanted /\ Requested

\* worker_run(), without PPPP
RunEnsures ==
  /\ Runs /\ ~held /\ Ensure
  /\ UNCHANGED <<state, wanted, stopped, api, started, frame, tries, attached, streams, recovery,
                 Elsewhere>>

\* _handle_requested_recovery()
RunRecovers ==
  /\ Runs /\ (held \/ OldOneRuns) /\ recovery # "none" /\ recovery' = "none"
  /\ IF recovery = "hard" \/ ~Connected \/ api = "none" THEN Recycle ELSE Refresh
  /\ UNCHANGED <<state, wanted, stopped, Elsewhere>>

Watches == Runs /\ held /\ recovery = "none" /\ Connected

\* Mutant: the handler is added only by worker_start().
RunStarts_NoHandler ==
  /\ Watches /\ api = "none"
  /\ api' = "current" /\ UNCHANGED attached /\ StartLive
  /\ UNCHANGED <<state, wanted, stopped, held, awaiting, tries, recovery, pppp, Elsewhere>>

\* Late: PPPP has connected since.
RunStarts ==
  /\ Watches /\ api = "none"
  /\ api' = "current" /\ attached' = TRUE /\ StartLive
  /\ UNCHANGED <<state, wanted, stopped, held, awaiting, tries, recovery, pppp, Elsewhere>>

\* Another connection: ServiceRestartSignal.
RunRestarts ==
  /\ Watches /\ api = "old" /\ state' = "Stopping"
  /\ UNCHANGED <<wanted, stopped, Idling>>

\* No frame any more, or no first frame, and somebody who looks.
RunRefreshes ==
  /\ Watches /\ api = "current" /\ (timelapse \/ Referring \cap Viewer # {})
  /\ frame = "stale" \/ (frame = "none" /\ started /\ ~(streams /\ attached))
  /\ Refresh
  /\ UNCHANGED <<state, wanted, stopped, recovery, Elsewhere>>

Unwanted ==
  /\ state = "Running" /\ ~wanted /\ state' = "Stopping"
  /\ UNCHANGED <<wanted, stopped, Idling>>

\* Mutant: CLOSE_LIVE is sent only by who gives PPPP back.
WorkerStop_LeavesLive ==
  /\ state = "Stopping" /\ ~stopped /\ stopped' = TRUE
  /\ attached' = FALSE
  /\ IF held /\ ~(wanted /\ Requested) THEN Put /\ streams' = FALSE ELSE UNCHANGED <<held, pppp, streams>>
  /\ api' = "none" /\ started' = FALSE
  /\ UNCHANGED <<state, wanted, awaiting, frame, tries, recovery, Elsewhere>>

\* worker_stop(): PPPP is kept for a restart.
WorkerStop ==
  /\ state = "Stopping" /\ ~stopped /\ stopped' = TRUE
  /\ streams' = FALSE /\ attached' = FALSE
  /\ IF held /\ ~(wanted /\ Requested) THEN Put ELSE UNCHANGED <<held, pppp>>
  /\ api' = "none" /\ started' = FALSE
  /\ UNCHANGED <<state, wanted, awaiting, frame, tries, recovery, Elsewhere>>

HasStopped ==
  /\ stopped /\ stopped' = FALSE /\ state' = "Stopped"
  /\ UNCHANGED <<wanted, Idling>>

Thread ==
  Wakes \/ Cancels \/ WorkerStart \/ RunEnsures \/ RunRecovers \/ RunStarts
    \/ RunRestarts \/ RunRefreshes \/ Unwanted \/ WorkerStop \/ HasStopped

-----------------------------------------------------------------------------
\* PPPPService and the camera.

PeerElse == <<asks, state, wanted, persistent, stopped, held, awaiting, started, tries, recovery, calls>>

\* Its thread.  The id() of the new connection's object may be that of the old one.
PThread ==
  /\ CASE pppp.state = "Stopped" -> pppp.wanted /\ pppp' = [pppp EXCEPT !.state = "Starting"]
       [] pppp.state = "Starting" /\ ~pppp.wanted -> pppp' = [pppp EXCEPT !.state = "Stopped"]
       [] pppp.state = "Starting" /\ pppp.wanted -> pppp' = [pppp EXCEPT !.state = "Running"]
       [] pppp.state = "Running" -> ~pppp.wanted /\ pppp' = [pppp EXCEPT !.state = "Stopping"]
       [] pppp.state = "Stopping" -> pppp' = [pppp EXCEPT !.state = "Stopped"]
  /\ api' \in IF pppp'.state = "Running" /\ api = "current" THEN {"current", "old"} ELSE {api}
  /\ streams' = (streams /\ Connected)
  /\ UNCHANGED <<frame, attached, faults, PeerElse>>

\* The connection is lost, or the camera stops.
Fault ==
  /\ faults < MaxFaults /\ faults' = faults + 1 /\ Connected
  /\ streams' = FALSE
  /\ pppp' \in {pppp, [pppp EXCEPT !.state = "Stopping"]}
  /\ UNCHANGED <<api, frame, attached, PeerElse>>

\* _handler()
Frame ==
  /\ streams /\ attached /\ Connected
  /\ frame' = "fresh" /\ tries' = 0
  /\ UNCHANGED <<asks, state, wanted, persistent, stopped, held, api, awaiting, started, recovery,
                 peer, faults, calls>>

\* No frame for _STALL_TIMEOUT
Stale ==
  /\ frame = "fresh" /\ ~(streams /\ attached /\ Connected)
  /\ frame' = "stale"
  /\ UNCHANGED <<api, peer, faults, PeerElse>>

Users ==
  \/ \E on \in BOOLEAN : Switch(on) \/ SetTimelapse(on)
  \/ Snapshot \/ SnapshotEnds \/ RequestRecovery
  \/ \E v \in Viewer : ViewerComes(v) \/ ViewerGets(v) \/ ViewerPuts(v) \/ ViewerLeaves(v)
  \/ \E s \in Session : SessionBegins(s) \/ SessionGets(s) \/ SessionPuts(s) \/ SessionEnds(s)

Next == Users \/ Thread \/ WorkerStartFails \/ PThread \/ Fault \/ Frame \/ Stale

Spec == Init /\ [][Next]_vars

\* The threads run, PPPP connects when it is wanted, a camera that streams sends frames, and
\* a timelapse without a recent frame asks for recovery.
FairSpec ==
  /\ Spec
  /\ WF_vars(Thread) /\ WF_vars(PThread) /\ WF_vars(Frame) /\ WF_vars(Stale)
  /\ WF_vars(RequestRecovery) /\ WF_vars(SnapshotEnds)
  /\ \A v \in Viewer : SF_vars(ViewerGets(v)) /\ WF_vars(state # "Running" /\ ViewerPuts(v))
  /\ \A s \in Session : SF_vars(SessionGets(s)) /\ WF_vars(SessionPuts(s)) /\ WF_vars(SessionEnds(s))

-----------------------------------------------------------------------------
\* The camera does not stream for a service that is off.
CameraOff == state = "Stopped" => ~streams

\* A timelapse that goes on gets frames again and again, whatever was lost, restarted,
\* recycled or switched off meanwhile.
StreamRecovers == <>[]timelapse => []<>(frame = "fresh")

\* It does, but for a recycled PPPP whose stop was lost: that one is waited for.
RecoversUnlessStopLost == StreamRecovers \/ <>[](awaiting /\ pppp.wanted)

\* What makes CameraOff inductive: it streams only for a worker that has been started and has
\* not been stopped, and a worker that has been stopped is about to say so.
Silent == state \in {"Stopped", "Starting"} \/ stopped
IInv == (Silent => ~streams) /\ (stopped => state = "Stopping")

=============================================================================
