------------------------- MODULE HomeAssistantProofs -------------------------
(***************************************************************************)
(* That Home Assistant has one entry for the camera, and that a bridge     *)
(* which has been stopped is not shown as available, for any number of     *)
(* connections, calls and faults.  IInv is the conjunction of three parts, *)
(* each proved by one step per action: CameraInv alone, ConnectionInv      *)
(* alone, and ShownInv from ConnectionInv.                                 *)
(***************************************************************************)
EXTENDS HomeAssistant, TLAPS

LEMMA CameraInit == Init => CameraInv
  BY DEF Init, CameraInv

LEMMA CameraStep == CameraInv /\ [Next]_vars => CameraInv'
<1> SUFFICES ASSUME CameraInv, [Next]_vars PROVE CameraInv'
  OBVIOUS
<1> USE DEF CameraInv
<1>1. ASSUME NEW c \in Caller, Start(c) PROVE CameraInv'
  BY <1>1 DEF Start, remote, hearts
<1>2. ASSUME NEW c \in Caller, StopTakesLock(c) PROVE CameraInv'
  BY <1>2 DEF StopTakesLock, Unregister, loop
<1>3. ASSUME NEW c \in Caller, StopSilences(c) \/ StopOffline(c) \/ StopDisconnects(c) PROVE CameraInv'
  BY <1>3 DEF StopSilences, StopOffline, StopDisconnects, Stopping, loop
<1>4. ASSUME NEW c \in Caller, StopEnds(c) PROVE CameraInv'
  BY <1>4 DEF StopEnds, remote
<1>5. CASE SessionBegins \/ SessionEnds \/ Session
  BY <1>5 DEF SessionBegins, SessionEnds, Session, UpdateChecks, UpdateSets, mqttElse, loop
<1>6. ASSUME NEW on, NEW changed, Reload(on, changed) PROVE CameraInv'
  BY <1>6 DEF Reload, loop, remote
<1>7. CASE Connects \/ Greets \/ SaysOnline \/ StopsHeart \/ StartsHeart
  BY <1>7 DEF Connects, Greets, SaysOnline, StopsHeart, StartsHeart, NewHeart, heartsElse, remote
<1>8. CASE LooksForCamera
  <2>1. cameras' = cameras
    BY <1>8 DEF LooksForCamera
  <2>2. entry' => entry \/ cameras > 0
    BY <1>8, Zenon DEF LooksForCamera
  <2>3. paho' = "adding" => ~(cameras > 0)
    BY <1>8 DEF LooksForCamera
  <2> QED
    BY <2>1, <2>2, <2>3
<1>9. CASE AddsCamera
  BY <1>9 DEF AddsCamera, camerasElse
<1>10. CASE LightSet \/ Disconnects \/ Command
  BY <1>10 DEF LightSet, Disconnects, Command, remote
<1>11. ASSUME NEW g \in Generations, Heart(g) PROVE CameraInv'
  BY <1>11 DEF Heart, HeartChecks, HeartSends, heartElse, loop
<1>12. CASE LinkBreaks \/ Will
  BY <1>12 DEF LinkBreaks, Will, loop
<1>13. CASE UNCHANGED vars
  BY <1>13 DEF vars, loop, remote
<1> QED
  BY <1>1, <1>2, <1>3, <1>4, <1>5, <1>6, <1>7, <1>8, <1>9, <1>10, <1>11, <1>12, <1>13 DEF Next, Stops, Loop

LEMMA ConnectionInit == Init => ConnectionInv
  BY DEF Init, ConnectionInv, Holding, Ops

LEMMA ConnectionStep == ConnectionInv /\ [Next]_vars => ConnectionInv'
<1> SUFFICES ASSUME ConnectionInv, [Next]_vars PROVE ConnectionInv'
  OBVIOUS
<1> USE DEF ConnectionInv, Holding, Ops, At, Goes
<1>1. ASSUME NEW c \in Caller, Start(c) PROVE ConnectionInv'
  BY <1>1 DEF Start, Started, remote
<1>2. ASSUME NEW c \in Caller, StopTakesLock(c) PROVE ConnectionInv'
  <2>1. UNCHANGED <<client, paho, leaving, connected, link>> /\ lock = "free"
    BY <1>2 DEF StopTakesLock, loop
  <2>2. CASE client /\ lock' = c /\ caller' = [caller EXCEPT ![c] = "silence"]
    BY <2>1, <2>2 DEF Caller
  <2>3. CASE caller' = [caller EXCEPT ![c] = Stopped(c)]
    BY <2>1, <2>3 DEF Stopped, Caller
  <2> QED
    BY <1>2, <2>2, <2>3 DEF StopTakesLock
<1>3. ASSUME NEW c \in Caller, StopSilences(c) PROVE ConnectionInv'
  BY <1>3 DEF StopSilences, Stopping, loop
<1>4. ASSUME NEW c \in Caller, StopOffline(c) PROVE ConnectionInv'
  BY <1>4 DEF StopOffline, Stopping, loop
<1>5. ASSUME NEW c \in Caller, StopDisconnects(c) PROVE ConnectionInv'
  BY <1>5 DEF StopDisconnects, Stopping
<1>6. ASSUME NEW c \in Caller, StopEnds(c) PROVE ConnectionInv'
  BY <1>6 DEF StopEnds, Stopped, remote
<1>7. CASE SessionBegins \/ SessionEnds
  BY <1>7 DEF SessionBegins, SessionEnds, mqttElse, loop
<1>8. CASE Session
  BY <1>8 DEF Session, UpdateChecks, UpdateSets, mqttElse, loop
<1>9. ASSUME NEW on, NEW changed, Reload(on, changed) PROVE ConnectionInv'
  BY <1>9 DEF Reload, loop, remote
<1>10. CASE Connects
  BY <1>10 DEF Connects, bridge
<1>11. CASE Greets \/ SaysOnline
  BY <1>11 DEF Greets, SaysOnline, bridge
<1>12. CASE StopsHeart \/ StartsHeart
  BY <1>12 DEF StopsHeart, StartsHeart, NewHeart, heartsElse, remote, bridge
<1>13. CASE LooksForCamera \/ AddsCamera
  BY <1>13 DEF LooksForCamera, AddsCamera, camerasElse, bridge
<1>14. CASE LightSet \/ Command
  BY <1>14 DEF LightSet, Command, remote, bridge
<1>15. CASE Disconnects
  BY <1>15 DEF Disconnects, remote, bridge
<1>16. ASSUME NEW g \in Generations, Heart(g) PROVE ConnectionInv'
  BY <1>16 DEF Heart, HeartChecks, HeartSends, heartElse, loop, bridge
<1>17. CASE LinkBreaks \/ Will
  BY <1>17 DEF LinkBreaks, Will, loop, bridge
<1>18. CASE UNCHANGED vars
  BY <1>18 DEF vars, loop, remote, bridge
<1> QED
  BY <1>1, <1>2, <1>3, <1>4, <1>5, <1>6, <1>7, <1>8, <1>9, <1>10, <1>11, <1>12, <1>13, <1>14, <1>15, <1>16,
     <1>17, <1>18 DEF Next, Stops, Loop

LEMMA ShownInit == Init => ShownInv
  BY DEF Init, ShownInv, At

\* Saying "online" over a connection there is; what crosses a stop is noted.
LEMMA OnlineShown ==
  ASSUME ConnectionInv, ShownInv, Online("online"), Crosses, UNCHANGED <<client, connected, link, known, caller>>,
         paho' = "hello" <=> paho = "hello"
  PROVE  ShownInv'
<1>1. Arrives => link = "up" /\ paho # "hello" /\ known
  BY DEF Arrives, ConnectionInv, ShownInv
<1>2. CASE Arrives
  BY <1>1, <1>2 DEF Online, Crosses, ShownInv, At
<1>3. CASE ~Arrives
  <2>1. avail' = avail
    BY <1>3 DEF Online
  <2>2. ~crossed' => ~crossed
    BY DEF Crosses
  <2> QED
    BY <2>1, <2>2 DEF ShownInv, At
<1> QED
  BY <1>2, <1>3

LEMMA ShownStep == ConnectionInv /\ ShownInv /\ [Next]_vars => ShownInv'
<1> SUFFICES ASSUME ConnectionInv, ShownInv, [Next]_vars PROVE ShownInv'
  OBVIOUS
<1> USE DEF ShownInv, At, Goes
<1>1. ASSUME NEW c \in Caller, Start(c) PROVE ShownInv'
  BY <1>1 DEF Start, Started, remote, ConnectionInv
<1>2. ASSUME NEW c \in Caller, StopTakesLock(c) PROVE ShownInv'
  <2>1. UNCHANGED <<avail, crossed, known, link, paho>>
    BY <1>2 DEF StopTakesLock, loop
  <2>2. \A d \in Caller : caller'[d] = "disconnect" => caller[d] = "disconnect"
    BY <1>2 DEF StopTakesLock, Stopped, ConnectionInv
  <2> QED
    BY <2>1, <2>2
<1>3. ASSUME NEW c \in Caller, StopSilences(c) PROVE ShownInv'
  BY <1>3 DEF StopSilences, Stopping, loop, ConnectionInv
<1>4. ASSUME NEW c \in Caller, StopOffline(c) PROVE ShownInv'
  <2>1. client /\ UNCHANGED <<known, link, paho>>
    BY <1>4 DEF StopOffline, Stopping, loop, ConnectionInv, Holding
  <2>2. CASE Arrives
    BY <1>4, <2>1, <2>2 DEF StopOffline, Online
  <2>3. CASE ~Arrives
    <3>1. link = "up" => paho = "hello"
      BY <2>1, <2>3 DEF Arrives, ConnectionInv
    <3>2. avail' = avail /\ (crossed' <=> crossed)
      BY <1>4, <2>3 DEF StopOffline, Online
    <3> QED
      BY <2>1, <3>1, <3>2
  <2> QED
    BY <2>2, <2>3
<1>5. ASSUME NEW c \in Caller, StopDisconnects(c) PROVE ShownInv'
  BY <1>5 DEF StopDisconnects, Stopping
<1>6. ASSUME NEW c \in Caller, StopEnds(c) PROVE ShownInv'
  BY <1>6 DEF StopEnds, Stopped, remote, ConnectionInv
<1>7. CASE SessionBegins \/ SessionEnds
  BY <1>7 DEF SessionBegins, SessionEnds, mqttElse, loop, ConnectionInv
<1>8. CASE Session
  <2>1. UNCHANGED <<avail, crossed, known, link, paho>>
    BY <1>8 DEF Session, UpdateChecks, UpdateSets, mqttElse, loop
  <2>2. \A d \in Caller : caller'[d] = "disconnect" => caller[d] = "disconnect"
    BY <1>8 DEF Session, UpdateChecks, UpdateSets, ConnectionInv
  <2> QED
    BY <2>1, <2>2
<1>9. ASSUME NEW on, NEW changed, Reload(on, changed) PROVE ShownInv'
  BY <1>9 DEF Reload, loop, remote, ConnectionInv
<1>10. CASE Connects
  BY <1>10 DEF Connects, bridge
<1>11. CASE Greets
  BY <1>11 DEF Greets, Discovery, bridge
<1>12. CASE SaysOnline
  BY <1>12, OnlineShown DEF SaysOnline, bridge
<1>13. CASE StopsHeart \/ StartsHeart
  BY <1>13 DEF StopsHeart, StartsHeart, NewHeart, heartsElse, remote, bridge
<1>14. CASE LooksForCamera \/ AddsCamera
  BY <1>14 DEF LooksForCamera, AddsCamera, camerasElse, bridge
<1>15. CASE LightSet \/ Command \/ Disconnects
  BY <1>15 DEF LightSet, Command, Disconnects, remote, bridge
<1>16. ASSUME NEW g \in Generations, Heart(g) PROVE ShownInv'
  <2>1. UNCHANGED <<client, connected, link, known, caller, paho>>
    BY <1>16 DEF Heart, HeartChecks, HeartSends, heartElse, loop, bridge
  <2>2. CASE HeartChecks(g)
    BY <2>1, <2>2 DEF HeartChecks
  <2>3. CASE HeartSends(g)
    BY <2>1, <2>3, OnlineShown DEF HeartSends
  <2> QED
    BY <1>16, <2>2, <2>3 DEF Heart
<1>17. CASE LinkBreaks \/ Will
  BY <1>17 DEF LinkBreaks, Will, loop, bridge
<1>18. CASE UNCHANGED vars
  BY <1>18 DEF vars, loop, remote, bridge
<1> QED
  BY <1>1, <1>2, <1>3, <1>4, <1>5, <1>6, <1>7, <1>8, <1>9, <1>10, <1>11, <1>12, <1>13, <1>14, <1>15, <1>16,
     <1>17, <1>18 DEF Next, Stops, Loop

LEMMA InvariantStep == IInv /\ [Next]_vars => IInv'
  BY CameraStep, ConnectionStep, ShownStep DEF IInv

\* The inductive invariant holds in every reachable state of the bridge.
THEOREM Invariant == Spec => []IInv
<1>1. Init => IInv
  BY CameraInit, ConnectionInit, ShownInit DEF IInv
<1>2. IInv /\ [Next]_vars => IInv'
  BY InvariantStep
<1> QED
  BY <1>1, <1>2, PTL DEF Spec

\* _register_ha_mjpeg_camera() makes an entry only where there is none, whatever answers are lost.
THEOREM CameraOnce == Spec => []OneCamera
<1>1. IInv => OneCamera
  BY DEF IInv, CameraInv, OneCamera
<1> QED
  BY <1>1, Invariant, PTL

\* stop() says "offline" before it disconnects, and the will says it for a connection that is
\* lost: a stopped bridge is shown as available only if an "online" crossed stop().
THEOREM OfflineWhenStopped == Spec => []StoppedIsOffline
<1>1. IInv => StoppedIsOffline
  BY DEF IInv, ShownInv, StoppedIsOffline
<1> QED
  BY <1>1, Invariant, PTL
=============================================================================
