---------------------------- MODULE HomeAssistant ----------------------------
(***************************************************************************)
(* The bridge of one printer to Home Assistant                              *)
(* (web/service/homeassistant.py), the broker it is connected to, and those *)
(* who call it: the thread of the MQTT service, the route that saves the    *)
(* settings, the loop thread of the MQTT client (paho), which runs the      *)
(* callbacks, and the availability threads.                                 *)
(*                                                                         *)
(* An action is what lies between two waits, two uses of _lock, or two      *)
(* messages whose order matters.  Of the state that is shown, the flag      *)
(* mqtt_connected is kept.                 What is published while the link *)
(* is broken, or not there, is lost: quality of service 0.                  *)
(***************************************************************************)
EXTENDS Naturals, FiniteSets

CONSTANTS
  MaxLinks,   \* bound: connections to the broker
  MaxCalls,   \* bound: sessions of the MQTT service, settings saved, light commands
  MaxFaults   \* bound: links lost, threads that do not end in time, answers lost

ASSUME HomeAssumption == MaxLinks \in Nat /\ MaxCalls \in Nat /\ MaxFaults \in Nat

Caller == {"mqtt", "reload"}
Generations == 1 .. MaxLinks
Ops == {"idle", "start", "stop", "silence", "offline", "disconnect", "await"}

VARIABLES
  enabled,    \* _enabled
  client,     \* _client is there
  lock,       \* who holds _lock over more than one step
  caller,     \* where the two callers are
  again,      \* a reload starts the client again
  paho,       \* the loop thread
  leaving,    \* it has been told to end
  connected,  \* _connected
  stopEvent,  \* _stop_event
  generation, \* _availability_generation
  heart,      \* the availability threads
  state,      \* mqtt_connected in _state
  entry,      \* _ha_mjpeg_entry_id is known
  link,       \* the broker's connection
  avail,      \* retained: availability
  shown,      \* retained: mqtt_connected
  known,      \* retained: what describes the device and its entities
  cameras,    \* the entries Home Assistant has for the camera
  crossed,    \* "online" has overtaken the "offline" of a stop
  calls, faults

bridge == <<enabled, client, lock, caller, again>>
loop == <<paho, leaving, connected>>
hearts == <<stopEvent, generation, heart>>
remote == <<link, avail, shown, known, cameras>>
vars == <<bridge, loop, hearts, state, entry, remote, crossed, calls, faults>>

\* Types; a thread belongs to a client, and what is available has been described.
TypeOK ==
  /\ enabled \in BOOLEAN /\ client \in BOOLEAN /\ lock \in Caller \cup {"free"}
  /\ caller \in [Caller -> Ops \cup {"tell", "set", "up", "untell", "unset"}] /\ again \in BOOLEAN
  /\ paho \in {"none", "away", "hello", "greeting", "hearts", "joining", "looking", "adding",
               "loop", "light"}
  /\ leaving \in BOOLEAN /\ connected \in BOOLEAN /\ stopEvent \in BOOLEAN
  /\ generation \in 0..MaxLinks /\ heart \in [Generations -> {"dead", "wait", "send"}]
  /\ state \in BOOLEAN /\ shown \in BOOLEAN
  /\ entry \in BOOLEAN /\ link \in {"none", "up", "broken"}
  /\ avail \in {"none", "online", "offline"} /\ cameras \in 0..2 /\ crossed \in BOOLEAN
  /\ calls \in 0..MaxCalls /\ faults \in 0..MaxFaults
  /\ known \in BOOLEAN

\* The bridge has been made with the service, which starts it if the settings say so.
Init ==
  /\ enabled \in BOOLEAN /\ client = enabled /\ lock = "free" /\ again = FALSE
  /\ caller = [c \in Caller |-> "idle"]
  /\ paho = (IF enabled THEN "away" ELSE "none") /\ leaving = FALSE /\ connected = FALSE
  /\ stopEvent = FALSE /\ generation = 0 /\ heart = [g \in Generations |-> "dead"]
  /\ state = FALSE /\ entry = FALSE /\ link = "none" /\ avail = "none" /\ shown = FALSE /\ known = FALSE
  /\ cameras = 0 /\ crossed = FALSE /\ calls = 0 /\ faults = 0

-----------------------------------------------------------------------------
\* Publishing.

Arrives == client /\ connected /\ link = "up"
Online(says) == avail' = IF Arrives THEN says ELSE avail
\* _publish_state()
PublishState == shown' = IF Arrives THEN state' ELSE shown

Alive(g) == heart[g] # "dead"
Current == generation \in Generations /\ Alive(generation)

At(c, pc) == caller[c] = pc
Goes(c, pc) == caller' = [caller EXCEPT ![c] = pc]
Call == calls < MaxCalls /\ calls' = calls + 1
Fault == faults < MaxFaults /\ faults' = faults + 1

\* Where a caller goes on after start() and after stop().
Started(c) == IF c = "mqtt" THEN "tell" ELSE "idle"
Stopped(c) == IF c = "reload" /\ again THEN "start" ELSE "idle"

-----------------------------------------------------------------------------
\* start() and stop(), of either caller.

Start(c) ==
  /\ At(c, "start") /\ lock = "free"
  /\ Goes(c, Started(c))
  /\ IF enabled /\ ~client THEN client' = TRUE /\ paho' = "away" ELSE UNCHANGED <<client, paho>>
  /\ UNCHANGED <<enabled, lock, again, leaving, connected, hearts, state, entry, remote, crossed,
                 calls, faults>>

\* _unregister_ha_mjpeg_camera(): the request may fail, the entry is forgotten all the same.
Unregister ==
  /\ entry' = FALSE
  /\ \/ cameras' = (IF entry THEN cameras - 1 ELSE cameras) /\ UNCHANGED faults
     \/ entry /\ Fault /\ UNCHANGED cameras

StopTakesLock(c) ==
  /\ At(c, "stop") /\ lock = "free"
  /\ Unregister
  /\ IF client THEN lock' = c /\ Goes(c, "silence") /\ stopEvent' = TRUE
     ELSE Goes(c, Stopped(c)) /\ UNCHANGED <<lock, stopEvent>>
  /\ UNCHANGED <<enabled, client, again, loop, generation, heart, state, link, avail, shown, known,
                 crossed, calls>>

Stopping == <<enabled, client, again, generation, heart, stopEvent, state, entry, shown, known,
              cameras, calls>>

\* The thread in _availability_thread ends, or is not waited for any longer; on_connect may
\* have cleared the event meanwhile.
StopSilences(c) ==
  /\ At(c, "silence") /\ Goes(c, "offline")
  /\ IF Current /\ stopEvent THEN Fault ELSE UNCHANGED faults
  /\ UNCHANGED <<lock, loop, link, avail, crossed, Stopping>>

\* Mutant: disconnected first, the message has nowhere to go.
StopOffline_TooLate(c) ==
  /\ At(c, "offline") /\ Goes(c, "disconnect")
  /\ UNCHANGED <<lock, loop, link, avail, crossed, faults, Stopping>>

StopOffline(c) ==
  /\ At(c, "offline") /\ Goes(c, "disconnect")
  /\ Online("offline") /\ crossed' = (crossed /\ ~Arrives)
  /\ UNCHANGED <<lock, loop, link, faults, Stopping>>

\* disconnect(), and loop_stop() tells the thread to end.
StopDisconnects(c) ==
  /\ At(c, "disconnect") /\ Goes(c, "await")
  /\ link' = (IF link = "up" THEN "none" ELSE link) /\ leaving' = TRUE
  /\ UNCHANGED <<lock, paho, connected, avail, crossed, faults, Stopping>>

StopEnds(c) ==
  /\ At(c, "await") /\ paho = "none"
  /\ Goes(c, Stopped(c)) /\ lock' = "free"
  /\ client' = FALSE /\ connected' = FALSE /\ leaving' = FALSE
  /\ UNCHANGED <<enabled, again, paho, hearts, state, entry, remote, crossed, calls, faults>>

Stops(c) ==
  StopTakesLock(c) \/ StopSilences(c) \/ StopOffline(c) \/ StopDisconnects(c) \/ StopEnds(c)

-----------------------------------------------------------------------------
\* The thread of the MQTT service: worker_start() and worker_stop().

mqttElse == <<enabled, client, lock, again, loop, hearts, entry, link, avail, known, cameras, crossed,
              faults>>

SessionBegins ==
  /\ At("mqtt", "idle") /\ Call /\ Goes("mqtt", "start")
  /\ UNCHANGED <<state, shown, mqttElse>>

SessionEnds ==
  /\ At("mqtt", "up") /\ Goes("mqtt", "untell")
  /\ UNCHANGED <<state, shown, calls, mqttElse>>

\* update_state(): nothing is kept of an update while there is no connection.
UpdateChecks(from, wait, next) ==
  /\ At("mqtt", from) /\ Goes("mqtt", IF enabled /\ connected THEN wait ELSE next)
  /\ UNCHANGED <<state, shown, calls, mqttElse>>

\* ... and what has not changed is not published.
UpdateSets(from, flag, next) ==
  /\ At("mqtt", from) /\ lock = "free" /\ Goes("mqtt", next)
  /\ state' = flag
  /\ IF state' = state THEN UNCHANGED shown ELSE PublishState
  /\ UNCHANGED <<calls, mqttElse>>

Session ==
  \/ UpdateChecks("tell", "set", "up") \/ UpdateSets("set", TRUE, "up")
  \/ UpdateChecks("untell", "unset", "stop") \/ UpdateSets("unset", FALSE, "stop")

-----------------------------------------------------------------------------
\* reload_config(): decided under the lock, done after it.

Reload(on, changed) ==
  /\ At("reload", "idle") /\ lock = "free" /\ Call
  /\ enabled' = on /\ again' = on
  /\ Goes("reload", IF client /\ (IF on THEN changed ELSE enabled) THEN "stop"
                    ELSE IF on /\ ~client THEN "start" ELSE "idle")
  /\ UNCHANGED <<client, lock, loop, hearts, state, entry, remote, crossed, faults>>

-----------------------------------------------------------------------------
\* The loop thread, and what it calls back.

Connects ==
  /\ paho = "away" /\ ~leaving /\ link = "none" /\ generation < MaxLinks
  /\ paho' = "hello" /\ link' = "up"
  /\ UNCHANGED <<bridge, leaving, connected, hearts, state, entry, avail, shown, known, cameras,
                 crossed, calls, faults>>

\* _publish_discovery(): sensors, binary sensors, the light switch and the camera
Discovery == known' = (known \/ link = "up")

\* _on_connect()
Greets ==
  /\ paho = "hello" /\ paho' = "greeting" /\ connected' = TRUE
  /\ Discovery
  /\ UNCHANGED <<bridge, leaving, hearts, state, entry, link, avail, shown, cameras, crossed, calls,
                 faults>>

Crosses == crossed' = (crossed \/ \E c \in Caller : At(c, "disconnect"))

\* Mutant: on_connect takes the lock to publish.
SaysOnline_UnderLock ==
  /\ paho = "greeting" /\ paho' = "hearts" /\ lock = "free"
  /\ Online("online") /\ Crosses
  /\ UNCHANGED <<bridge, leaving, connected, hearts, state, entry, link, shown, known, cameras, calls,
                 faults>>

SaysOnline ==
  /\ paho = "greeting" /\ paho' = "hearts"
  /\ Online("online") /\ Crosses
  /\ UNCHANGED <<bridge, leaving, connected, hearts, state, entry, link, shown, known, cameras, calls,
                 faults>>

NewHeart ==
  /\ generation' = generation + 1 /\ stopEvent' = FALSE
  /\ heart' = [heart EXCEPT ![generation + 1] = "wait"]
  /\ paho' = "looking"

heartsElse == <<bridge, leaving, connected, state, entry, remote, crossed, calls>>

\* The thread there is is stopped first, and is waited for two seconds.
StopsHeart ==
  /\ paho = "hearts"
  /\ IF Current THEN paho' = "joining" /\ stopEvent' = TRUE /\ UNCHANGED <<generation, heart>>
     ELSE NewHeart
  /\ UNCHANGED <<faults, heartsElse>>

StartsHeart ==
  /\ paho = "joining"
  /\ IF Current THEN Fault ELSE UNCHANGED faults
  /\ NewHeart
  /\ UNCHANGED heartsElse

\* _register_ha_mjpeg_camera(): an entry there is is taken over.
camerasElse == <<bridge, leaving, connected, hearts, state, link, avail, shown, known, crossed, calls>>

\* Mutant: only an entry whose id is known is there.
LooksForCamera_ById ==
  /\ paho = "looking"
  /\ paho' = (IF entry THEN "loop" ELSE "adding")
  /\ UNCHANGED <<entry, cameras, faults, camerasElse>>

LooksForCamera ==
  /\ paho = "looking"
  /\ \/ Fault /\ paho' = "loop" /\ UNCHANGED entry
     \/ /\ paho' = (IF cameras > 0 THEN "loop" ELSE "adding")
        /\ entry' = (entry \/ cameras > 0) /\ UNCHANGED faults
  /\ UNCHANGED <<cameras, camerasElse>>

\* The answer may be lost, the entry made or not.
AddsCamera ==
  /\ paho = "adding" /\ paho' = "loop"
  /\ \/ cameras' = cameras + 1 /\ entry' = TRUE /\ UNCHANGED faults
     \/ cameras' \in {cameras, cameras + 1} /\ Fault /\ UNCHANGED entry
  /\ UNCHANGED camerasElse

\* _on_message(): the light is switched, which takes its time, and then _lock is taken.
Command ==
  /\ paho = "loop" /\ link = "up" /\ Call /\ paho' = "light"
  /\ UNCHANGED <<bridge, leaving, connected, hearts, state, entry, remote, crossed, faults>>

LightSet ==
  /\ paho = "light" /\ lock = "free" /\ paho' = "loop"
  /\ UNCHANGED state /\ PublishState
  /\ UNCHANGED <<bridge, leaving, connected, hearts, entry, link, avail, known, cameras, crossed,
                 calls, faults>>

\* _on_disconnect(); the thread ends, or connects again.
Disconnects ==
  /\ paho \in {"loop", "away"}
  /\ leaving \/ (paho = "loop" /\ link # "up")
  /\ paho' = (IF leaving THEN "none" ELSE "away") /\ connected' = FALSE
  /\ UNCHANGED <<bridge, leaving, hearts, state, entry, remote, crossed, calls, faults>>

Loop ==
  Connects \/ Greets \/ SaysOnline \/ StopsHeart \/ StartsHeart \/ LooksForCamera \/ AddsCamera
    \/ LightSet \/ Disconnects

-----------------------------------------------------------------------------
\* _availability_loop()

heartElse == <<bridge, loop, stopEvent, generation, state, entry, link, shown, known, cameras, calls,
                 faults>>

\* Mutant: no generation.
HeartChecks_NoGeneration(g) ==
  /\ heart[g] = "wait"
  /\ heart' = [heart EXCEPT ![g] = IF stopEvent THEN "dead" ELSE "send"]
  /\ UNCHANGED <<avail, crossed, heartElse>>

HeartChecks(g) ==
  /\ heart[g] = "wait"
  /\ heart' = [heart EXCEPT ![g] = IF stopEvent \/ generation # g THEN "dead" ELSE "send"]
  /\ UNCHANGED <<avail, crossed, heartElse>>

HeartSends(g) ==
  /\ heart[g] = "send" /\ heart' = [heart EXCEPT ![g] = "wait"]
  /\ Online("online") /\ Crosses
  /\ UNCHANGED heartElse

Heart(g) == HeartChecks(g) \/ HeartSends(g)

-----------------------------------------------------------------------------
\* The network, and the broker, which publishes the will of a client it has lost.

LinkBreaks ==
  /\ link = "up" /\ link' = "broken" /\ Fault
  /\ UNCHANGED <<bridge, loop, hearts, state, entry, avail, shown, known, cameras, crossed, calls>>

Will ==
  /\ link = "broken" /\ link' = "none" /\ avail' = "offline" /\ crossed' = FALSE
  /\ UNCHANGED <<bridge, loop, hearts, state, entry, shown, known, cameras, calls, faults>>

Next ==
  \/ \E c \in Caller : Start(c) \/ Stops(c)
  \/ SessionBegins \/ SessionEnds \/ Session
  \/ \E on, changed \in BOOLEAN : Reload(on, changed)
  \/ Loop \/ Command
  \/ \E g \in Generations : Heart(g)
  \/ LinkBreaks \/ Will

Spec == Init /\ [][Next]_vars

\* The threads run, requests are answered, and the broker can be reached.
Fairness ==
  /\ \A c \in Caller : WF_vars(Start(c)) /\ WF_vars(Stops(c))
  /\ WF_vars(Session) /\ WF_vars(Loop) /\ WF_vars(Will)
  /\ \A g \in Generations : WF_vars(Heart(g))
FairSpec == Spec /\ Fairness

-----------------------------------------------------------------------------
\* Home Assistant has one entry for the camera, whatever answers were lost and however often
\* the bridge was connected, stopped and started.
OneCamera == cameras <= 1

\* A bridge that has been stopped is not shown as available - the broker keeps what it was told
\* last - but if "online" was on its way when stop() said "offline".
StoppedIsOffline == ~client /\ link = "none" /\ ~crossed => avail # "online"

\* Threads of connections before the last one end, though their stop was cleared.
StaleHeartsEnd == \A g \in Generations : Alive(g) /\ g < generation ~> ~Alive(g)

StopReturnsUnlessCommanded ==
  lock # "free" ~> lock = "free" \/ (paho = "light" /\ leaving)

-----------------------------------------------------------------------------
\* What makes OneCamera inductive: an entry is made only where there is none.
CameraInv ==
  /\ cameras \in {0, 1}
  /\ entry => cameras = 1
  /\ paho = "adding" => cameras = 0

\* What makes StoppedIsOffline inductive.  Whoever stops holds the lock until the loop thread has
\* ended; callbacks run between connection and disconnection; a thread that leaves has no link.
Holding(c) == caller[c] \in {"silence", "offline", "disconnect", "await"}
ConnectionInv ==
  /\ caller \in [Caller -> Ops \cup {"tell", "set", "up", "untell", "unset"}]
  /\ \A c \in Caller : Holding(c) => lock = c /\ client
  /\ ~client => paho = "none"
  /\ paho \in {"none", "away", "hello"} <=> ~connected
  /\ link = "up" => paho \notin {"none", "away"}
  /\ leaving => link # "up"

\* A printer that is shown as available has been described, and is connected, and not about to
\* be disconnected.
ShownInv ==
  /\ link = "up" /\ paho # "hello" => known
  /\ avail = "online" => known
  /\ avail = "online" /\ ~crossed =>
       /\ link # "none" /\ paho # "hello"
       /\ \A c \in Caller : At(c, "disconnect") => link # "up"

IInv == CameraInv /\ ConnectionInv /\ ShownInv
=============================================================================
