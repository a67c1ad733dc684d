------------------------------ MODULE Timelapse ------------------------------
(***************************************************************************)
(* TimelapseService (web/service/timelapse.py) and the calls MqttQueue, the *)
(* routes and the process's own end make on it.  An operation takes the     *)
(* service's lock, joins the capture thread while it holds the lock, and    *)
(* then does its work: Begin, JoinEnds or JoinTimesOut, Body.  A capture is *)
(* a directory of frames; whoever has it (the capture, the pending resume,  *)
(* a thread that assembles the video) is what the properties are about.     *)
(*                                                                         *)
(* Left out: the recovery state shown to users, snapshot light mode, a      *)
(* camera that is not there (the call then returns), and finish_capture()   *)
(* with final=False, which nothing in the program calls: a resume is        *)
(* pending only after a restart of the process.                             *)
(***************************************************************************)
EXTENDS Naturals, Sequences, SequencesExt, FiniteSets

CONSTANTS
  File, NoFile,      \* names of print jobs; None
  Sources,           \* cameras a capture may use: "printer", "external"
  SessionLight,      \* light mode "session"?
  MaxVideos,         \* max_videos
  Thread, NoThread,  \* capture threads that may be alive at a time; None
  Worker,            \* bound: finalisations at a time
  MaxDirs,           \* bound: directories ever made
  MaxFrames,         \* bound: frames of a directory
  MaxCalls,          \* bound: calls by the users, reloads, reconnects, filament pauses, late joins,
                     \* moves that fail
  MaxCrashes,        \* bound: ends of the process
  JoinMayTimeOut     \* may a frame take longer than the join waits?

ASSUME TimelapseAssumption ==
  /\ NoFile \notin File /\ NoThread \notin Thread
  /\ Sources \subseteq {"printer", "external"} /\ SessionLight \in BOOLEAN
  /\ MaxVideos \in Nat /\ MaxDirs \in Nat /\ MaxFrames \in Nat \ {0} /\ MaxCalls \in Nat
  /\ MaxCrashes \in Nat
  /\ JoinMayTimeOut \in BOOLEAN /\ Thread \subseteq Nat /\ Worker \subseteq Nat

VARIABLES
  \* the program's state
  enabled, saves,    \* settings: enabled, save_persistent
  capture, resume,   \* [dir, file, count]: current and pending
  paused,            \* [auto, manual]
  ref, stop,         \* _capture_thread, _stop_event
  timer,             \* _finalize_timer: off, armed, or fired and waiting for the lock
  owns, was,         \* _video_enabled_by_timelapse, _light_was_on
  op,                \* the operation that holds the lock
  \* threads
  thread,            \* capture threads
  final,             \* threads in _finalize_capture_dir()
  \* the world
  disk,              \* directories of frames
  newer,             \* <<d, e>>: d was changed after e (the modification times of directories)
  videos,            \* videos, oldest first
  held, light,       \* VideoQueue: timelapse_enabled and saved_light_state
  job,               \* the print: its file, and whether MqttQueue knows of it
  offer, web,        \* a start offered to the user; a route between its check and its call
  up, crashes, calls

service == <<enabled, saves, capture, resume, paused, ref, stop, timer, owns, was>>
threads == <<thread, final>>
world == <<disk, newer, videos, held, light>>
mqtt == <<job, offer>>
vars == <<service, threads, world, mqtt, op, web, up, crashes, calls>>

Dir == 1..MaxDirs
NoDir == 0
Nothing == [dir |-> NoDir, file |-> NoFile, count |-> 0]
NoOp == [kind |-> "none", file |-> NoFile, by |-> "web", joining |-> FALSE]
Asleep == [pc |-> "idle", dir |-> NoDir]
NoFinal == [phase |-> "idle", dir |-> NoDir, count |-> 0, by |-> "own", video |-> FALSE]
NoWeb == [kind |-> "none", file |-> NoFile]
NoJob == [file |-> NoFile, known |-> FALSE, mayOffer |-> FALSE]
Fresh == [where |-> "none", file |-> NoFile, frames |-> 0]

Captured == [dir : Dir \cup {NoDir}, file : File \cup {NoFile}, count : 0..MaxFrames]

\* Types of the state.
TypeOK ==
  /\ enabled \in BOOLEAN /\ saves \in BOOLEAN /\ capture \in Captured /\ resume \in Captured
  /\ paused \in [auto : BOOLEAN, manual : BOOLEAN]
  /\ ref \in Thread \cup {NoThread} /\ stop \in BOOLEAN
  /\ timer \in [state : {"off", "armed", "fired"}, dir : Dir \cup {NoDir}]
  /\ owns \in BOOLEAN /\ was \in {"unset", "on", "off"}
  /\ op \in [kind : {"none", "start", "finish", "fail"}, file : File \cup {NoFile},
             by : {"mqtt", "web"}, joining : BOOLEAN]
  /\ thread \in [Thread -> [pc : {"idle", "check", "shoot", "shot"},
                            dir : Dir \cup {NoDir}]]
  /\ final \in [Worker -> [phase : {"idle", "assemble", "archive"},
                           dir : Dir \cup {NoDir}, count : 0..MaxFrames,
                           by : {"mqtt", "web", "own"}, video : BOOLEAN]]
  /\ disk \in [Dir -> [where : {"none", "progress", "archived", "gone"},
                       file : File \cup {NoFile}, frames : 0..MaxFrames]]
  /\ videos \in Seq(Dir) /\ newer \subseteq {p \in Dir \X Dir : p[1] # p[2]}
  /\ held \in BOOLEAN /\ light \in {"unset", "on", "off"}
  /\ job \in [file : File \cup {NoFile}, known : BOOLEAN, mayOffer : BOOLEAN]
  /\ offer \in BOOLEAN /\ up \in BOOLEAN /\ calls \in 0..MaxCalls /\ crashes \in 0..MaxCrashes
  /\ web \in [kind : {"none", "start", "stop", "dismiss"}, file : File \cup {NoFile}]
  /\ \A c \in {capture, resume} : c.dir = NoDir <=> c.file = NoFile
  /\ timer.state = "off" <=> timer.dir = NoDir
  /\ \A t \in Thread : thread[t].pc \in {"shoot", "shot"} => thread[t].dir \in Dir

Init ==
  /\ enabled = TRUE /\ saves = TRUE
  /\ capture = Nothing /\ resume = Nothing
  /\ paused = [auto |-> FALSE, manual |-> FALSE]
  /\ ref = NoThread /\ stop = FALSE /\ timer = [state |-> "off", dir |-> NoDir]
  /\ owns = FALSE /\ was = "unset" /\ op = NoOp
  /\ thread = [t \in Thread |-> Asleep] /\ final = [w \in Worker |-> NoFinal]
  /\ disk = [d \in Dir |-> Fresh] /\ videos = <<>> /\ newer = {}
  /\ held = FALSE /\ light \in (IF SessionLight THEN {"unset", "on"} ELSE {"unset"})
  /\ job = NoJob /\ offer = FALSE /\ web = NoWeb
  /\ up = TRUE /\ calls = 0 /\ crashes = 0

-----------------------------------------------------------------------------
\* Who may act.

Unlocked == op.kind = "none"
Alive == ref # NoThread /\ thread[ref].pc # "idle"
Least(S) == CHOOSE x \in S : \A y \in S : x <= y
IdleThreads == {t \in Thread : thread[t].pc = "idle"}
Busy(w) == final[w].phase # "idle"
IdleWorkers == {w \in Worker : ~Busy(w)}
NewDirs == {d \in Dir : disk[d].where = "none"}

\* MqttQueue's thread is still inside a call it made on the timelapse.
MqttBusy ==
  \/ op.kind # "none" /\ op.by = "mqtt"
  \/ \E w \in Worker : Busy(w) /\ final[w].by = "mqtt"

\* Within the bound a capture that is asked for gets a directory.
Room == Cardinality(NewDirs) > Cardinality({x \in {op.kind, web.kind} : x = "start"})
-----------------------------------------------------------------------------
\* Pieces the operations share.

Unpause == paused' = [auto |-> FALSE, manual |-> FALSE]
Gone(D) == [d \in Dir |-> IF d \in D \ {NoDir} THEN [disk[d] EXCEPT !.where = "gone"] ELSE disk[d]]

\* An entry of directory d is made or removed.
Touched(d) == {p \in newer : p[2] # d} \cup {<<d, e>> : e \in Dir \ {d}}
\* A thread that runs _finalize_capture_dir() for d.
Finalising(d, count, by) ==
  /\ IdleWorkers # {}
  /\ final' = [final EXCEPT ![Least(IdleWorkers)] =
                 [phase |-> "assemble", dir |-> d, count |-> count, by |-> by, video |-> FALSE]]
Cancelled == IF timer.state = "armed" THEN [state |-> "off", dir |-> NoDir] ELSE timer

\* _prepare_capture_services(): hold the video (the printer's camera), and the light.
Prepare(source) ==
  /\ IF source = "printer" THEN held' = TRUE /\ owns' = TRUE ELSE UNCHANGED <<held, owns>>
  /\ IF SessionLight THEN was' = light /\ light' = "on" ELSE UNCHANGED <<was, light>>

\* _disable_video_for_timelapse()
Release ==
  /\ light' = IF SessionLight /\ was # "on" THEN IF was = "unset" THEN "off" ELSE was ELSE light
  /\ held' = (held /\ ~owns)
  /\ was' = "unset" /\ owns' = FALSE

Spawn ==
  /\ IdleThreads # {}
  /\ ref' = Least(IdleThreads)
  /\ thread' = [thread EXCEPT ![Least(IdleThreads)] = [pc |-> "check", dir |-> NoDir]]
  /\ stop' = FALSE

\* _cancel_pending_resume(), but for its directory
Forget == resume' = Nothing /\ timer' = Cancelled

-----------------------------------------------------------------------------
\* start_capture(), finish_capture(final=True), fail_capture(): a call takes the lock, and
\* has the thread stop unless the capture goes on.

Continues(f) == capture.dir # NoDir /\ capture.file = f

Begin(kind, f, by) ==
  /\ up /\ Unlocked /\ enabled
  /\ op' = [kind |-> kind, file |-> f, by |-> by,
            joining |-> Alive /\ ~(kind = "start" /\ Continues(f))]
  /\ stop' = (stop \/ op'.joining)
  /\ UNCHANGED <<enabled, saves, capture, resume, paused, ref, timer, owns, was, threads, world>>

\* _stop_capture_thread(): the join ends with the thread, or after _SNAPSHOT_TIMEOUT + 2.
JoinEnds ==
  /\ op.joining /\ ~Alive
  /\ op' = [op EXCEPT !.joining = FALSE] /\ ref' = NoThread
  /\ UNCHANGED <<enabled, saves, capture, resume, paused, stop, timer, owns, was, threads, world,
                 mqtt, web, up, crashes, calls>>

JoinTimesOut ==
  /\ JoinMayTimeOut /\ op.joining /\ Alive /\ calls < MaxCalls
  /\ op' = [op EXCEPT !.joining = FALSE] /\ ref' = NoThread /\ calls' = calls + 1
  /\ UNCHANGED <<enabled, saves, capture, resume, paused, stop, timer, owns, was, threads, world,
                 mqtt, web, up, crashes>>

Working(kind) == op.kind = kind /\ ~op.joining /\ op' = NoOp

\* Mutant: a capture that was never finished is forgotten, frames and all.
StartNew_Orphan(f) ==
  \E d \in {Least(NewDirs)} :
    /\ capture' = [dir |-> d, file |-> f, count |-> 0]
    /\ disk' = [Gone({resume.dir}) EXCEPT ![d] = [where |-> "progress", file |-> f, frames |-> 0]]
    /\ newer' = Touched(d) /\ UNCHANGED final

\* A capture that was never finished is recovered, if it has frames; a new directory.
StartNew(f) ==
  \E d \in {Least(NewDirs)} :
    /\ capture' = [dir |-> d, file |-> f, count |-> 0] /\ newer' = Touched(d)
    /\ IF capture.dir # NoDir /\ capture.count > 0
         THEN /\ Finalising(capture.dir, capture.count, op.by)
              /\ disk' = [Gone({resume.dir}) EXCEPT ![d] =
                            [where |-> "progress", file |-> f, frames |-> 0]]
         ELSE /\ UNCHANGED final
              /\ disk' = [Gone({resume.dir, capture.dir}) EXCEPT ![d] =
                            [where |-> "progress", file |-> f, frames |-> 0]]

\* Mutant: the pending resume keeps the directory it has handed over.
StartBody_KeepsResume ==
  \E source \in Sources :
    /\ Working("start")
    /\ Unpause /\ Prepare(source)
    /\ IF Continues(op.file)
         THEN /\ IF Alive THEN UNCHANGED <<ref, thread, stop>> ELSE Spawn
              /\ UNCHANGED <<capture, resume, timer, disk, newer, final>>
         ELSE /\ Spawn
              /\ IF resume.dir # NoDir /\ resume.file = op.file
                   THEN capture' = resume /\ UNCHANGED <<disk, newer, final, resume>> /\ timer' = Cancelled
                   ELSE NewDirs # {} /\ StartNew(op.file) /\ Forget
    /\ UNCHANGED <<enabled, saves, videos, mqtt, web, up, crashes, calls>>

\* The rest of start_capture(): go on with the same capture (and start its thread again if it
\* has died), resume the pending one of the same file, or begin anew and drop the pending one.
StartBody ==
  \E source \in Sources :
    /\ Working("start")
    /\ Unpause /\ Prepare(source)
    /\ IF Continues(op.file)
         THEN /\ IF Alive THEN UNCHANGED <<ref, thread, stop>> ELSE Spawn
              /\ UNCHANGED <<capture, resume, timer, disk, newer, final>>
         ELSE /\ Spawn /\ Forget
              /\ IF resume.dir # NoDir /\ resume.file = op.file
                   THEN capture' = resume /\ UNCHANGED <<disk, newer, final>>
                   ELSE NewDirs # {} /\ StartNew(op.file)
    /\ UNCHANGED <<enabled, saves, videos, mqtt, web, up, crashes, calls>>

\* The rest of finish_capture(final=True): the frames go to a thread of their own.
FinishBody ==
  /\ Working("finish") /\ Unpause
  /\ CASE capture.dir # NoDir ->
            /\ Forget /\ Release /\ capture' = Nothing
            /\ IF capture.count > 0
                 THEN Finalising(capture.dir, capture.count, "own") /\ disk' = Gone({resume.dir})
                 ELSE UNCHANGED final /\ disk' = Gone({resume.dir, capture.dir})
       [] capture.dir = NoDir /\ resume.dir = NoDir ->
            Release /\ UNCHANGED <<capture, resume, timer, final, disk>>
       [] OTHER -> UNCHANGED <<capture, resume, timer, final, disk, held, light, owns, was>>
  /\ UNCHANGED <<enabled, saves, ref, stop, thread, newer, videos, mqtt, web, up, crashes, calls>>

\* The rest of fail_capture(): the caller itself assembles what there is.
FailBody ==
  /\ Working("fail") /\ Unpause /\ Forget /\ Release
  /\ capture' = Nothing
  /\ IF capture.dir # NoDir /\ capture.count > 0
       THEN Finalising(capture.dir, capture.count, op.by) /\ disk' = Gone({resume.dir})
       ELSE UNCHANGED final /\ disk' = Gone({resume.dir, capture.dir})
  /\ UNCHANGED <<enabled, saves, ref, stop, thread, newer, videos, mqtt, web, up, crashes, calls>>

-----------------------------------------------------------------------------
\* _capture_loop() and _take_snapshot().  A thread that outlives its join goes on with
\* whatever the service has by then.

threadElse == <<enabled, saves, resume, paused, stop, timer, owns, was, op, final, videos, held,
                light, mqtt, web, up, crashes, calls>>
Moves(t, pc, dir) == thread' = [thread EXCEPT ![t] = [pc |-> pc, dir |-> dir]]

\* The loop ends; whoever is referred to by then loses the reference.
LoopEnds(t) ==
  /\ thread[t].pc = "check" /\ stop
  /\ thread' = [thread EXCEPT ![t] = Asleep] /\ ref' = NoThread
  /\ UNCHANGED <<threadElse, capture, disk, newer>>

\* is_capture_paused() takes the lock.  The file name of the frame follows; without a capture
\* the join of paths raises.
Aim(t) ==
  /\ thread[t].pc = "check" /\ ~stop /\ Unlocked
  /\ ~paused.auto /\ ~paused.manual /\ capture.dir # NoDir
  /\ Moves(t, "shoot", capture.dir)
  /\ UNCHANGED <<threadElse, ref, capture, disk, newer>>

\* ffmpeg writes the frame, if its directory is still there.
Shoot(t) ==
  /\ thread[t].pc = "shoot"
  /\ LET d == thread[t].dir
     IN  /\ disk[d].where = "progress" /\ disk[d].frames < MaxFrames
         /\ disk' = [disk EXCEPT ![d].frames = @ + 1]
         /\ newer' = Touched(d) /\ Moves(t, "shot", d)
  /\ UNCHANGED <<threadElse, ref, capture>>

\* No recent video frame, or the camera fails; what ffmpeg may have written by then is removed.
ShotFails(t) ==
  /\ thread[t].pc = "shoot"
  /\ Moves(t, "check", NoDir)
  /\ newer' \in {newer, Touched(thread[t].dir)}
  /\ UNCHANGED <<threadElse, ref, capture, disk>>

\* _set_recovery_state(False) takes the lock.  What is counted is the capture of that moment.
Count(t) ==
  /\ thread[t].pc = "shot" /\ Unlocked
  /\ capture' = [capture EXCEPT !.count = IF @ < MaxFrames THEN @ + 1 ELSE @]
  /\ Moves(t, "check", NoDir)
  /\ UNCHANGED <<threadElse, ref, disk, newer>>

CaptureThread(t) == LoopEnds(t) \/ Aim(t) \/ Shoot(t) \/ ShotFails(t) \/ Count(t)

-----------------------------------------------------------------------------
\* _finalize_capture_dir(), in the thread of the caller or one of its own.

finalElse == <<service, thread, newer, held, light, mqtt, op, web, up, crashes>>
Goes(w, phase, video) == final' = [final EXCEPT ![w].phase = phase, ![w].video = video]

\* SelectSeq(s, LAMBDA x : x \notin D), which the prover does not know.
Without(s, D) ==
  LET left == {i \in DOMAIN s : s[i] \notin D}
      Nth(k) == CHOOSE i \in left : Cardinality({j \in left : j <= i}) = k
  IN  [k \in 1..Cardinality(left) |-> s[Nth(k)]]

Newest(s) == IF MaxVideos = 0 \/ Len(s) <= MaxVideos THEN s
             ELSE SubSeq(s, Len(s) - MaxVideos + 1, Len(s))

\* As many archived collections of on are newer than d as are kept.
Outnumbered(d, on, order) ==
  MaxVideos # 0 /\ Cardinality({e \in Dir : on[e].where = "archived" /\ <<e, d>> \in order}) >= MaxVideos

\* _prune_old_snapshot_collections()
Pruned(on, order) ==
  [d \in Dir |-> IF on[d].where = "archived" /\ Outnumbered(d, on, order)
                  THEN [on[d] EXCEPT !.where = "gone"] ELSE on[d]]

\* _assemble_video(): two frames make a video, unless ffmpeg fails or nothing is to be kept;
\* then the oldest videos go, and their collections with them.
Assemble(w) ==
  /\ final[w].phase = "assemble"
  /\ \E made \in {final[w].count >= 2 /\ saves, FALSE} :
       LET all == IF made THEN Append(videos, final[w].dir) ELSE videos
           old == ToSet(all) \ ToSet(Newest(all))
       IN  /\ Goes(w, "archive", made)
           /\ IF final[w].count < 2 THEN UNCHANGED <<videos, disk>>
              ELSE videos' = Newest(all) /\ disk' = Gone({d \in old : disk[d].where = "archived"})
  /\ UNCHANGED <<finalElse, calls>>

ArchivedNow(d) == Pruned([disk EXCEPT ![d].where = "archived"], newer)

\* Mutant: frames that made no video are thrown away.
Archive_VideoOnly(w) ==
  /\ final[w].phase = "archive" /\ final' = [final EXCEPT ![w] = NoFinal]
  /\ disk' = IF saves /\ final[w].video THEN ArchivedNow(final[w].dir) ELSE Gone({final[w].dir})
  /\ UNCHANGED <<finalElse, videos, calls>>

\* _archive_snapshot_frames(): the directory is moved, which leaves its time as it was, and the
\* oldest collections go; it is deleted if nothing is to be kept.
Archive(w) ==
  /\ final[w].phase = "archive" /\ final' = [final EXCEPT ![w] = NoFinal]
  /\ disk' = IF saves THEN ArchivedNow(final[w].dir) ELSE Gone({final[w].dir})
  /\ UNCHANGED <<finalElse, videos, calls>>

\* The move fails, and _finalize_capture_dir() cleans up: the frames are deleted.
ArchiveFails(w) ==
  /\ final[w].phase = "archive" /\ final' = [final EXCEPT ![w] = NoFinal]
  /\ saves /\ calls < MaxCalls /\ calls' = calls + 1
  /\ disk' = Gone({final[w].dir})
  /\ UNCHANGED <<finalElse, videos>>

Finaliser(w) == Assemble(w) \/ Archive(w)

-----------------------------------------------------------------------------
\* The timer of a pending resume.  Cancelled too late, it still waits for the lock.

TimerFires ==
  /\ timer.state = "armed"
  /\ timer' = [timer EXCEPT !.state = "fired"]
  /\ UNCHANGED <<enabled, saves, capture, resume, paused, ref, stop, owns, was, threads, world,
                 mqtt, op, web, up, crashes, calls>>

\* Mutant: whoever has resumed the capture, it is assembled now.
TimerRuns_Unchecked ==
  /\ timer.state = "fired" /\ Unlocked /\ up
  /\ timer' = [state |-> "off", dir |-> NoDir]
  /\ resume' = Nothing /\ Finalising(timer.dir, 1, "own")
  /\ UNCHANGED <<enabled, saves, capture, paused, ref, stop, owns, was, thread, world,
                 mqtt, op, web, up, crashes, calls>>

\* _finalize(): nothing, if the capture has been resumed or dropped meanwhile.
TimerRuns ==
  /\ timer.state = "fired" /\ Unlocked /\ up
  /\ timer' = [state |-> "off", dir |-> NoDir]
  /\ IF resume.dir # timer.dir THEN UNCHANGED <<resume, final>>
     ELSE resume' = Nothing /\ Finalising(resume.dir, resume.count, "own")
  /\ UNCHANGED <<enabled, saves, capture, paused, ref, stop, owns, was, thread, world,
                 mqtt, op, web, up, crashes, calls>>

-----------------------------------------------------------------------------
\* MqttQueue's calls.

\* A print begins, or is seen again after a reconnect: _transition_to_active() starts its
\* capture, or offers to when the connection is young.
PrintSeen(f) ==
  /\ up /\ ~MqttBusy /\ ~job.known /\ Room
  /\ job.file \in {NoFile, f}
  /\ job' = [file |-> f, known |-> TRUE, mayOffer |-> FALSE]
  /\ \/ job.mayOffer /\ enabled /\ offer' = TRUE /\ UNCHANGED <<service, threads, world, op>>
     \/ offer' = FALSE
        /\ IF enabled THEN Begin("start", f, "mqtt")
           ELSE UNCHANGED <<service, threads, world, op>>
  /\ UNCHANGED <<web, up, crashes, calls>>

\* The print is over, well or badly.
PrintEnds(kind) ==
  /\ up /\ ~MqttBusy /\ job.known
  /\ job' = NoJob /\ offer' = FALSE
  /\ IF enabled THEN Begin(kind, NoFile, "mqtt") ELSE UNCHANGED <<service, threads, world, op>>
  /\ UNCHANGED <<web, up, crashes, calls>>

\* worker_stop() and worker_start(): light and video are let go, the print is forgotten.
Reconnect ==
  /\ up /\ ~MqttBusy /\ Unlocked /\ calls < MaxCalls
  /\ job' = [job EXCEPT !.known = FALSE, !.mayOffer = TRUE] /\ offer' = FALSE
  /\ IF enabled /\ capture.dir # NoDir THEN Release ELSE UNCHANGED <<owns, was, held, light>>
  /\ paused' = [paused EXCEPT !.auto = FALSE]
  /\ calls' = calls + 1
  /\ UNCHANGED <<enabled, saves, capture, resume, ref, stop, timer, threads, disk, newer,
                 videos, op, web, up, crashes>>

\* The printer finishes while nobody listens.
PrintUnseen ==
  /\ job.file # NoFile /\ ~job.known
  /\ job' = [job EXCEPT !.file = NoFile]
  /\ UNCHANGED <<service, threads, world, op, offer, web, up, crashes, calls>>

\* set_capture_paused(): a filament change or runout begins or ends.
AutoPause ==
  /\ up /\ ~MqttBusy /\ Unlocked /\ job.known /\ calls < MaxCalls
  /\ paused' = [paused EXCEPT !.auto = ~@] /\ calls' = calls + 1
  /\ UNCHANGED <<enabled, saves, capture, resume, ref, stop, timer, owns, was, threads, world,
                 mqtt, op, web, up, crashes>>

-----------------------------------------------------------------------------
\* The routes.  start, stop and dismiss look under the state lock, and call after it.

Route(kind) ==
  /\ up /\ ~MqttBusy /\ web = NoWeb /\ calls < MaxCalls /\ enabled
  /\ CASE kind = "start" -> job.known /\ Room
       [] kind = "stop" -> job.known \/ offer
       [] kind = "dismiss" -> TRUE
  /\ web' = [kind |-> kind, file |-> job.file]
  /\ offer' = FALSE /\ calls' = calls + 1
  /\ UNCHANGED <<service, threads, world, op, job, up, crashes>>

Active == capture.dir # NoDir \/ resume.dir # NoDir \/ Alive

\* discard_pending_resume(): not while a capture runs, nor that of another file.
Discard(f) ==
  IF Alive \/ resume.dir = NoDir \/ (f # NoFile /\ resume.file # f)
    THEN UNCHANGED <<service, threads, world, op>>
    ELSE /\ Unpause /\ Forget /\ Release /\ disk' = Gone({resume.dir})
         /\ UNCHANGED <<enabled, saves, capture, ref, stop, threads, newer, videos, op>>

RouteCalls ==
  /\ up /\ Unlocked /\ web.kind # "none" /\ web' = NoWeb
  /\ CASE web.kind = "start" /\ enabled -> Begin("start", web.file, "web")
       [] web.kind = "stop" /\ Active /\ enabled -> Begin("finish", NoFile, "web")
       [] web.kind = "dismiss" -> Discard(web.file)
       [] OTHER -> UNCHANGED <<service, threads, world, op>>
  /\ UNCHANGED <<mqtt, up, crashes, calls>>

\* pause and resume by the user
ManualPause ==
  /\ up /\ Unlocked /\ job.known /\ Active /\ enabled /\ calls < MaxCalls
  /\ paused' = [paused EXCEPT !.manual = ~@] /\ calls' = calls + 1
  /\ UNCHANGED <<enabled, saves, capture, resume, ref, stop, timer, owns, was, threads, world,
                 mqtt, op, web, up, crashes>>

\* delete_snapshot_collection(): a pending resume is discarded, a capture is protected,
\* and so is what is being assembled.
DeleteCollection(d) ==
  /\ up /\ Unlocked /\ calls < MaxCalls /\ calls' = calls + 1
  /\ \/ /\ resume.dir = d
        /\ Unpause /\ Forget /\ Release /\ disk' = Gone({d})
        /\ UNCHANGED <<enabled, saves, capture, ref, stop, threads, newer, videos>>
     \/ /\ disk[d].where = "archived"
        /\ disk' = Gone({d})
        /\ UNCHANGED <<service, threads, newer, videos, held, light>>
  /\ UNCHANGED <<mqtt, op, web, up, crashes>>

\* delete_snapshot(): an archived frame; the collection goes with its last one.
DeleteSnapshot(d) ==
  /\ up /\ disk[d].where = "archived" /\ calls < MaxCalls /\ calls' = calls + 1
  /\ IF disk[d].frames > 1 THEN disk' = [disk EXCEPT ![d].frames = @ - 1] /\ newer' = Touched(d)
     ELSE disk' = Gone({d}) /\ UNCHANGED newer
  /\ UNCHANGED <<service, threads, videos, held, light, mqtt, op, web, up, crashes>>

\* save_manual_snapshot(): a collection of one frame, archived at once.
ManualSnapshot ==
  /\ up /\ Room /\ calls < MaxCalls /\ calls' = calls + 1
  /\ LET d == Least(NewDirs)
     IN  /\ newer' = Touched(d)
         /\ disk' = Pruned([disk EXCEPT ![d] = [where |-> "archived", file |-> NoFile, frames |-> 1]],
                           Touched(d))
  /\ UNCHANGED <<service, threads, videos, held, light, mqtt, op, web, up, crashes>>

\* delete_video(): its collection goes with it.
DeleteVideo(d) ==
  /\ up /\ d \in ToSet(videos) /\ calls < MaxCalls /\ calls' = calls + 1
  /\ videos' = Without(videos, {d})
  /\ disk' = IF disk[d].where = "archived" THEN Gone({d}) ELSE disk
  /\ UNCHANGED <<service, threads, newer, held, light, mqtt, op, web, up, crashes>>

\* reload_config(), from the settings routes
Reload ==
  /\ up /\ calls < MaxCalls /\ calls' = calls + 1
  /\ enabled' \in BOOLEAN /\ saves' \in BOOLEAN
  /\ UNCHANGED <<capture, resume, paused, ref, stop, timer, owns, was, threads, world, mqtt, op,
                 web, up, crashes>>

-----------------------------------------------------------------------------
\* The process dies, and its threads with it; what is on disk stays.

Crash ==
  /\ up /\ crashes < MaxCrashes /\ crashes' = crashes + 1
  /\ up' = FALSE
  /\ capture' = Nothing /\ resume' = Nothing /\ paused' = [auto |-> FALSE, manual |-> FALSE]
  /\ ref' = NoThread /\ stop' = FALSE /\ timer' = [state |-> "off", dir |-> NoDir]
  /\ owns' = FALSE /\ was' = "unset" /\ op' = NoOp
  /\ thread' = [t \in Thread |-> Asleep] /\ final' = [w \in Worker |-> NoFinal]
  /\ held' = FALSE /\ light' = "unset"
  /\ job' = [job EXCEPT !.known = FALSE, !.mayOffer = TRUE] /\ offer' = FALSE /\ web' = NoWeb
  /\ UNCHANGED <<enabled, saves, disk, newer, videos, calls>>

Leftover == {d \in Dir : disk[d].where = "progress" /\ disk[d].frames > 0}

\* Mutant: only the youngest directory is looked at.
Adopt_Youngest(d) ==
  /\ resume' = [dir |-> d, file |-> disk[d].file, count |-> disk[d].frames]
  /\ timer' = [state |-> "armed", dir |-> d]
  /\ UNCHANGED final

\* The youngest directory waits for its print to resume, unless it is too old; every other
\* one gets a thread that assembles it.
Adopt(d) ==
  \E young \in BOOLEAN :
    LET rest == IF young THEN Leftover \ {d} ELSE Leftover
    IN  /\ Cardinality(rest) <= Cardinality(Worker)
        /\ IF young
             THEN /\ resume' = [dir |-> d, file |-> disk[d].file, count |-> disk[d].frames]
                  /\ timer' = [state |-> "armed", dir |-> d]
             ELSE UNCHANGED <<resume, timer>>
        /\ \E dirOf \in [rest -> Worker] :
             /\ \A x, y \in rest : dirOf[x] = dirOf[y] => x = y
             /\ final' = [w \in Worker |->
                  IF \E x \in rest : dirOf[x] = w
                    THEN LET x == CHOOSE y \in rest : dirOf[y] = w
                         IN  [phase |-> "assemble", dir |-> x, count |-> disk[x].frames,
                              by |-> "own", video |-> FALSE]
                    ELSE NoFinal]

\* _scan_in_progress_captures(), in the constructor: directories without frames go.
Restart ==
  /\ ~up /\ up' = TRUE
  /\ IF Leftover = {} THEN UNCHANGED <<resume, timer, final>>
     ELSE \E d \in Leftover : (\A e \in Leftover : <<e, d>> \notin newer) /\ Adopt(d)
  /\ disk' = Gone({d \in Dir : disk[d].where = "progress" /\ disk[d].frames = 0})
  /\ UNCHANGED <<enabled, saves, capture, paused, ref, stop, owns, was, thread, newer, videos,
                 held, light, mqtt, op, web, crashes, calls>>

-----------------------------------------------------------------------------
Bodies == JoinEnds \/ JoinTimesOut \/ StartBody \/ FinishBody \/ FailBody
Users ==
  \/ \E kind \in {"start", "stop", "dismiss"} : Route(kind)
  \/ RouteCalls \/ ManualPause \/ Reload \/ ManualSnapshot
  \/ \E d \in Dir : DeleteCollection(d) \/ DeleteVideo(d) \/ DeleteSnapshot(d)
Printer ==
  \/ \E f \in File : PrintSeen(f)
  \/ \E kind \in {"finish", "fail"} : PrintEnds(kind)
  \/ PrintUnseen \/ AutoPause \/ Reconnect

Next ==
  \/ Bodies \/ Users \/ Printer
  \/ \E t \in Thread : CaptureThread(t)
  \/ \E w \in Worker : Finaliser(w) \/ ArchiveFails(w)
  \/ TimerFires \/ TimerRuns \/ Crash \/ Restart

Spec == Init /\ [][Next]_vars

\* Threads run, timers fire in the end, and a process that died is started again.
FairSpec ==
  /\ Spec
  /\ WF_vars(Bodies) /\ WF_vars(TimerFires) /\ SF_vars(TimerRuns) /\ WF_vars(Restart)
  /\ \A w \in Worker : WF_vars(Finaliser(w))
  /\ \A t \in Thread : WF_vars(LoopEnds(t) \/ ShotFails(t)) /\ SF_vars(Count(t))
-----------------------------------------------------------------------------
\* Who has directory d.
Owners(d) ==
  (IF capture.dir = d THEN {"capture"} ELSE {}) \cup (IF resume.dir = d THEN {"resume"} ELSE {})
    \cup {w \in Worker : Busy(w) /\ final[w].dir = d}

\* While the process is up every directory of frames has exactly one owner: none is orphaned,
\* and none is assembled twice, or under a capture that goes on.
OneOwner ==
  up => \A d \in Dir : disk[d].where = "progress" => Cardinality(Owners(d)) = 1

\* What makes it inductive: nobody has a directory that is not in progress, and nobody anything
\* while the process is down.
Assembled(d) == \E w \in Worker : Busy(w) /\ final[w].dir = d
OwnerInv ==
  /\ up => \A d \in Dir :
             disk[d].where = "progress" <=> capture.dir = d \/ resume.dir = d \/ Assembled(d)
  /\ capture.dir = NoDir \/ resume.dir = NoDir
  /\ \A d \in Dir : Assembled(d) => d \notin {capture.dir, resume.dir}
  /\ \A w \in Worker : Busy(w) => final[w].dir \in Dir
  /\ \A v, w \in Worker : Busy(v) /\ Busy(w) /\ final[v].dir = final[w].dir => v = w
  /\ ~up => /\ capture = Nothing /\ resume = Nothing /\ op = NoOp /\ timer.state = "off"
            /\ \A w \in Worker : ~Busy(w)
            /\ \A t \in Thread : thread[t].pc = "idle"

\* A start is that of a print, and so are the frames of a directory in progress.
FileInv ==
  /\ op.kind = "start" => op.file \in File
  /\ web.kind = "start" => web.file \in File
  /\ job.known => job.file \in File
  /\ \A d \in Dir : disk[d].where = "progress" => disk[d].file \in File

CaptureInv == TypeOK /\ OwnerInv /\ FileInv

\* Frames that are counted are deleted only if nothing is to be kept, if they had waited for a
\* resume that the user or another print gave up, or as they are archived: because the move fails,
\* or because as many collections as are kept are newer already.
FramesKept ==
  [][ \A d \in Dir : disk[d].where = "progress" /\ disk'[d].where = "gone" =>
        \/ resume.dir = d
        \/ capture.dir = d /\ capture.count = 0
        \/ ~saves
        \/ disk[d].frames = 0
        \/ \E w \in Worker : final[w].dir = d /\ ArchiveFails(w)
        \/ \E w \in Worker : final[w].dir = d /\ Archive(w) /\ Outnumbered(d, disk, newer) ]_vars

\* Whatever has been captured is archived or let go, unless it is captured still.
CapturesEnd ==
  \A d \in Dir : disk[d].where = "progress" /\ capture.dir # d
                   ~> disk[d].where # "progress" \/ capture.dir = d

=============================================================================
