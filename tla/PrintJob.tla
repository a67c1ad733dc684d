------------------------------ MODULE PrintJob ------------------------------
(***************************************************************************)
(* The print state machine of MqttQueue (web/service/mqtt.py) and the       *)
(* history it keeps, against a printer that prints one job after another    *)
(* and tells about it over MQTT.  A notification is handled under           *)
(* _state_lock from beginning to end: one action each.  Timelapse, alerts,  *)
(* filament and Home Assistant, which the handlers also tell, are left out. *)
(*                                                                         *)
(* Assumed of the printer: its messages arrive in order, or not at all      *)
(* while the connection is down, and name task and file; it prepares before *)
(* it prints and pauses above 0%; a late update of a finished job comes     *)
(* before the next is prepared.  Assumed of the users: a stored file is     *)
(* started on an idle printer, and an upload's job does not end before it   *)
(* has been marked as pending.                                              *)
(***************************************************************************)
EXTENDS History

CONSTANTS
  MaxJobs,           \* bound: jobs the printer prints (their numbers are the task ids)
  MaxExtras,         \* bound: drops, stops, deletions, stored files looked at or started
  FirstFile          \* the file of the first job, without loss of generality

ASSUME JobAssumption ==
  /\ MaxJobs \in Nat /\ Task = 1..MaxJobs /\ NoTask = 0
  /\ MaxExtras \in Nat /\ FirstFile \in File

VARIABLES
  \* the printer
  job, file,         \* the number and the file of the current or last job
  phase,             \* what the printer does
  percent,           \* how far the job is: 0, 1, 50
  over,              \* what late updates of the job before say
  \* the connection, and the users
  online,
  transfer,          \* an upload with print start is on its way
  upload,            \* file of an upload that is complete, the start not yet marked as pending
  stored, command,   \* a stored-file start under way; its start command at the printer
  stopper,           \* send_print_control(stop)
  extras,            \* counts towards MaxExtras
  \* MqttQueue and PrintHistory
  mqtt, recent, history

printerVars == <<job, file, phase, percent, over>>
userVars == <<transfer, upload, stored, command, stopper>>
clientVars == <<mqtt, recent, history>>
vars == <<printerVars, userVars, clientVars, online, extras>>

NoPercent == 200
Percent == {0, 1, 50, 100}
Active == {"pre_print", "printing", "paused"}
State == Active \cup {"idle", "preparing", "failed"}

\* A progress update; "note" stands for an error code or a status text.
Update ==
  [t : {"progress"}, task : Task, file : File, p : Percent, note : {"none", "error", "done"},
   schedule : BOOLEAN]
NoUpdate == [t |-> "progress", task |-> NoTask, file |-> NoFile, p |-> 0, note |-> "none", schedule |-> FALSE]

MqttState ==
  [state : State, prep : BOOLEAN, task : Task \cup {NoTask}, file : File \cup {NoFile},
   p : Percent \cup {NoPercent}, deferred : BOOLEAN, stop : BOOLEAN, path : File \cup {NoFile}]

NoRecent == [task |-> NoTask, file |-> NoFile, at |-> FALSE]
Recent == [task : Task \cup {NoTask}, file : File \cup {NoFile}, at : BOOLEAN]

\* Types of the printer, the users, MqttQueue's state and the history.
TypeOK ==
  /\ job \in 0..MaxJobs /\ file \in File \cup {NoFile}
  /\ phase \in {"idle", "starting", "preparing", "printing", "paused"}
  /\ percent \in {0, 1, 50} /\ over \in Update \cup {NoUpdate}
  /\ online \in BOOLEAN /\ extras \in 0..MaxExtras
  /\ transfer \in BOOLEAN /\ {upload, stored, command} \subseteq File \cup {NoFile}
  /\ stopper \in {"idle", "decided", "sent"}
  /\ mqtt \in MqttState /\ recent \in Recent /\ history \in Table

\* _reset_print_state()
Reset == [state |-> "idle", prep |-> FALSE, task |-> NoTask, file |-> NoFile, p |-> NoPercent,
          deferred |-> FALSE, stop |-> FALSE, path |-> NoFile]

\* Another printer is printing; this one is idle and the service has just connected.
Init ==
  /\ job = 0 /\ file = NoFile /\ phase = "idle" /\ percent = 0 /\ over = NoUpdate
  /\ online = TRUE /\ extras = 0
  /\ transfer = FALSE /\ upload = NoFile /\ stored = NoFile /\ command = NoFile /\ stopper = "idle"
  /\ mqtt = Reset /\ recent = NoRecent
  /\ \E p \in Printer \ {Me} :
       history = [rows |-> {[id |-> 1, printer |-> p, task |-> NoTask, file |-> FirstFile,
                             status |-> "started"]}, next |-> 2]

-----------------------------------------------------------------------------
(* MqttQueue: what its handlers do. *)

Progress(p, note, schedule) ==
  [t |-> "progress", task |-> job, file |-> file, p |-> p, note |-> note, schedule |-> schedule]
StateIs(v) == [t |-> "state", v |-> v]

IsPreparing(m) == m.prep /\ m.state \notin Active
Idle == mqtt.state \notin Active \cup {"preparing"} /\ ~IsPreparing(mqtt)

Or(f, g) == IF f # NoFile THEN f ELSE g

\* Mutant: the history is written even when the file name is not known.
ActivatedHistory_Nameless(m, f, h) ==
  IF m.state \in {"idle", "preparing", "pre_print", "failed"}
    THEN RecordStart(h, Or(f, m.file), m.task) ELSE h

\* _transition_to_active(): the history is written now, or when the file name is known.
Startable == {"idle", "preparing", "pre_print", "failed"}
Activated(m, f) ==
  IF m.state \in Startable
    THEN [m EXCEPT !.state = "printing", !.deferred = Or(f, m.file) = NoFile]
    ELSE m
ActivatedHistory(m, f, h) ==
  IF m.state \in Startable /\ Or(f, m.file) # NoFile
    THEN RecordStart(h, Or(f, m.file), m.task) ELSE h

\* _complete_deferred_print_start()
Completes(m) == m.state = "printing" /\ m.deferred /\ m.file # NoFile
Completed(m) == [m EXCEPT !.deferred = @ /\ ~Completes(m)]
CompletedHistory(m, h) == IF Completes(m) THEN RecordStart(h, m.file, m.task) ELSE h

Remember(m) == recent' = [task |-> m.task, file |-> m.file, at |-> TRUE]

\* record_finish() or _record_failure(), with the job the client believes in.
Finish(m, h) ==
  /\ history' = RecordEnd(h, m.file, m.task, "finished")
  /\ Remember(m)
Fail(m, h) ==
  /\ history' = RecordEnd(h, m.file, m.task, "failed")
  /\ Remember(m)

(* commandType 1044: the preview names the file. *)
GotPreview(msg) ==
  /\ msg.t = "preview"
  /\ LET named == [mqtt EXCEPT !.file = msg.file]
         m == Completed(named)
     IN  /\ history' = CompletedHistory(named, history)
         /\ mqtt' = IF msg.staged /\ (m.state = "preparing" \/ IsPreparing(m))
                      THEN [m EXCEPT !.state = "pre_print", !.stop = FALSE] ELSE m
  /\ UNCHANGED recent

(* The firmware confirms a stop. *)
GotStopped(msg) ==
  /\ msg.t = "stopped"
  /\ IF mqtt.stop /\ mqtt.state \in Active \cup {"preparing"}
       THEN Fail(mqtt, history) /\ mqtt' = Reset
       ELSE UNCHANGED clientVars

(* commandType 1000 *)
Noted(v) == [mqtt EXCEPT !.prep = (v = 8)]

\* A bare "printing" right after a completion says nothing about a new print.
IsBare ==
  /\ mqtt.state = "idle" /\ mqtt.file = NoFile /\ mqtt.task = NoTask /\ ~IsPreparing(mqtt)
  /\ recent.at

GotPrinting(msg) ==
  /\ msg = StateIs(1)
  /\ mqtt' = IF mqtt.state = "paused" THEN [Noted(1) EXCEPT !.state = "printing"]
             ELSE IF IsBare THEN Noted(1) ELSE Activated(Noted(1), NoFile)
  /\ history' = IF IsBare THEN history ELSE ActivatedHistory(mqtt, NoFile, history)
  /\ UNCHANGED recent

GotPausedOrResumed(msg) ==
  /\ \E v \in {2, 3} :
       /\ msg = StateIs(v)
       /\ mqtt' = [Noted(v) EXCEPT !.state =
                     IF v = 2 /\ @ = "printing" THEN "paused"
                     ELSE IF v = 3 /\ @ = "paused" THEN "printing" ELSE @]
  /\ UNCHANGED <<recent, history>>

GotIdle(msg) ==
  /\ msg = StateIs(0)
  /\ \/ /\ mqtt.state \in Active \cup {"preparing"} \/ IsPreparing(mqtt)
        /\ mqtt' = Reset
        /\ \/ mqtt.stop /\ Fail(mqtt, history)
           \/ ~mqtt.stop /\ mqtt.state \in Active /\ Finish(mqtt, history)
           \/ ~mqtt.stop /\ mqtt.state \notin Active /\ UNCHANGED <<recent, history>>
     \/ /\ mqtt.state \in {"idle", "failed"} /\ ~IsPreparing(mqtt)
        /\ mqtt' = Noted(0)
        /\ UNCHANGED <<recent, history>>

\* "preparing or aborted": an abort for a print that is under way.
GotPreparing(msg) ==
  /\ msg = StateIs(8)
  /\ \/ /\ mqtt.state \in {"printing", "paused"}
        /\ Fail(mqtt, history)
        /\ mqtt' = Reset
     \/ /\ mqtt.state \notin {"printing", "paused"}
        /\ mqtt' = [Noted(8) EXCEPT !.state = IF @ = "failed" THEN "idle" ELSE @]
        /\ UNCHANGED <<recent, history>>

(* commandType 1001: progress *)

\* _recent_completion_matches()
IsStale(msg) ==
  /\ mqtt.state = "idle" /\ ~IsPreparing(mqtt)
  /\ recent.at /\ (recent.task = msg.task \/ recent.file = msg.file)

\* A job that changes at its beginning is a new one; later it is taken for a stray name.
WithTask(m, msg) ==
  IF m.task # NoTask /\ msg.task # m.task /\ m.state = "printing"
    THEN IF msg.p <= 1 THEN [Reset EXCEPT !.task = msg.task] ELSE m
    ELSE [m EXCEPT !.task = msg.task]
WithFile(m, msg) ==
  IF m.file # NoFile /\ msg.file # m.file /\ m.state = "printing"
    THEN IF msg.p <= 1 THEN [Reset EXCEPT !.file = msg.file] ELSE m
    ELSE [m EXCEPT !.file = msg.file]
Named(msg) == WithFile(WithTask(mqtt, msg), msg)

\* A stored file's print schedule opens the pre-print window.
Scheduled(m, msg) ==
  IF msg.schedule /\ m.state = "preparing" /\ m.path # NoFile /\ m.file = m.path /\ msg.p = 0
    THEN [m EXCEPT !.state = "pre_print", !.stop = FALSE] ELSE m

\* A progress that falls back to the beginning, of neither the same task nor the same file.
\* The task id compared is the one adopted, or the stray one put in its place.
Rewound(m, msg) ==
  IF /\ m.p # NoPercent /\ msg.p < m.p /\ msg.p <= 1
     /\ WithTask(mqtt, msg).task # mqtt.task /\ m.file # mqtt.file
    THEN Reset ELSE m

GotProgress(msg) ==
  /\ msg.t = "progress"
  /\ LET named == Named(msg)
         m == Rewound(Scheduled(Completed(named), msg), msg)
         h == CompletedHistory(named, history)
         starts == 0 < msg.p /\ msg.p < 100 /\ m.state \notin Active
         a == IF starts THEN Activated(m, named.file) ELSE m
         ah == IF starts THEN ActivatedHistory(m, named.file, h) ELSE h
     IN  \/ /\ IsStale(msg)
            /\ UNCHANGED clientVars
         \/ /\ ~IsStale(msg)
            /\ msg.note = "error" /\ m.state = "printing"
            /\ Fail(m, h)
            /\ mqtt' = [m EXCEPT !.state = "failed"]
         \/ /\ ~IsStale(msg)
            /\ ~(msg.note = "error" /\ m.state = "printing")
            /\ IF a.state = "printing" /\ (msg.note = "done" \/ msg.p = 100)
                 THEN Finish(a, ah) /\ mqtt' = Reset
                 ELSE /\ history' = ah
                      /\ mqtt' = [a EXCEPT !.p = msg.p]
                      /\ UNCHANGED recent

Handle(msg) ==
  \/ GotPreview(msg) \/ GotStopped(msg) \/ GotPrinting(msg) \/ GotPausedOrResumed(msg)
  \/ GotIdle(msg) \/ GotPreparing(msg) \/ GotProgress(msg)

\* One more of the bounded steps.
Extra == extras < MaxExtras /\ extras' = extras + 1

\* RECENT_COMPLETION_GUARD_SEC pass.
GuardExpires ==
  /\ recent.at
  /\ recent' = NoRecent
  /\ UNCHANGED <<mqtt, history, printerVars, userVars, online, extras>>

\* The connection breaks; worker_start() opens the next.
Disconnect ==
  /\ online /\ Extra
  /\ online' = FALSE
  /\ UNCHANGED <<printerVars, userVars, clientVars>>
\* Mutant: a print that is under way is taken for aborted.
Reconnect_RecordsFailure ==
  /\ ~online
  /\ online' = TRUE
  /\ Fail(mqtt, history)
  /\ mqtt' = Reset
  /\ UNCHANGED <<printerVars, userVars, extras>>
\* Mutant: the state of before is kept.
Reconnect_KeepsState ==
  /\ ~online
  /\ online' = TRUE
  /\ UNCHANGED <<clientVars, printerVars, userVars, extras>>
Reconnect ==
  /\ ~online
  /\ online' = TRUE
  /\ mqtt' = Reset
  /\ UNCHANGED <<recent, history, printerVars, userVars, extras>>

-----------------------------------------------------------------------------
(* The printer (external): what src/ expects of its notifications. *)

\* A message is handled when it arrives, or lost while the connection is down.
Arrives(msg) == IF online THEN Handle(msg) ELSE UNCHANGED clientVars
Say(msg) == Arrives(msg) /\ UNCHANGED <<userVars, online, extras>>

BeginJob(f) ==
  /\ phase = "idle" /\ job < MaxJobs /\ (job = 0 => f = FirstFile)
  /\ job' = job + 1 /\ file' = f /\ phase' = "starting" /\ percent' = 0
  /\ UNCHANGED over

\* Started at the printer's own panel.
PanelStart ==
  /\ \E f \in File : BeginJob(f)
  /\ UNCHANGED <<userVars, clientVars, online, extras>>

\* The printer takes, or refuses, the start of a stored file.
TakeCommand ==
  /\ command # NoFile
  /\ command' = NoFile
  /\ BeginJob(command) \/ UNCHANGED printerVars
  /\ UNCHANGED <<transfer, upload, stored, stopper, clientVars, online, extras>>

\* The state, whenever it is asked for.
Code == CASE phase \in {"idle", "starting"} -> 0 [] phase = "preparing" -> 8
          [] phase = "printing" -> 1 [] phase = "paused" -> 2
ReportState == Say(StateIs(Code)) /\ UNCHANGED printerVars

\* A job that was taken is prepared: until then messages are still about the one before.
Prepare ==
  /\ phase = "starting" /\ phase' = "preparing" /\ over' = NoUpdate
  /\ Say(StateIs(8))
  /\ UNCHANGED <<job, file, percent>>

\* The preview of the job that is prepared, of its staged copy.
ReportPreview ==
  /\ phase = "preparing" /\ Say([t |-> "preview", file |-> file, staged |-> TRUE])
  /\ UNCHANGED printerVars

ReportProgress ==
  /\ phase \notin {"idle", "starting"}
  /\ \E schedule \in {phase = "preparing", FALSE} : Say(Progress(percent, "none", schedule))
  /\ UNCHANGED printerVars

\* "The printer can emit late duplicate updates for an already-finished job."
LateReport ==
  /\ phase \in {"idle", "starting"} /\ over.task # NoTask
  /\ \E p \in {50, 100} : Say([over EXCEPT !.p = p])
  /\ UNCHANGED printerVars

StartPrinting ==
  /\ phase = "preparing" /\ phase' = "printing"
  /\ Say(StateIs(1))
  /\ UNCHANGED <<job, file, percent, over>>

Advance ==
  /\ phase = "printing" /\ percent < 50
  /\ percent' = IF percent = 0 THEN 1 ELSE 50
  /\ Say(Progress(percent', "none", FALSE))
  /\ UNCHANGED <<job, file, phase, over>>

Pause ==
  /\ phase = "printing" /\ percent > 0 /\ phase' = "paused"
  /\ Say(StateIs(2))
  /\ UNCHANGED <<job, file, percent, over>>

Resume ==
  /\ phase = "paused" /\ phase' = "printing"
  /\ \E v \in {1, 3} : Say(StateIs(v))
  /\ UNCHANGED <<job, file, percent, over>>

\* The job is over with this message; late updates of it repeat an error it ended with.
EndsWith(msg) ==
  /\ phase \notin {"idle", "starting"} /\ phase' = "idle" /\ percent' = 0 /\ upload = NoFile
  /\ Say(msg)
  /\ over' = Progress(100, IF msg.t = "progress" /\ msg.note = "error" THEN "error" ELSE "none", FALSE)
  /\ UNCHANGED <<job, file>>

EndJob ==
  \/ EndsWith(StateIs(0)) \/ EndsWith(StateIs(8))
  \/ phase # "preparing" /\ (\/ EndsWith(Progress(100, "none", FALSE))
                             \/ \E note \in {"done", "error"} : EndsWith(Progress(percent, note, FALSE)))

\* A stop command ends the job, with a confirmation or just the state; or it does nothing.
StoppedBy(msg) ==
  /\ phase \notin {"idle", "starting"} /\ phase' = "idle" /\ percent' = 0 /\ upload = NoFile
  /\ Arrives(msg)
  /\ over' = Progress(100, "none", FALSE)
  /\ UNCHANGED <<job, file>>
TakeStop ==
  /\ stopper = "sent" /\ stopper' = "idle"
  /\ \/ StoppedBy([t |-> "stopped"]) \/ StoppedBy(StateIs(0))
     \/ UNCHANGED <<printerVars, clientVars>>
  /\ UNCHANGED <<transfer, upload, stored, command, online, extras>>

-----------------------------------------------------------------------------
(* The users, in threads of the web server. *)

\* mark_pending_print_start()
Pending(f) == [mqtt EXCEPT !.file = f, !.state = "preparing", !.stop = FALSE]

\* The route looks at the state, then the transfer takes its time.  It ends with the printer
\* starting the job, or fails; only then is the job marked as pending.
Upload ==
  /\ ~transfer /\ upload = NoFile /\ Idle /\ job < MaxJobs
  /\ transfer' = TRUE
  /\ UNCHANGED <<upload, stored, command, stopper, printerVars, clientVars, online, extras>>
Uploaded ==
  /\ transfer
  /\ transfer' = FALSE
  /\ \/ \E f \in File : BeginJob(f) /\ upload' = f
     \/ UNCHANGED <<upload, printerVars>>
  /\ UNCHANGED <<stored, command, stopper, clientVars, online, extras>>
MarkPending ==
  /\ upload # NoFile
  /\ upload' = NoFile
  /\ mqtt' = Pending(upload) /\ recent' = NoRecent
  /\ UNCHANGED <<history, transfer, stored, command, stopper, printerVars, online, extras>>

\* Somebody looks at a stored file: the printer answers with its preview.
Browse ==
  /\ Idle /\ phase = "idle" /\ Extra
  /\ \E f \in File : Arrives([t |-> "preview", file |-> f, staged |-> FALSE])
  /\ UNCHANGED <<printerVars, userVars, online>>

\* start_stored_file(), of a printer that is idle: marked first, then commanded.
StoredStart ==
  /\ stored = NoFile /\ command = NoFile /\ Idle /\ Extra /\ phase = "idle"
  /\ \E f \in File :
       /\ job = 0 => f = FirstFile
       /\ stored' = f /\ command' = f
       /\ mqtt' = [Pending(f) EXCEPT !.path = f]
  /\ recent' = NoRecent
  /\ UNCHANGED <<history, transfer, upload, stopper, printerVars, online>>

\* It ends, confirmed; or it times out.
StoredEnd ==
  /\ stored # NoFile
  /\ stored' = NoFile
  /\ \/ mqtt' = [mqtt EXCEPT !.path = NoFile]
     \/ /\ mqtt.state = "preparing" /\ ~mqtt.prep
        /\ mqtt' = [mqtt EXCEPT !.path = NoFile, !.state = "idle", !.stop = FALSE]
  /\ UNCHANGED <<recent, history, transfer, upload, command, stopper, printerVars, online, extras>>

\* send_print_control(stop) looks at the state first, and takes the lock afterwards.
StopDecide ==
  /\ stopper = "idle" /\ Extra /\ ~Idle
  /\ stopper' = "decided"
  /\ UNCHANGED <<transfer, upload, stored, command, printerVars, clientVars, online>>
StopSend ==
  /\ stopper = "decided" /\ stopper' = "sent"
  /\ mqtt' = [mqtt EXCEPT !.stop = TRUE]
  /\ UNCHANGED <<recent, history, transfer, upload, stored, command, printerVars, online, extras>>

\* A closed row is deleted: pruned, selected, or with all the others.
Delete ==
  /\ Extra
  /\ \E r \in Deletable(history) : history' = [history EXCEPT !.rows = @ \ {r}]
  /\ UNCHANGED <<mqtt, recent, transfer, upload, stored, command, stopper, printerVars, online>>

-----------------------------------------------------------------------------
PrinterStep ==
  \/ PanelStart \/ TakeCommand \/ ReportState \/ ReportPreview \/ ReportProgress \/ LateReport
  \/ Prepare \/ StartPrinting \/ Advance \/ Pause \/ Resume \/ EndJob \/ TakeStop
ClientStep == GuardExpires \/ Disconnect \/ Reconnect
UserStep ==
  \/ Upload \/ Uploaded \/ MarkPending \/ Browse \/ StoredStart \/ StoredEnd
  \/ StopDecide \/ StopSend \/ Delete

Next == PrinterStep \/ ClientStep \/ UserStep
Spec == Init /\ [][Next]_vars

-----------------------------------------------------------------------------
\* The printer prints one job at a time, and so does its history: whatever order the marks of
\* uploads, printer states, names and progress come in, at most one row is open.
OneOpenRow == \A r, q \in Open(history) : r = q

\* A task of the printer has one row, however often its updates are repeated, its print is
\* activated again, or the connection is made anew (record_start()'s deduplication).
OneRowPerTask ==
  \A r, q \in history.rows : r.printer = Me /\ q.printer = Me /\ r.task # NoTask /\ r.task = q.task => r = q

\* A job the printer is still at is not on record as finished or failed: no late update, stop
\* of another job or reconnect closes it.
EndedMeansOver ==
  \A r \in history.rows :
    r.status \in {"finished", "failed"} /\ r.task # NoTask => ~(r.task = job /\ phase # "idle")

\* What makes it inductive, and UpdateRecords: numbers grow, and the next job is named by nobody
\* before it is prepared; percentages begin when printing does;
TaskInv ==
  /\ mqtt.task <= job /\ over.task <= job /\ \A r \in history.rows : r.task <= job
  /\ phase = "starting" =>
       mqtt.task # job /\ over.task # job /\ \A r \in history.rows : r.task # job
  /\ upload \in IF phase = "idle" THEN {NoFile} ELSE {NoFile, file}
  /\ phase \notin {"printing", "paused"} => percent = 0
  /\ phase = "paused" => percent > 0

AtWork == phase \in {"preparing", "printing", "paused"}

\* once the client has the job's number, a row of it, or a percentage, it has no other names, and
\* it follows what the printer does as long as it is connected;
NameInv ==
  /\ mqtt.state = "preparing" => ~recent.at
  /\ AtWork /\ (mqtt.task = job \/ OfTask(history, job) # {} \/ (online /\ percent > 0)) =>
       mqtt.file \in {file, NoFile}
  /\ AtWork /\ online =>
       /\ percent > 0 => mqtt.task \in {job, NoTask}
       /\ phase = "preparing" => mqtt.state \notin {"printing", "paused", "failed"}
       /\ phase # "preparing" =>
            /\ ~mqtt.prep /\ mqtt.state \in {"idle", "preparing", "printing", "paused"}
            /\ mqtt.state = "paused" => phase = "paused"
            /\ mqtt.state = "idle" /\ recent.at =>
                 mqtt.task \in {job, NoTask} /\ mqtt.file \in {file, NoFile}

\* a job that has a row has its file on an open one, and so has a print whose record the client
\* does not hold back for want of a name.
OnRecord == \E r \in Open(history) : r.file = file
RecordInv ==
  /\ AtWork /\ OfTask(history, job) # {} => OnRecord
  /\ online /\ phase \in {"printing", "paused"} /\ mqtt.state \in {"printing", "paused"}
       /\ ~mqtt.deferred /\ mqtt.task \in {job, NoTask} /\ mqtt.file \in {file, NoFile} => OnRecord

JobInv == TaskInv /\ NameInv /\ RecordInv /\ EndedMeansOver

\* Rows change in one way: open ones of this printer are closed, closed ones deleted.  What is
\* on record of another printer, or has ended, is never rewritten.
RowsOnlyClose ==
  [][\A r \in history.rows :
       \/ r \in history'.rows
       \/ r \in Open(history) /\ \E s \in Status : With(r, s) \in history'.rows
       \/ r \in Deletable(history)]_history

\* An update from the middle of a print leaves the print on record, whatever came or was lost
\* before it, once the guard against late updates has expired.
UpdateRecords ==
  [][online /\ ~recent.at /\ phase = "printing" /\ percent = 50 /\ ReportProgress
       => \E r \in Open(history') : r.file = file]_vars
=============================================================================
