--------------------------- MODULE PrintJobProofs ---------------------------
(***************************************************************************)
(* The history of prints, for any number of jobs, files and printers: type  *)
(* correctness, one open row, one row per task, no row rewritten; and that  *)
(* the client follows the job: nothing closes its row while it is printed,  *)
(* and an update from its middle leaves it on record.                       *)
(***************************************************************************)
EXTENDS PrintJob, TLAPS

(* The operations of the history, as facts about tables. *)

OneOpen(h) == \A r, q \in Open(h) : r = q
OnePerTask(h) ==
  \A r, q \in h.rows : r.printer = Me /\ q.printer = Me /\ r.task # NoTask /\ r.task = q.task => r = q
HistoryOK(h) == h \in Table /\ OneOpen(h) /\ OnePerTask(h)

\* Every row of h is still there in g, or was open and is closed.
Kept(h, g) ==
  \A r \in h.rows : r \in g.rows \/ (r \in Open(h) /\ \E s \in Status \ {"started"} : With(r, s) \in g.rows)

LEMMA WithFacts ==
  ASSUME NEW r \in Row, NEW s \in Status
  PROVE  With(r, s) \in Row /\ With(r, s).status = s /\ With(r, s).task = r.task
           /\ With(r, s).printer = r.printer /\ With(r, s).id = r.id
  BY DEF With, Row

\* Closing rows of one printer keeps rows apart: the task and printer stay.
LEMMA KeptTransitive ==
  ASSUME NEW h \in Table, NEW g \in Table, NEW k \in Table, Kept(h, g), Kept(g, k)
  PROVE  Kept(h, k)
<1> SUFFICES ASSUME NEW r \in h.rows
             PROVE  r \in k.rows \/ (r \in Open(h) /\ \E s \in Status \ {"started"} : With(r, s) \in k.rows)
  BY DEF Kept
<1>0. r \in Row
  BY DEF Table
<1>1. CASE r \in g.rows
  <2>1. r \in Open(g) => r \in Open(h)
    BY DEF Open
  <2> QED
    BY <1>1, <2>1 DEF Kept
<1>2. CASE r \in Open(h) /\ \E s \in Status \ {"started"} : With(r, s) \in g.rows
  <2>1. PICK s \in Status \ {"started"} : With(r, s) \in g.rows
    BY <1>2
  <2>2. With(r, s) \notin Open(g)
    BY <1>0, <2>1, WithFacts DEF Open
  <2>3. With(r, s) \in k.rows
    BY <2>1, <2>2 DEF Kept
  <2> QED
    BY <1>2, <2>3
<1> QED
  BY <1>1, <1>2 DEF Kept

LEMMA RecordStartOK ==
  ASSUME NEW h, HistoryOK(h), NEW f \in File, NEW t \in Task \cup {NoTask}
  PROVE  HistoryOK(RecordStart(h, f, t)) /\ Kept(h, RecordStart(h, f, t))
<1>1. CASE OfTask(h, t) # {}
  BY <1>1 DEF RecordStart, Kept
<1>2. CASE OfTask(h, t) = {}
  <2> DEFINE Closed(r) == IF r \in Open(h) THEN With(r, "interrupted") ELSE r
             new == NewRow(h, f, t)
             g == [rows |-> {Closed(r) : r \in h.rows} \cup {new}, next |-> h.next + 1]
  <2>1. RecordStart(h, f, t) = g
    BY <1>2 DEF RecordStart
  <2>2. h.rows \subseteq Row /\ h.next \in Nat
    BY DEF HistoryOK, Table
  <2>3. \A r \in h.rows : /\ Closed(r) \in Row /\ Closed(r).task = r.task /\ Closed(r).printer = r.printer
                          /\ Closed(r) \notin Open(g)
    <3> SUFFICES ASSUME NEW r \in h.rows
                 PROVE  /\ Closed(r) \in Row /\ Closed(r).task = r.task /\ Closed(r).printer = r.printer
                        /\ Closed(r) \notin Open(g)
      OBVIOUS
    <3>1. CASE r \in Open(h)
      BY <3>1, <2>2, WithFacts DEF Open, Status
    <3>2. CASE r \notin Open(h)
      BY <3>2, <2>2 DEF Open
    <3> QED
      BY <3>1, <3>2
  <2>4. /\ new \in Row /\ new.task = t /\ new.printer = Me /\ new.status = "started"
    BY <2>2, HistoryAssumption DEF NewRow, Row, Status
  <2>5. g \in Table
    <3>1. {Closed(r) : r \in h.rows} \subseteq Row
      BY <2>3
    <3>2. {Closed(r) : r \in h.rows} \cup {new} \in SUBSET Row
      BY <3>1, <2>4
    <3> HIDE DEF Closed, new
    <3> QED
      BY <3>2, <2>2 DEF Table
  <2>6. OneOpen(g)
    <3>1. \A r \in Open(g) : r = new
      BY <2>3 DEF Open
    <3> QED
      BY <3>1 DEF OneOpen
  <2>7. OnePerTask(g)
    <3> SUFFICES ASSUME NEW r \in g.rows, NEW q \in g.rows,
                        r.printer = Me, q.printer = Me, r.task # NoTask, r.task = q.task
                 PROVE  r = q
      BY DEF OnePerTask
    <3>1. \A x \in h.rows : Closed(x).printer = Me /\ Closed(x).task # NoTask => Closed(x).task # t
      BY <2>3, <1>2 DEF OfTask
    <3>2. CASE r = new \/ q = new
      BY <3>1, <3>2, <2>4
    <3>3. CASE r # new /\ q # new
      <4>1. PICK x \in h.rows : r = Closed(x)
        BY <3>3
      <4>2. PICK y \in h.rows : q = Closed(y)
        BY <3>3
      <4>3. x = y
        BY <4>1, <4>2, <2>3 DEF HistoryOK, OnePerTask
      <4> QED
        BY <4>1, <4>2, <4>3
    <3> QED
      BY <3>2, <3>3
  <2>8. Kept(h, g)
    <3> SUFFICES ASSUME NEW r \in h.rows
                 PROVE  r \in g.rows \/ (r \in Open(h) /\ \E s \in Status \ {"started"} : With(r, s) \in g.rows)
      BY DEF Kept
    <3>1. Closed(r) \in g.rows
      OBVIOUS
    <3> QED
      BY <3>1 DEF Status
  <2> QED
    BY <2>1, <2>5, <2>6, <2>7, <2>8 DEF HistoryOK
<1> QED
  BY <1>1, <1>2

\* With one row open, that one is found, whatever it is looked for by.
LEMMA FindActiveIsOpen ==
  ASSUME NEW h, HistoryOK(h), NEW f, NEW t, Open(h) # {}
  PROVE  FindActive(h, f, t) \in Open(h)
<1>1. PICK o \in Open(h) : Open(h) = {o}
  BY DEF HistoryOK, OneOpen
<1>2. o.id \in Nat
  BY DEF HistoryOK, Table, Row, Open
<1> DEFINE S == IF Open(h) \cap OfTask(h, t) # {} THEN Open(h) \cap OfTask(h, t)
                ELSE IF {r \in Open(h) : r.file = f} # {} THEN {r \in Open(h) : r.file = f} ELSE Open(h)
<1>3. S = {o}
  BY <1>1
<1>4. Newest(S) = o
  BY <1>2, <1>3 DEF Newest
<1> QED
  BY <1>1, <1>4 DEF FindActive

LEMMA RecordEndOK ==
  ASSUME NEW h, HistoryOK(h), NEW f, NEW t, NEW s \in Status \ {"started"}
  PROVE  HistoryOK(RecordEnd(h, f, t, s)) /\ Kept(h, RecordEnd(h, f, t, s))
<1>1. CASE Open(h) = {}
  BY <1>1 DEF RecordEnd, Kept
<1>2. CASE Open(h) # {}
  <2> DEFINE a == FindActive(h, f, t)
             g == [h EXCEPT !.rows = (@ \ {a}) \cup {With(a, s)}]
  <2>1. RecordEnd(h, f, t, s) = g
    BY <1>2 DEF RecordEnd
  <2>2. a \in Open(h)
    BY <1>2, FindActiveIsOpen
  <2>3. h.rows \subseteq Row /\ h \in Table /\ a \in h.rows /\ a \in Row
    BY <2>2 DEF HistoryOK, Table, Open
  <2>4. With(a, s) \in Row /\ With(a, s).status = s /\ With(a, s).task = a.task /\ With(a, s).printer = a.printer
    BY <2>3, WithFacts
  <2>5. g \in Table /\ g.rows = (h.rows \ {a}) \cup {With(a, s)}
    BY <2>3, <2>4 DEF Table
  <2> HIDE DEF a, g
  <2>6. OneOpen(g)
    BY <2>4, <2>5 DEF OneOpen, Open, HistoryOK
  <2>7. OnePerTask(g)
    BY <2>3, <2>4, <2>5 DEF OnePerTask, HistoryOK
  <2>8. Kept(h, g)
    BY <2>2, <2>5 DEF Kept
  <2> QED
    BY <2>1, <2>5, <2>6, <2>7, <2>8 DEF HistoryOK
<1> QED
  BY <1>1, <1>2

LEMMA KeptRefl == \A h : Kept(h, h)
  BY DEF Kept

-----------------------------------------------------------------------------
(* The handlers of MqttQueue: types, and what they do to the history. *)

Msg ==
  Update \cup [t : {"preview"}, file : File, staged : BOOLEAN]
         \cup [t : {"state"}, v : {0, 1, 2, 3, 8}] \cup {[t |-> "stopped"]}

\* The client's part of the invariant.
ClientOK == mqtt \in MqttState /\ recent \in Recent /\ HistoryOK(history)

\* A step of the client: it keeps ClientOK and rewrites nothing in the history.
ClientKeeps == ClientOK' /\ Kept(history, history')

LEMMA ResetType == Reset \in MqttState
  BY DEF Reset, MqttState, State, Active, Percent, NoPercent

LEMMA ActivatedOK ==
  ASSUME NEW m \in MqttState, NEW f \in File \cup {NoFile}, NEW h, HistoryOK(h)
  PROVE  /\ Activated(m, f) \in MqttState
         /\ HistoryOK(ActivatedHistory(m, f, h)) /\ Kept(h, ActivatedHistory(m, f, h))
<1>1. Activated(m, f) \in MqttState
  BY DEF Activated, MqttState, State, Active
<1>2. m.file \in File \cup {NoFile} /\ m.task \in Task \cup {NoTask}
  BY DEF MqttState
<1>3. Or(f, m.file) # NoFile => Or(f, m.file) \in File
  BY <1>2 DEF Or
<1> QED
  BY <1>1, <1>2, <1>3, RecordStartOK, KeptRefl DEF ActivatedHistory

LEMMA CompletedOK ==
  ASSUME NEW m \in MqttState, NEW h, HistoryOK(h)
  PROVE  /\ Completed(m) \in MqttState
         /\ HistoryOK(CompletedHistory(m, h)) /\ Kept(h, CompletedHistory(m, h))
<1>1. Completed(m) \in MqttState
  BY DEF Completed, Completes, MqttState
<1>2. m.file \in File \cup {NoFile} /\ m.task \in Task \cup {NoTask}
  BY DEF MqttState
<1> QED
  BY <1>1, <1>2, RecordStartOK, KeptRefl DEF CompletedHistory, Completes

LEMMA EndOK ==
  ASSUME NEW m \in MqttState, NEW h, HistoryOK(h), Finish(m, h) \/ Fail(m, h)
  PROVE  recent' \in Recent /\ HistoryOK(history') /\ Kept(h, history')
<1>1. recent' \in Recent
  <2>1. recent' = [task |-> m.task, file |-> m.file, at |-> TRUE]
    BY DEF Finish, Fail, Remember
  <2>2. m.task \in Task \cup {NoTask} /\ m.file \in File \cup {NoFile}
    BY DEF MqttState
  <2> QED
    BY <2>1, <2>2 DEF Recent
<1> QED
  BY <1>1, RecordEndOK DEF Finish, Fail, Status

LEMMA PreviewKeeps ==
  ASSUME ClientOK, NEW msg \in Msg, GotPreview(msg)
  PROVE  ClientKeeps
<1> DEFINE named == [mqtt EXCEPT !.file = msg.file]
           m == Completed(named)
<1>1. msg.file \in File
  <2>1. msg.t = "preview"
    BY DEF GotPreview
  <2>2. msg \notin Update
    BY <2>1 DEF Update
  <2>3. msg \notin [t : {"state"}, v : {0, 1, 2, 3, 8}]
    BY <2>1
  <2>4. msg # [t |-> "stopped"]
    BY <2>1
  <2> QED
    BY <2>2, <2>3, <2>4 DEF Msg
<1>2. named \in MqttState
  BY <1>1 DEF ClientOK, MqttState
<1>3. m \in MqttState /\ HistoryOK(CompletedHistory(named, history)) /\ Kept(history, CompletedHistory(named, history))
  BY <1>2, CompletedOK DEF ClientOK
<1>4. /\ history' = CompletedHistory(named, history) /\ recent' = recent
      /\ mqtt' = m \/ mqtt' = [m EXCEPT !.state = "pre_print", !.stop = FALSE]
  BY DEF GotPreview
<1> HIDE DEF m, named
<1>5. mqtt' \in MqttState
  BY <1>3, <1>4 DEF MqttState, State, Active
<1> QED
  BY <1>3, <1>4, <1>5 DEF ClientKeeps, ClientOK

LEMMA StateKeeps ==
  ASSUME ClientOK, NEW msg \in Msg,
         GotPrinting(msg) \/ GotPausedOrResumed(msg) \/ GotIdle(msg) \/ GotPreparing(msg) \/ GotStopped(msg)
  PROVE  ClientKeeps
<1>1. \A v : Noted(v) \in MqttState
  BY DEF Noted, ClientOK, MqttState
<1>2. CASE GotPrinting(msg)
  <2>1. mqtt' \in MqttState
    <3>1. [Noted(1) EXCEPT !.state = "printing"] \in MqttState
      BY <1>1 DEF MqttState, State, Active
    <3>2. Activated(Noted(1), NoFile) \in MqttState
      BY <1>1, ActivatedOK DEF ClientOK
    <3> QED
      BY <1>1, <1>2, <3>1, <3>2 DEF GotPrinting
  <2> QED
    BY <1>2, <2>1, ActivatedOK, KeptRefl DEF GotPrinting, ClientKeeps, ClientOK
<1>3. CASE GotPausedOrResumed(msg)
  <2>1. PICK v \in {2, 3} : mqtt' = [Noted(v) EXCEPT !.state =
                     IF v = 2 /\ @ = "printing" THEN "paused"
                     ELSE IF v = 3 /\ @ = "paused" THEN "printing" ELSE @]
    BY <1>3 DEF GotPausedOrResumed
  <2>2. mqtt' \in MqttState
    BY <1>1, <2>1 DEF MqttState, State, Active
  <2> QED
    BY <1>3, <2>2, KeptRefl DEF GotPausedOrResumed, ClientKeeps, ClientOK
<1>4. CASE GotIdle(msg)
  <2>1. mqtt' \in MqttState
    BY <1>1, <1>4, ResetType DEF GotIdle
  <2>2. recent' \in Recent /\ HistoryOK(history') /\ Kept(history, history')
    BY <1>4, EndOK, KeptRefl DEF GotIdle, ClientOK
  <2> QED
    BY <2>1, <2>2 DEF ClientKeeps, ClientOK
<1>5. CASE GotPreparing(msg)
  <2>1. [Noted(8) EXCEPT !.state = IF @ = "failed" THEN "idle" ELSE @] \in MqttState
    BY <1>1 DEF MqttState, State
  <2>2. mqtt' \in MqttState
    BY <1>5, <2>1, ResetType DEF GotPreparing
  <2>3. recent' \in Recent /\ HistoryOK(history') /\ Kept(history, history')
    BY <1>5, EndOK, KeptRefl DEF GotPreparing, ClientOK
  <2> QED
    BY <2>2, <2>3 DEF ClientKeeps, ClientOK
<1>6. CASE GotStopped(msg)
  <2>1. mqtt' \in MqttState
    BY <1>6, ResetType DEF GotStopped, ClientOK, clientVars
  <2>2. recent' \in Recent /\ HistoryOK(history') /\ Kept(history, history')
    BY <1>6, EndOK, KeptRefl DEF GotStopped, ClientOK, clientVars
  <2> QED
    BY <2>1, <2>2 DEF ClientKeeps, ClientOK
<1> QED
  BY <1>2, <1>3, <1>4, <1>5, <1>6

LEMMA NamedType ==
  ASSUME ClientOK, NEW msg \in Update
  PROVE  Named(msg) \in MqttState
<1>1. msg.task \in Task /\ msg.file \in File
  BY DEF Update
<1>2. WithTask(mqtt, msg) \in MqttState
  <2>1. [Reset EXCEPT !.task = msg.task] \in MqttState
    BY <1>1, ResetType DEF MqttState
  <2> QED
    BY <1>1, <2>1 DEF WithTask, ClientOK, MqttState
<1>3. ASSUME NEW m \in MqttState
      PROVE  WithFile(m, msg) \in MqttState
  <2>1. [Reset EXCEPT !.file = msg.file] \in MqttState
    BY <1>1, ResetType DEF MqttState
  <2> QED
    BY <1>1, <2>1 DEF WithFile, MqttState
<1> QED
  BY <1>2, <1>3 DEF Named

LEMMA ProgressKeeps ==
  ASSUME ClientOK, NEW msg \in Msg, GotProgress(msg)
  PROVE  ClientKeeps
<1> DEFINE named == Named(msg)
           m == Rewound(Scheduled(Completed(named), msg), msg)
           h == CompletedHistory(named, history)
           starts == 0 < msg.p /\ msg.p < 100 /\ m.state \notin Active
           a == IF starts THEN Activated(m, named.file) ELSE m
           ah == IF starts THEN ActivatedHistory(m, named.file, h) ELSE h
<1>1. msg \in Update
  BY DEF GotProgress, Msg
<1>2. named \in MqttState /\ named.file \in File \cup {NoFile}
  BY <1>1, NamedType DEF MqttState
<1>3. Completed(named) \in MqttState /\ HistoryOK(h) /\ Kept(history, h)
  BY <1>2, CompletedOK DEF ClientOK
<1>4. m \in MqttState
  <2> DEFINE c == Completed(named)
  <2>1. Scheduled(c, msg) \in MqttState
    <3> HIDE DEF c
    <3>1. c \in MqttState => Scheduled(c, msg) \in MqttState
      BY DEF Scheduled, MqttState, State, Active
    <3> USE DEF c
    <3> QED
      BY <3>1, <1>3
  <2> QED
    BY <2>1, ResetType DEF Rewound
<1>5. a \in MqttState /\ HistoryOK(ah) /\ Kept(h, ah)
  <2> HIDE DEF m, h, named
  <2> QED
    BY <1>2, <1>3, <1>4, ActivatedOK, KeptRefl
<1>6. Kept(history, ah)
  <2> HIDE DEF m, h, named, ah
  <2> QED
    BY <1>3, <1>5, KeptTransitive DEF ClientOK, HistoryOK
<1>7. \/ UNCHANGED clientVars
      \/ Fail(m, h) /\ mqtt' = [m EXCEPT !.state = "failed"]
      \/ Finish(a, ah) /\ mqtt' = Reset
      \/ history' = ah /\ mqtt' = [a EXCEPT !.p = msg.p] /\ UNCHANGED recent
  BY DEF GotProgress
<1>8. msg.p \in Percent
  BY <1>1 DEF Update
<1> HIDE DEF m, h, named, a, ah, starts
<1>9. CASE UNCHANGED clientVars
  BY <1>9, KeptRefl DEF clientVars, ClientKeeps, ClientOK
<1>10. CASE Fail(m, h) /\ mqtt' = [m EXCEPT !.state = "failed"]
  <2>1. mqtt' \in MqttState
    BY <1>4, <1>10 DEF MqttState, State
  <2>2. recent' \in Recent /\ HistoryOK(history') /\ Kept(h, history')
    BY <1>3, <1>4, <1>10, EndOK
  <2>3. Kept(history, history')
    BY <1>3, <2>2, KeptTransitive DEF ClientOK, HistoryOK
  <2> QED
    BY <2>1, <2>2, <2>3 DEF ClientKeeps, ClientOK
<1>11. CASE Finish(a, ah) /\ mqtt' = Reset
  <2>1. recent' \in Recent /\ HistoryOK(history') /\ Kept(ah, history')
    BY <1>5, <1>11, EndOK
  <2>2. Kept(history, history')
    BY <1>5, <1>6, <2>1, KeptTransitive DEF ClientOK, HistoryOK
  <2> QED
    BY <1>11, <2>1, <2>2, ResetType DEF ClientKeeps, ClientOK
<1>12. CASE history' = ah /\ mqtt' = [a EXCEPT !.p = msg.p] /\ UNCHANGED recent
  <2>1. mqtt' \in MqttState
    BY <1>5, <1>8, <1>12 DEF MqttState
  <2> QED
    BY <1>5, <1>6, <1>12, <2>1 DEF ClientKeeps, ClientOK
<1> QED
  BY <1>7, <1>9, <1>10, <1>11, <1>12

\* Every notification, handled or lost.
LEMMA ArrivesKeeps ==
  ASSUME ClientOK, NEW msg \in Msg, Arrives(msg)
  PROVE  ClientKeeps
<1>1. CASE UNCHANGED clientVars
  BY <1>1, KeptRefl DEF clientVars, ClientKeeps, ClientOK
<1>2. CASE Handle(msg)
  BY <1>2, PreviewKeeps, StateKeeps, ProgressKeeps DEF Handle
<1> QED
  BY <1>1, <1>2 DEF Arrives

-----------------------------------------------------------------------------
(* The steps. *)

\* Types of the printer, the users and the bounds.
RestOK ==
  /\ job \in 0..MaxJobs /\ file \in File \cup {NoFile}
  /\ phase \in {"idle", "starting", "preparing", "printing", "paused"}
  /\ percent \in {0, 1, 50} /\ over \in Update \cup {NoUpdate}
  /\ online \in BOOLEAN /\ extras \in 0..MaxExtras
  /\ transfer \in BOOLEAN /\ {upload, stored, command} \subseteq File \cup {NoFile}
  /\ stopper \in {"idle", "decided", "sent"}
  /\ phase # "idle" => job \in Task /\ file \in File

Inv == RestOK /\ ClientOK

LEMMA InvImplies == Inv => TypeOK /\ OneOpenRow /\ OneRowPerTask
  BY DEF Inv, RestOK, ClientOK, HistoryOK, OneOpen, OnePerTask, TypeOK, OneOpenRow, OneRowPerTask

LEMMA InitInv == Init => Inv
<1> SUFFICES ASSUME Init PROVE Inv
  OBVIOUS
<1>1. PICK p \in Printer \ {Me} :
        history = [rows |-> {[id |-> 1, printer |-> p, task |-> NoTask, file |-> FirstFile,
                              status |-> "started"]}, next |-> 2]
  BY DEF Init
<1>2. history \in Table
  <2>1. [id |-> 1, printer |-> p, task |-> NoTask, file |-> FirstFile, status |-> "started"] \in Row
    BY JobAssumption DEF Row, Status
  <2> QED
    BY <1>1, <2>1 DEF Table
<1>3. OneOpen(history) /\ OnePerTask(history)
  BY <1>1 DEF OneOpen, OnePerTask, Open
<1>4. mqtt \in MqttState /\ recent \in Recent
  <2>1. NoRecent \in Recent
    BY DEF NoRecent, Recent
  <2> QED
    BY <2>1, ResetType DEF Init
<1>5. RestOK
  <2>1. 0 \in 0..MaxJobs /\ 0 \in 0..MaxExtras
    BY JobAssumption
  <2>2. online \in BOOLEAN /\ transfer \in BOOLEAN /\ over \in Update \cup {NoUpdate}
    BY DEF Init
  <2>3. {upload, stored, command} \subseteq File \cup {NoFile} /\ file \in File \cup {NoFile}
    BY DEF Init
  <2> QED
    BY <2>1, <2>2, <2>3 DEF Init, RestOK
<1> QED
  BY <1>2, <1>3, <1>4, <1>5 DEF Inv, ClientOK, HistoryOK

\* Messages the printer sends.
LEMMA MessageTypes ==
  /\ \A v \in {0, 1, 2, 3, 8} : StateIs(v) \in Msg
  /\ [t |-> "stopped"] \in Msg
  /\ \A f \in File, b \in BOOLEAN : [t |-> "preview", file |-> f, staged |-> b] \in Msg
<1>1. \A v \in {0, 1, 2, 3, 8} : StateIs(v) \in Msg
  BY DEF StateIs, Msg
<1>2. [t |-> "stopped"] \in Msg
  BY DEF Msg
<1>3. \A f \in File, b \in BOOLEAN : [t |-> "preview", file |-> f, staged |-> b] \in Msg
  BY DEF Msg
<1> QED
  BY <1>1, <1>2, <1>3

LEMMA ProgressType ==
  ASSUME RestOK, phase # "idle", NEW p \in Percent, NEW note \in {"none", "error", "done"}, NEW b \in BOOLEAN
  PROVE  Progress(p, note, b) \in Update /\ Progress(p, note, b) \in Msg
<1>1. job \in Task /\ file \in File
  BY DEF RestOK
<1>2. Progress(p, note, b) \in Update
  BY <1>1 DEF Progress, Update
<1> QED
  BY <1>2 DEF Msg

LEMMA LateType ==
  ASSUME over \in Update \cup {NoUpdate}, over.task # NoTask, NEW p \in {50, 100}
  PROVE  [over EXCEPT !.p = p] \in Msg
<1>1. over \in Update
  <2>1. NoUpdate.task = NoTask
    BY DEF NoUpdate
  <2> QED
    BY <2>1
<1>2. p \in Percent
  BY DEF Percent
<1>3. ASSUME NEW o \in Update, NEW q \in Percent
      PROVE  [o EXCEPT !.p = q] \in Update
  BY <1>3 DEF Update
<1>4. [over EXCEPT !.p = p] \in Update
  BY <1>1, <1>2, <1>3
<1> QED
  BY <1>4 DEF Msg

LEMMA SaysKeeps ==
  ASSUME Inv, NEW msg \in Msg, Say(msg)
  PROVE  ClientKeeps /\ UNCHANGED <<userVars, online, extras>>
  BY ArrivesKeeps DEF Say, Inv

LEMMA SameClient ==
  ASSUME Inv, UNCHANGED clientVars
  PROVE  ClientKeeps
  BY KeptRefl DEF Inv, ClientOK, ClientKeeps, clientVars

LEMMA BeginJobOK ==
  ASSUME Inv, NEW f \in File, BeginJob(f)
  PROVE  /\ job' \in Task /\ job' \in 0..MaxJobs /\ file' \in File /\ phase' = "starting" /\ percent' = 0 /\ over' = over
<1>1. job \in Nat /\ job < MaxJobs /\ job' = job + 1
  BY JobAssumption DEF Inv, RestOK, BeginJob
<1>2. job' \in 1..MaxJobs /\ job' \in 0..MaxJobs
  BY <1>1, JobAssumption
<1> QED
  BY <1>2, JobAssumption DEF BeginJob

LEMMA PrinterStepOK ==
  ASSUME Inv, PrinterStep
  PROVE  RestOK' /\ ClientKeeps
<1> USE DEF RestOK, userVars, printerVars
<1>0. RestOK /\ Inv
  BY DEF Inv
<1>1. CASE PanelStart
  <2>1. PICK f \in File : BeginJob(f)
    BY <1>1 DEF PanelStart
  <2>2. RestOK'
    BY <1>0, <1>1, <2>1, BeginJobOK DEF PanelStart
  <2> QED
    BY <1>1, <2>2, SameClient DEF PanelStart
<1>2. CASE TakeCommand
  <2>1. command \in File
    BY <1>0, <1>2 DEF TakeCommand
  <2>2. CASE BeginJob(command)
    <3>1. job' \in Task /\ job' \in 0..MaxJobs /\ file' \in File /\ phase' = "starting" /\ percent' = 0 /\ over' = over
      BY <2>1, <2>2, BeginJobOK
    <3> QED
      BY <1>0, <1>2, <3>1, SameClient DEF TakeCommand
  <2>3. CASE UNCHANGED printerVars
    BY <1>0, <1>2, <2>3, SameClient DEF TakeCommand
  <2> QED
    BY <1>2, <2>2, <2>3 DEF TakeCommand
<1>3. CASE ReportState
  <2>1. Code \in {0, 1, 2, 3, 8}
    BY <1>0 DEF Code
  <2>2. ClientKeeps /\ UNCHANGED <<userVars, online, extras>>
    BY <1>3, <2>1, SaysKeeps, MessageTypes DEF ReportState
  <2> QED
    BY <1>0, <1>3, <2>2 DEF ReportState
<1>4. CASE ReportPreview
  <2>1. ClientKeeps /\ UNCHANGED <<userVars, online, extras>>
    BY <1>0, <1>4, SaysKeeps, MessageTypes DEF ReportPreview
  <2> QED
    BY <1>0, <1>4, <2>1 DEF ReportPreview
<1>5. CASE ReportProgress
  <2>1. PICK schedule \in {phase = "preparing", FALSE} : Say(Progress(percent, "none", schedule))
    BY <1>5 DEF ReportProgress
  <2>2. Progress(percent, "none", schedule) \in Msg
    <3>1. phase # "idle" /\ percent \in Percent /\ schedule \in BOOLEAN
      BY <1>0, <1>5 DEF ReportProgress, Percent
    <3> QED
      BY <1>0, <3>1, ProgressType
  <2>3. ClientKeeps /\ UNCHANGED <<userVars, online, extras>>
    BY <2>1, <2>2, SaysKeeps
  <2> QED
    BY <1>0, <1>5, <2>3 DEF ReportProgress
<1>6. CASE LateReport
  <2>1. PICK p \in {50, 100} : Say([over EXCEPT !.p = p])
    BY <1>6 DEF LateReport
  <2>2. ClientKeeps /\ UNCHANGED <<userVars, online, extras>>
    BY <1>0, <1>6, <2>1, LateType, SaysKeeps DEF LateReport
  <2> QED
    BY <1>0, <1>6, <2>2 DEF LateReport
<1>7. CASE Prepare \/ StartPrinting \/ Pause \/ Resume
  <2>1. ClientKeeps /\ UNCHANGED <<userVars, online, extras>>
    BY <1>7, SaysKeeps, MessageTypes DEF Prepare, StartPrinting, Pause, Resume
  <2> QED
    BY <1>0, <1>7, <2>1 DEF Prepare, StartPrinting, Pause, Resume
<1>8. CASE Advance
  <2>1. percent' \in {0, 1, 50} /\ percent' \in Percent /\ phase # "idle"
    BY <1>8 DEF Advance, Percent
  <2>2. Progress(percent', "none", FALSE) \in Msg
    BY <1>0, <2>1, ProgressType
  <2>3. ClientKeeps /\ UNCHANGED <<userVars, online, extras>>
    BY <1>8, <2>2, SaysKeeps DEF Advance
  <2> QED
    BY <1>0, <1>8, <2>1, <2>3 DEF Advance
<1>9. CASE EndJob
  <2>1. PICK msg \in Msg : EndsWith(msg)
    <3>1. phase # "idle" => /\ Progress(100, "none", FALSE) \in Msg
                            /\ \A note \in {"done", "error"} : Progress(percent, note, FALSE) \in Msg
      BY <1>0, ProgressType DEF Percent
    <3> QED
      BY <1>9, <3>1, MessageTypes DEF EndJob, EndsWith
  <2>2. ClientKeeps /\ UNCHANGED <<userVars, online, extras>>
    BY <2>1, SaysKeeps DEF EndsWith
  <2>3. over' \in Update
    BY <1>0, <2>1, ProgressType DEF EndsWith, Percent
  <2> QED
    BY <1>0, <2>1, <2>2, <2>3 DEF EndsWith
<1>10. CASE TakeStop
  <2>1. CASE UNCHANGED <<printerVars, clientVars>>
    BY <1>0, <1>10, <2>1, SameClient DEF TakeStop
  <2>2. CASE \E msg \in Msg : StoppedBy(msg)
    <3>1. PICK msg \in Msg : StoppedBy(msg)
      BY <2>2
    <3>2. ClientKeeps
      BY <3>1, ArrivesKeeps DEF StoppedBy, Inv
    <3>3. over' \in Update
      BY <1>0, <3>1, ProgressType DEF StoppedBy, Percent
    <3> QED
      BY <1>0, <1>10, <3>1, <3>2, <3>3 DEF StoppedBy, TakeStop
  <2> QED
    BY <1>10, <2>1, <2>2, MessageTypes DEF TakeStop
<1> QED
  BY <1>1, <1>2, <1>3, <1>4, <1>5, <1>6, <1>7, <1>8, <1>9, <1>10 DEF PrinterStep

LEMMA ClientStepOK ==
  ASSUME Inv, ClientStep
  PROVE  RestOK' /\ ClientKeeps
<1> USE DEF RestOK, userVars, printerVars
<1>0. RestOK /\ ClientOK
  BY DEF Inv
<1>1. NoRecent \in Recent
  BY DEF NoRecent, Recent
<1>2. CASE GuardExpires
  BY <1>0, <1>1, <1>2, KeptRefl DEF GuardExpires, ClientKeeps, ClientOK
<1>3. CASE Disconnect
  <2>1. extras' \in 0..MaxExtras
    BY <1>0, <1>3, JobAssumption DEF Disconnect, Extra
  <2> QED
    BY <1>0, <1>3, <2>1, SameClient DEF Disconnect
<1>4. CASE Reconnect
  BY <1>0, <1>4, ResetType, KeptRefl DEF Reconnect, ClientKeeps, ClientOK
<1> QED
  BY <1>2, <1>3, <1>4 DEF ClientStep

LEMMA UserStepOK ==
  ASSUME Inv, UserStep, ~Delete
  PROVE  RestOK' /\ ClientKeeps
<1> USE DEF RestOK, userVars, printerVars
<1>0. RestOK /\ ClientOK /\ Inv /\ mqtt \in MqttState
  BY DEF Inv, ClientOK
<1>1. NoRecent \in Recent
  BY DEF NoRecent, Recent
<1>2. Extra => extras' \in 0..MaxExtras
  BY <1>0, JobAssumption DEF Extra
<1>3. \A f \in File : Pending(f) \in MqttState
  BY <1>0 DEF Pending, MqttState, State
<1>4. CASE Upload
  BY <1>0, <1>4, SameClient DEF Upload
<1>5. CASE Uploaded
  <2>1. ASSUME NEW f \in File, BeginJob(f), upload' = f
        PROVE  RestOK'
    <3>1. job' \in Task /\ job' \in 0..MaxJobs /\ file' \in File /\ phase' = "starting" /\ percent' = 0 /\ over' = over
      BY <1>0, <2>1, BeginJobOK
    <3> QED
      BY <1>0, <1>5, <2>1, <3>1 DEF Uploaded
  <2>2. ClientKeeps
    BY <1>0, <1>5, SameClient DEF Uploaded
  <2>3. CASE UNCHANGED <<upload, printerVars>>
    BY <1>0, <1>5, <2>2, <2>3 DEF Uploaded
  <2> QED
    BY <1>5, <2>1, <2>2, <2>3 DEF Uploaded
<1>6. CASE MarkPending
  <2>1. mqtt' \in MqttState
    BY <1>0, <1>3, <1>6 DEF MarkPending
  <2> QED
    BY <1>0, <1>1, <1>6, <2>1, KeptRefl DEF MarkPending, ClientKeeps, ClientOK
<1>7. CASE Browse
  <2>1. ClientKeeps
    BY <1>0, <1>7, ArrivesKeeps, MessageTypes DEF Browse
  <2> QED
    BY <1>0, <1>2, <1>7, <2>1 DEF Browse
<1>8. CASE StoredStart
  <2>1. PICK f \in File : /\ stored' = f /\ command' = f
                          /\ mqtt' = [Pending(f) EXCEPT !.path = f]
    BY <1>8 DEF StoredStart
  <2>2. mqtt' \in MqttState
    BY <1>3, <2>1 DEF MqttState
  <2>3. ClientKeeps
    BY <1>0, <1>1, <1>8, <2>2, KeptRefl DEF StoredStart, ClientKeeps, ClientOK
  <2> QED
    BY <1>0, <1>2, <1>8, <2>1, <2>3 DEF StoredStart
<1>9. CASE StoredEnd
  <2>1. mqtt' \in MqttState
    BY <1>0, <1>9 DEF StoredEnd, MqttState, State
  <2> QED
    BY <1>0, <1>9, <2>1, KeptRefl DEF StoredEnd, ClientKeeps, ClientOK
<1>10. CASE StopDecide
  BY <1>0, <1>2, <1>10, SameClient DEF StopDecide
<1>11. CASE StopSend
  <2>1. mqtt' \in MqttState
    BY <1>0, <1>11 DEF StopSend, MqttState
  <2> QED
    BY <1>0, <1>11, <2>1, KeptRefl DEF StopSend, ClientKeeps, ClientOK
<1> QED
  BY <1>4, <1>5, <1>6, <1>7, <1>8, <1>9, <1>10, <1>11 DEF UserStep

\* A closed row is deleted: the others stay apart.
LEMMA DeleteOK ==
  ASSUME Inv, Delete
  PROVE  /\ Inv'
         /\ \A r \in history.rows : r \in history'.rows \/ r \in Deletable(history)
<1>0. RestOK /\ ClientOK
  BY DEF Inv
<1>1. PICK d \in Deletable(history) : history' = [history EXCEPT !.rows = @ \ {d}]
  BY DEF Delete
<1>2. history \in Table /\ history' \in Table /\ history'.rows = history.rows \ {d}
  BY <1>0, <1>1 DEF ClientOK, HistoryOK, Table
<1>3. HistoryOK(history')
  BY <1>0, <1>2 DEF ClientOK, HistoryOK, OneOpen, OnePerTask, Open
<1>4. RestOK'
  <2>1. extras' \in 0..MaxExtras
    BY <1>0, JobAssumption DEF RestOK, Delete, Extra
  <2> QED
    BY <1>0, <2>1 DEF RestOK, Delete, printerVars
<1> QED
  BY <1>0, <1>1, <1>2, <1>3, <1>4 DEF Inv, ClientOK, Delete

\* Every step keeps the invariant, and changes rows only as RowsOnlyClose says.
LEMMA NextInv ==
  ASSUME Inv, [Next]_vars
  PROVE  /\ Inv'
         /\ \A r \in history.rows :
              \/ r \in history'.rows
              \/ r \in Open(history) /\ \E s \in Status : With(r, s) \in history'.rows
              \/ r \in Deletable(history)
<1>1. CASE UNCHANGED vars
  <2>1. UNCHANGED <<mqtt, recent, history, job, file, phase, percent, over, online, extras, transfer,
                    upload, stored, command, stopper>>
    BY <1>1 DEF vars, printerVars, userVars, clientVars
  <2> QED
    BY <2>1 DEF Inv, RestOK, ClientOK
<1>2. CASE Delete
  BY <1>2, DeleteOK
<1>3. ASSUME RestOK', ClientKeeps
      PROVE  /\ Inv'
             /\ \A r \in history.rows :
                  \/ r \in history'.rows
                  \/ r \in Open(history) /\ \E s \in Status : With(r, s) \in history'.rows
  BY <1>3 DEF ClientKeeps, Inv, Kept
<1> QED
  BY <1>1, <1>2, <1>3, PrinterStepOK, ClientStepOK, UserStepOK DEF Next, UserStep

LEMMA Invariance == Spec => []Inv
<1>1. Inv /\ [Next]_vars => Inv'
  BY NextInv
<1> QED
  BY <1>1, InitInv, PTL DEF Spec

\* Type correctness of the printer, the users, MqttQueue and the history, for any number of jobs,
\* files, printers and extraordinary steps.
THEOREM PrintTypeCorrect == Spec => []TypeOK
  BY Invariance, InvImplies, PTL

\* record_start() and record_finish() never leave two rows of a printer open, whatever the order
\* of its notifications, of uploads and of reconnects.
THEOREM OneRowIsOpen == Spec => []OneOpenRow
  BY Invariance, InvImplies, PTL

\* record_start()'s deduplication gives a task of the printer one row.
THEOREM TaskHasOneRow == Spec => []OneRowPerTask
  BY Invariance, InvImplies, PTL

\* No notification rewrites what has ended or belongs to another printer: rows are closed once,
\* and deleted only when closed.
THEOREM NothingRewritten == Spec => RowsOnlyClose
<1>1. Inv /\ [Next]_vars =>
        [\A r \in history.rows :
           \/ r \in history'.rows
           \/ r \in Open(history) /\ \E s \in Status : With(r, s) \in history'.rows
           \/ r \in Deletable(history)]_history
  BY NextInv
<1> QED
  BY <1>1, Invariance, PTL DEF Spec, RowsOnlyClose

-----------------------------------------------------------------------------
(* The job the printer is at, and what the client makes of it. *)

\* Some print of the job's file is on record.
Recorded(h) == \E r \in Open(h) : r.file = file

\* What RecordInv, TaskInv and EndedMeansOver say of the table while the job is under way.
TableOK(h) ==
  /\ HistoryOK(h)
  /\ \A r \in h.rows : r.task <= job /\ (r.status \in {"finished", "failed"} => r.task # job)
  /\ OfTask(h, job) # {} => Recorded(h)

\* What JobInv says of the connected client during a job: of its state m, whether the guard against
\* late updates is up, the table, and the printer's phase and percentage.
Fits(m, at, h, ph, pc) ==
  /\ TableOK(h) /\ m.task <= job
  /\ m.state = "preparing" => ~at
  /\ OfTask(h, job) # {} \/ m.task = job \/ pc > 0 => m.file \in {file, NoFile}
  /\ pc > 0 => m.task \in {job, NoTask}
  /\ ph = "preparing" => m.state \notin {"printing", "paused", "failed"}
  /\ ph # "preparing" =>
       /\ ~m.prep /\ m.state \in {"idle", "preparing", "printing", "paused"}
       /\ m.state = "paused" => ph = "paused"
       /\ m.state = "idle" /\ at => m.task \in {job, NoTask} /\ m.file \in {file, NoFile}
       /\ m.state \in {"printing", "paused"} /\ ~m.deferred
            /\ m.task \in {job, NoTask} /\ m.file \in {file, NoFile} => Recorded(h)

FitsNow == Fits(mqtt, recent.at, history, phase, percent)

\* The rows that record_start() leaves.
LEMMA StartedRows ==
  ASSUME NEW h, HistoryOK(h), NEW f \in File, NEW t \in Task \cup {NoTask}
  PROVE  /\ OfTask(h, t) # {} => RecordStart(h, f, t) = h
         /\ OfTask(h, t) = {} => \E r \in Open(RecordStart(h, f, t)) : r.file = f
         /\ \A r \in RecordStart(h, f, t).rows :
              /\ \/ r.task = t /\ r.printer = Me
                 \/ \E q \in h.rows : q.task = r.task /\ q.printer = r.printer
              /\ r.status \in {"finished", "failed"} => r \in h.rows
<1>1. CASE OfTask(h, t) # {}
  BY <1>1 DEF RecordStart
<1>2. CASE OfTask(h, t) = {}
  <2> DEFINE Closed(r) == IF r \in Open(h) THEN With(r, "interrupted") ELSE r
             new == NewRow(h, f, t)
             g == [rows |-> {Closed(r) : r \in h.rows} \cup {new}, next |-> h.next + 1]
  <2>1. RecordStart(h, f, t) = g
    BY <1>2 DEF RecordStart
  <2>2. new.task = t /\ new.printer = Me /\ new.status = "started" /\ new.file = f /\ new \in Open(g)
    BY DEF NewRow, Open
  <2>3. \A r \in h.rows : /\ Closed(r).task = r.task /\ Closed(r).printer = r.printer
                          /\ Closed(r).status \in {"finished", "failed"} => Closed(r) = r
    <3> SUFFICES ASSUME NEW r \in h.rows
                 PROVE  /\ Closed(r).task = r.task /\ Closed(r).printer = r.printer
                        /\ Closed(r).status \in {"finished", "failed"} => Closed(r) = r
      OBVIOUS
    <3>1. r \in Row
      BY DEF HistoryOK, Table
    <3>2. /\ With(r, "interrupted").task = r.task /\ With(r, "interrupted").printer = r.printer
          /\ With(r, "interrupted").status = "interrupted"
      BY <3>1, WithFacts DEF Status
    <3> QED
      BY <3>2
  <2>4. \A r \in g.rows : r = new \/ \E q \in h.rows : r = Closed(q)
    OBVIOUS
  <2>5. \E r \in Open(g) : r.file = f
    BY <2>2
  <2> HIDE DEF Closed, new, g
  <2>6. \A r \in g.rows :
          /\ \/ r.task = t /\ r.printer = Me
             \/ \E q \in h.rows : q.task = r.task /\ q.printer = r.printer
          /\ r.status \in {"finished", "failed"} => r \in h.rows
    BY <2>2, <2>3, <2>4
  <2> QED
    BY <1>2, <2>1, <2>5, <2>6
<1> QED
  BY <1>1, <1>2

\* record_finish() and record_fail() bring no task up.
LEMMA EndedRows ==
  ASSUME NEW h, HistoryOK(h), NEW f, NEW t, NEW s \in Status \ {"started"}
  PROVE  \A r \in RecordEnd(h, f, t, s).rows : \E q \in h.rows : q.task = r.task
<1>1. CASE Open(h) = {}
  BY <1>1 DEF RecordEnd
<1>2. CASE Open(h) # {}
  <2> DEFINE a == FindActive(h, f, t)
             g == [h EXCEPT !.rows = (@ \ {a}) \cup {With(a, s)}]
  <2>1. RecordEnd(h, f, t, s) = g
    BY <1>2 DEF RecordEnd
  <2>2. a \in Open(h)
    BY <1>2, FindActiveIsOpen
  <2>3. h \in Table /\ a \in h.rows /\ a \in Row
    BY <2>2 DEF HistoryOK, Table, Open
  <2>4. With(a, s).task = a.task
    BY <2>3, WithFacts
  <2>5. g.rows = (h.rows \ {a}) \cup {With(a, s)}
    BY <2>3 DEF Table
  <2> HIDE DEF a, g
  <2> QED
    BY <2>1, <2>3, <2>4, <2>5
<1> QED
  BY <1>1, <1>2

\* A start that is recorded during the job: it is the job's, or the job has no row yet.
LEMMA RecordsJob ==
  ASSUME NEW h, TableOK(h), NEW f \in File, NEW t \in Task \cup {NoTask}, t <= job,
         job \in Task, OfTask(h, job) # {} \/ t = job => f = file
  PROVE  /\ TableOK(RecordStart(h, f, t))
         /\ f = file /\ t \in {job, NoTask} => Recorded(RecordStart(h, f, t))
         /\ OfTask(RecordStart(h, f, t), job) # {} => OfTask(h, job) # {} \/ t = job
<1> DEFINE g == RecordStart(h, f, t)
<1>1. HistoryOK(h) /\ HistoryOK(g)
  BY RecordStartOK DEF TableOK
<1>2. /\ OfTask(h, t) # {} => g = h
      /\ OfTask(h, t) = {} => \E r \in Open(g) : r.file = f
      /\ \A r \in g.rows :
           /\ \/ r.task = t /\ r.printer = Me
              \/ \E q \in h.rows : q.task = r.task /\ q.printer = r.printer
           /\ r.status \in {"finished", "failed"} => r \in h.rows
  BY <1>1, StartedRows
<1> HIDE DEF g
<1>3. \A r \in g.rows : r.task <= job /\ (r.status \in {"finished", "failed"} => r.task # job)
  BY <1>2 DEF TableOK
<1>4. OfTask(g, job) # {} => OfTask(h, job) # {} \/ t = job
  BY <1>2 DEF OfTask
<1>5. OfTask(g, job) # {} => Recorded(g)
  BY <1>2, <1>4 DEF Recorded, TableOK
<1>6. f = file /\ t \in {job, NoTask} => Recorded(g)
  <2>1. OfTask(h, NoTask) = {}
    BY DEF OfTask
  <2> QED
    BY <1>2, <2>1 DEF Recorded, TableOK
<1> QED
  BY <1>1, <1>3, <1>4, <1>5, <1>6 DEF g, TableOK

\* The state fields of the client after a bare state message.
LEMMA NotedIs ==
  ASSUME mqtt \in MqttState, NEW v
  PROVE  /\ Noted(v).state = mqtt.state /\ Noted(v).task = mqtt.task /\ Noted(v).file = mqtt.file
         /\ Noted(v).deferred = mqtt.deferred /\ (v # 8 => ~Noted(v).prep) /\ Noted(v) \in MqttState
  BY DEF Noted, MqttState

\* "printing": a start is recorded, if the client has a file, and held back otherwise.
LEMMA PrintingFits ==
  ASSUME ClientOK, job \in Task, file \in File, FitsNow, GotPrinting(StateIs(1))
  PROVE  Fits(mqtt', recent'.at, history', "printing", percent)
<1>1. /\ mqtt \in MqttState /\ mqtt.task \in Task \cup {NoTask} /\ mqtt.file \in File \cup {NoFile}
      /\ mqtt.state \in State /\ TableOK(history) /\ mqtt.task <= job
  BY DEF ClientOK, MqttState, FitsNow, Fits
<1>2. /\ Noted(1).state = mqtt.state /\ Noted(1).task = mqtt.task /\ Noted(1).file = mqtt.file
      /\ Noted(1).deferred = mqtt.deferred /\ ~Noted(1).prep /\ Noted(1) \in MqttState
  BY <1>1, NotedIs
<1>3. /\ mqtt' = IF mqtt.state = "paused" THEN [Noted(1) EXCEPT !.state = "printing"]
                 ELSE IF IsBare THEN Noted(1) ELSE Activated(Noted(1), NoFile)
      /\ history' = IF IsBare THEN history ELSE ActivatedHistory(mqtt, NoFile, history)
      /\ recent' = recent
  BY DEF GotPrinting
<1>4. \A f : Or(NoFile, f) = f
  BY DEF Or
<1>5. OfTask(history, job) # {} \/ mqtt.task = job => mqtt.file \in {file, NoFile}
  BY DEF FitsNow, Fits
<1>6. CASE mqtt.state \in {"printing", "paused"}
  <2>1. history' = history
    BY <1>3, <1>6 DEF IsBare, ActivatedHistory, Startable
  <2>2. /\ mqtt'.state = "printing" /\ mqtt'.task = mqtt.task /\ mqtt'.file = mqtt.file
        /\ mqtt'.deferred = mqtt.deferred /\ ~mqtt'.prep
    BY <1>2, <1>3, <1>6 DEF IsBare, Activated, Startable, MqttState
  <2> QED
    BY <1>3, <1>6, <2>1, <2>2 DEF FitsNow, Fits
<1>7. CASE IsBare
  <2>1. mqtt' = Noted(1) /\ history' = history /\ mqtt.state = "idle" /\ mqtt.task = NoTask /\ mqtt.file = NoFile
    BY <1>3, <1>7 DEF IsBare
  <2> QED
    BY <1>1, <1>2, <1>3, <2>1 DEF FitsNow, Fits
<1>8. CASE mqtt.state \notin {"printing", "paused"} /\ ~IsBare
  <2>1. mqtt.state \in Startable /\ Noted(1).state \in Startable
    BY <1>1, <1>2, <1>8 DEF Startable, State, Active
  <2>2. /\ mqtt' = [Noted(1) EXCEPT !.state = "printing", !.deferred = mqtt.file = NoFile]
        /\ history' = IF mqtt.file # NoFile THEN RecordStart(history, mqtt.file, mqtt.task) ELSE history
    BY <1>2, <1>3, <1>4, <1>8, <2>1 DEF Activated, ActivatedHistory
  <2>3. /\ mqtt'.state = "printing" /\ mqtt'.task = mqtt.task /\ mqtt'.file = mqtt.file
        /\ mqtt'.deferred = (mqtt.file = NoFile) /\ ~mqtt'.prep
    BY <1>2, <2>2 DEF MqttState
  <2>4. CASE mqtt.file = NoFile
    BY <1>1, <1>3, <2>2, <2>3, <2>4 DEF FitsNow, Fits
  <2>5. CASE mqtt.file # NoFile
    <3>1. mqtt.file \in File /\ history' = RecordStart(history, mqtt.file, mqtt.task)
      BY <1>1, <2>2, <2>5
    <3>2. OfTask(history, job) # {} \/ mqtt.task = job => mqtt.file = file
      BY <1>5, <2>5
    <3>3. /\ TableOK(history')
          /\ mqtt.file = file /\ mqtt.task \in {job, NoTask} => Recorded(history')
          /\ OfTask(history', job) # {} => OfTask(history, job) # {} \/ mqtt.task = job
      BY <1>1, <3>1, <3>2, RecordsJob
    <3> QED
      BY <1>1, <1>3, <2>3, <2>5, <3>3 DEF FitsNow, Fits
  <2> QED
    BY <2>4, <2>5
<1> QED
  BY <1>6, <1>7, <1>8

\* "paused" and "resumed".
LEMMA PausedFits ==
  ASSUME ClientOK, FitsNow, NEW v \in {2, 3}, phase # "preparing",
         GotPausedOrResumed(StateIs(v)), NEW ph \in {"printing", "paused"},
         v = 2 => ph = "paused"
  PROVE  Fits(mqtt', recent'.at, history', ph, percent)
<1>1. /\ mqtt \in MqttState /\ TableOK(history)
  BY DEF ClientOK, FitsNow, Fits
<1>2. /\ Noted(v).state = mqtt.state /\ Noted(v).task = mqtt.task /\ Noted(v).file = mqtt.file
      /\ Noted(v).deferred = mqtt.deferred /\ ~Noted(v).prep /\ Noted(v) \in MqttState
  BY <1>1, NotedIs
<1>3. PICK w \in {2, 3} :
        /\ StateIs(v) = StateIs(w)
        /\ mqtt' = [Noted(w) EXCEPT !.state =
                     IF w = 2 /\ @ = "printing" THEN "paused"
                     ELSE IF w = 3 /\ @ = "paused" THEN "printing" ELSE @]
  BY DEF GotPausedOrResumed
<1>4. w = v /\ recent' = recent /\ history' = history
  BY <1>3 DEF StateIs, GotPausedOrResumed
<1>5. /\ mqtt'.task = mqtt.task /\ mqtt'.file = mqtt.file /\ mqtt'.deferred = mqtt.deferred
      /\ ~mqtt'.prep
      /\ mqtt'.state = IF v = 2 /\ mqtt.state = "printing" THEN "paused"
                       ELSE IF v = 3 /\ mqtt.state = "paused" THEN "printing" ELSE mqtt.state
  BY <1>2, <1>3, <1>4 DEF MqttState
<1> QED
  BY <1>4, <1>5 DEF FitsNow, Fits

\* "preparing or aborted" while the job is prepared.
LEMMA PreparingFits ==
  ASSUME ClientOK, FitsNow, phase = "preparing", GotPreparing(StateIs(8))
  PROVE  Fits(mqtt', recent'.at, history', "preparing", percent)
<1>1. /\ mqtt \in MqttState /\ mqtt.state \notin {"printing", "paused", "failed"}
  BY DEF ClientOK, FitsNow, Fits
<1>2. /\ Noted(8).state = mqtt.state /\ Noted(8).task = mqtt.task /\ Noted(8).file = mqtt.file
      /\ Noted(8) \in MqttState
  BY <1>1, NotedIs
<1>3. /\ mqtt' = [Noted(8) EXCEPT !.state = IF @ = "failed" THEN "idle" ELSE @]
      /\ recent' = recent /\ history' = history
  BY <1>1 DEF GotPreparing
<1>4. mqtt'.state = mqtt.state /\ mqtt'.task = mqtt.task /\ mqtt'.file = mqtt.file
  BY <1>1, <1>2, <1>3 DEF MqttState
<1> QED
  BY <1>3, <1>4 DEF FitsNow, Fits

\* The preview of the job that is prepared.
LEMMA PreviewFits ==
  ASSUME ClientOK, FitsNow, phase = "preparing", percent = 0,
         GotPreview([t |-> "preview", file |-> file, staged |-> TRUE])
  PROVE  Fits(mqtt', recent'.at, history', "preparing", percent)
<1> DEFINE named == [mqtt EXCEPT !.file = file]
<1>1. /\ mqtt \in MqttState /\ mqtt.state \notin {"printing", "paused", "failed"}
  BY DEF ClientOK, FitsNow, Fits
<1>2. named.state = mqtt.state /\ named.task = mqtt.task /\ named.file = file
  BY <1>1 DEF MqttState
<1>3. ~Completes(named)
  BY <1>1, <1>2 DEF Completes
<1>4. /\ Completed(named).state = mqtt.state /\ Completed(named).task = mqtt.task
      /\ Completed(named).file = file
  BY <1>1, <1>2 DEF Completed, MqttState
<1>5. /\ history' = history /\ recent' = recent
      /\ \/ mqtt' = Completed(named)
         \/ mqtt' = [Completed(named) EXCEPT !.state = "pre_print", !.stop = FALSE]
  BY <1>3 DEF GotPreview, CompletedHistory
<1>6. /\ mqtt'.task = mqtt.task /\ mqtt'.file = file
      /\ mqtt'.state = mqtt.state \/ mqtt'.state = "pre_print"
  BY <1>1, <1>2, <1>3, <1>5 DEF Completed, MqttState
<1> QED
  BY <1>1, <1>5, <1>6 DEF FitsNow, Fits

\* The names the client gives itself from an update of the job: unless it keeps its state, it
\* begins anew.
LEMMA NamedFits ==
  ASSUME ClientOK, job \in Task, file \in File, FitsNow, NEW p \in {0, 1, 50},
         p = 50 => percent > 0, NEW msg \in Update, msg.task = job, msg.file = file, msg.p = p
  PROVE  LET n == Named(msg)
         IN  /\ n \in MqttState /\ n.file = file /\ n.task \in {job, NoTask}
             /\ \/ /\ n.state = mqtt.state /\ n.deferred = mqtt.deferred /\ n.prep = mqtt.prep /\ n.task = job
                   /\ n.state = "printing" => mqtt.task \in {job, NoTask} /\ mqtt.file \in {file, NoFile}
                \/ n.state = "idle" /\ ~n.prep
<1> DEFINE w == WithTask(mqtt, msg)
           n == WithFile(w, msg)
<1>1. msg.task = job /\ msg.file = file /\ msg.p = p
  OBVIOUS
<1>2. msg \in Update
  OBVIOUS
<1>3. n \in MqttState
  BY <1>2, NamedType DEF Named
<1>4. mqtt \in MqttState /\ job # NoTask /\ file # NoFile
  BY JobAssumption, HistoryAssumption DEF ClientOK
<1>5. p = 50 => mqtt.task \in {job, NoTask} /\ mqtt.file \in {file, NoFile}
  BY DEF FitsNow, Fits
<1>6. p <= 1 \/ p = 50
  OBVIOUS
<1>7. CASE mqtt.state = "printing" /\ mqtt.task \notin {job, NoTask}
  <2>1. w = [Reset EXCEPT !.task = job]
    BY <1>1, <1>5, <1>6, <1>7 DEF WithTask
  <2>2. w.file = NoFile /\ w.state = "idle" /\ w.task = job /\ ~w.prep
    BY <2>1 DEF Reset
  <2>3. n = [w EXCEPT !.file = file]
    BY <1>1, <2>2 DEF WithFile
  <2>4. n = [[Reset EXCEPT !.task = job] EXCEPT !.file = file]
    BY <2>1, <2>3
  <2>5. n.file = file /\ n.state = "idle" /\ n.task = job /\ ~n.prep
    <3> HIDE DEF n
    <3> QED
      BY <2>4 DEF Reset
  <2> QED
    BY <1>3, <2>5 DEF Named
<1>8. CASE ~(mqtt.state = "printing" /\ mqtt.task \notin {job, NoTask})
  <2>1. w = [mqtt EXCEPT !.task = job]
    BY <1>1, <1>8 DEF WithTask
  <2>2. w.file = mqtt.file /\ w.state = mqtt.state
    BY <1>4, <2>1 DEF MqttState
  <2>3. CASE mqtt.state = "printing" /\ mqtt.file \notin {file, NoFile}
    <3>1. n = [Reset EXCEPT !.file = file]
      BY <1>1, <1>5, <1>6, <2>2, <2>3 DEF WithFile
    <3>2. n.file = file /\ n.state = "idle" /\ n.task = NoTask /\ ~n.prep
      BY <3>1 DEF Reset
    <3> QED
      BY <1>3, <3>2 DEF Named
  <2>4. CASE ~(mqtt.state = "printing" /\ mqtt.file \notin {file, NoFile})
    <3>1. n = [w EXCEPT !.file = file]
      BY <1>1, <2>2, <2>4 DEF WithFile
    <3>2. /\ n.file = file /\ n.state = mqtt.state /\ n.task = job /\ n.deferred = mqtt.deferred
          /\ n.prep = mqtt.prep
      BY <1>4, <2>1, <3>1 DEF MqttState
    <3> QED
      BY <1>3, <1>8, <2>4, <3>2 DEF Named
  <2> QED
    BY <2>3, <2>4
<1> QED
  BY <1>7, <1>8

\* An update of the job: what it names is on record, at the latest when it counts percents.
LEMMA ProgressFits ==
  ASSUME ClientOK, job \in Task, file \in File, FitsNow, AtWork, percent \in Nat,
         NEW p \in {0, 1, 50}, percent <= p, p = 50 => percent > 0,
         phase = "preparing" => p = 0, phase = "paused" => percent > 0,
         NEW msg \in Update, msg.t = "progress", msg.task = job, msg.file = file, msg.p = p,
         msg.note = "none", msg.schedule => phase = "preparing", GotProgress(msg)
  PROVE  /\ Fits(mqtt', recent'.at, history', phase, p)
         /\ phase = "printing" /\ p > 0 /\ ~recent.at => Recorded(history')
<1> DEFINE n == Named(msg)
           c == Completed(n)
           s == Scheduled(c, msg)
           m == Rewound(s, msg)
           h == CompletedHistory(n, history)
           starts == 0 < msg.p /\ msg.p < 100 /\ m.state \notin Active
           a == IF starts THEN Activated(m, n.file) ELSE m
           ah == IF starts THEN ActivatedHistory(m, n.file, h) ELSE h
<1>1. /\ msg.task = job /\ msg.file = file /\ msg.p = p /\ msg.note = "none"
      /\ msg.schedule = TRUE => phase = "preparing"
  OBVIOUS
<1>2. /\ mqtt \in MqttState /\ mqtt.state \in State /\ TableOK(history)
      /\ job # NoTask /\ file # NoFile /\ job \in Nat /\ NoTask <= job
  <2>1. mqtt \in MqttState /\ mqtt.state \in State /\ TableOK(history)
    BY DEF ClientOK, FitsNow, Fits, MqttState
  <2>2. job # NoTask /\ file # NoFile /\ job \in Nat /\ NoTask <= job
    BY JobAssumption, HistoryAssumption
  <2> QED
    BY <2>1, <2>2
<1>0. GotProgress(msg)
  OBVIOUS
<1>3. CASE IsStale(msg)
  <2>1. UNCHANGED clientVars
    BY <1>1, <1>3 DEF GotProgress
  <2>2. mqtt.state = "idle" /\ recent.at
    BY <1>3 DEF IsStale
  <2>3. phase # "preparing" => mqtt.task \in {job, NoTask} /\ mqtt.file \in {file, NoFile}
    BY <2>2 DEF FitsNow, Fits
  <2>4. phase = "preparing" => p = 0 /\ percent = 0
    OBVIOUS
  <2> QED
    BY <2>1, <2>2, <2>3, <2>4 DEF FitsNow, Fits, clientVars
<1>4. CASE ~IsStale(msg)
  <2>1. /\ n \in MqttState /\ n.file = file /\ n.task \in {job, NoTask}
        /\ \/ /\ n.state = mqtt.state /\ n.deferred = mqtt.deferred /\ n.prep = mqtt.prep /\ n.task = job
              /\ n.state = "printing" => mqtt.task \in {job, NoTask} /\ mqtt.file \in {file, NoFile}
           \/ n.state = "idle" /\ ~n.prep
    BY NamedFits
  <2>2. /\ mqtt' = [a EXCEPT !.p = p] /\ history' = ah /\ recent' = recent
    BY <1>0, <1>1, <1>4 DEF GotProgress
  <2> HIDE DEF n
  <2>3. c \in MqttState /\ c.state = n.state /\ c.task = n.task /\ c.file = file /\ c.prep = n.prep
    BY <2>1 DEF Completed, MqttState
  <2>4. c.deferred <=> n.deferred /\ n.state # "printing"
    BY <1>2, <2>1 DEF Completed, Completes, MqttState
  <2>5. /\ TableOK(h)
        /\ n.state = "printing" => Recorded(h)
        /\ n.state = "paused" /\ ~n.deferred => Recorded(h)
    <3>1. CASE Completes(n)
      <4>1. h = RecordStart(history, file, n.task) /\ n.state = "printing"
        BY <2>1, <3>1 DEF CompletedHistory, Completes
      <4>2. n.task \in Task \cup {NoTask} /\ n.task <= job
        BY <1>2, <2>1
      <4>3. TableOK(h) /\ Recorded(h)
        <5> HIDE DEF h
        <5> QED
          BY <1>2, <2>1, <4>1, <4>2, RecordsJob
      <4> QED
        BY <4>1, <4>3
    <3>2. CASE ~Completes(n)
      <4>1. h = history /\ (n.state = "printing" => ~n.deferred)
        BY <1>2, <2>1, <3>2 DEF CompletedHistory, Completes
      <4>2. n.state = "printing" => Recorded(history)
        BY <2>1, <4>1 DEF FitsNow, Fits
      <4>3. n.state = "paused" /\ ~n.deferred => Recorded(history)
        BY <2>1, <4>1 DEF FitsNow, Fits
      <4> QED
        BY <1>2, <4>1, <4>2, <4>3
    <3> QED
      BY <3>1, <3>2
  <2>6. /\ s \in MqttState /\ s.task = c.task /\ s.file = file /\ s.prep = c.prep /\ s.deferred = c.deferred
        /\ s.state = c.state \/ (phase = "preparing" /\ s.state = "pre_print")
    <3>1. \/ s = c
          \/ msg.schedule /\ s = [c EXCEPT !.state = "pre_print", !.stop = FALSE]
      BY DEF Scheduled
    <3> HIDE DEF c, s
    <3>2. CASE s = c
      BY <2>3, <3>2
    <3>3. CASE msg.schedule /\ s = [c EXCEPT !.state = "pre_print", !.stop = FALSE]
      <4>1. phase = "preparing"
        BY <3>3
      <4> QED
        BY <2>3, <3>3, <4>1 DEF MqttState, State, Active
    <3> QED
      BY <3>1, <3>2, <3>3
  <2>7. \/ m = s
        \/ m = Reset
    BY DEF Rewound
  <2>8. /\ m \in MqttState /\ m.task \in {job, NoTask} /\ m.file \in {file, NoFile}
        /\ m.prep => mqtt.prep
        /\ m.state \in {mqtt.state, "idle"} \/ (phase = "preparing" /\ m.state = "pre_print")
        /\ m.state \in {"printing", "paused"} /\ ~m.deferred => Recorded(h)
        /\ m.state = "printing" => Recorded(h)
    <3>1. CASE m = s
      <4> HIDE DEF m, s, c, h
      <4> QED
        BY <2>1, <2>3, <2>4, <2>5, <2>6, <3>1
    <3>2. CASE m = Reset
      <4> HIDE DEF m, s, c, h
      <4> QED
        BY <3>2, ResetType DEF Reset
    <3> QED
      BY <2>7, <3>1, <3>2
  <2> HIDE DEF m, s, c, h
  <2>9. CASE starts
    <3>1. phase # "preparing" /\ m.state \in Startable /\ p > 0
      <4>1. phase # "preparing" /\ m.state \notin Active /\ p > 0
        BY <1>1, <2>9
      <4> QED
        BY <2>8, <4>1 DEF Startable, MqttState, State
    <3>2. Or(n.file, m.file) = file
      BY <1>2, <2>1 DEF Or
    <3>3. a = [m EXCEPT !.state = "printing", !.deferred = FALSE] /\ ah = RecordStart(h, file, m.task)
      BY <1>2, <2>9, <3>1, <3>2 DEF Activated, ActivatedHistory
    <3>4. TableOK(ah) /\ Recorded(ah)
      <4>1. m.task \in Task \cup {NoTask} /\ m.task <= job
        BY <1>2, <2>8
      <4> HIDE DEF ah
      <4> QED
        BY <1>2, <2>5, <2>8, <3>3, <4>1, RecordsJob
    <3>5. /\ mqtt'.state = "printing" /\ mqtt'.task = m.task /\ mqtt'.file = m.file /\ mqtt'.prep = m.prep
      BY <2>2, <2>8, <3>3 DEF MqttState
    <3>6. ~mqtt.prep
      BY <3>1 DEF FitsNow, Fits
    <3> QED
      BY <1>2, <2>2, <2>8, <3>1, <3>4, <3>5, <3>6, JobAssumption DEF Fits
  <2>10. CASE ~starts
    <3>1. a = m /\ ah = h
      BY <2>10
    <3>2. /\ mqtt'.state = m.state /\ mqtt'.task = m.task /\ mqtt'.file = m.file /\ mqtt'.prep = m.prep
          /\ mqtt'.deferred = m.deferred
      BY <2>2, <2>8, <3>1 DEF MqttState
    <3>3. history' = h /\ recent' = recent
      BY <2>2, <3>1
    <3>4. phase = "printing" /\ p > 0 => Recorded(h)
      <4>1. phase = "printing" /\ p > 0 => m.state \in Active
        BY <1>1, <2>10
      <4>2. phase = "printing" => mqtt.state \in {"idle", "preparing", "printing"}
        BY DEF FitsNow, Fits
      <4> QED
        BY <2>8, <4>1, <4>2 DEF Active
    <3>5. mqtt'.state = "preparing" => ~recent.at
      BY <2>8, <3>2 DEF FitsNow, Fits
    <3>6. phase = "preparing" => mqtt'.state \notin {"printing", "paused", "failed"}
      BY <2>8, <3>2 DEF FitsNow, Fits
    <3>7. phase # "preparing" =>
             /\ ~mqtt'.prep /\ mqtt'.state \in {"idle", "preparing", "printing", "paused"}
             /\ mqtt'.state = "paused" => phase = "paused"
      BY <2>8, <3>2 DEF FitsNow, Fits
    <3> QED
      BY <1>2, <2>5, <2>8, <3>2, <3>3, <3>4, <3>5, <3>6, <3>7, JobAssumption DEF Fits
  <2> QED
    BY <2>9, <2>10
<1> QED
  BY <1>3, <1>4

-----------------------------------------------------------------------------
(* Every message, whatever the printer does: the tasks it can bring up. *)

\* The tasks that client state and table name are among S, and a job that is marked as pending has
\* no guard against its updates.
Among(S, m, at, h) ==
  /\ m.task \in S /\ \A r \in h.rows : r.task \in S
  /\ m.state = "preparing" => ~at

LEMMA StartedAmong ==
  ASSUME NEW h, HistoryOK(h), NEW f \in File, NEW t \in Task \cup {NoTask}, NEW S, t \in S,
         \A r \in h.rows : r.task \in S
  PROVE  \A r \in RecordStart(h, f, t).rows : r.task \in S
  BY StartedRows

LEMMA ActivatedAmong ==
  ASSUME NEW m \in MqttState, NEW f \in File \cup {NoFile}, NEW h, HistoryOK(h), NEW S, m.task \in S,
         \A r \in h.rows : r.task \in S
  PROVE  /\ Activated(m, f).task = m.task
         /\ Activated(m, f).state \in {m.state, "printing"}
         /\ \A r \in ActivatedHistory(m, f, h).rows : r.task \in S
<1>1. m.file \in File \cup {NoFile} /\ m.task \in Task \cup {NoTask}
  BY DEF MqttState
<1>2. Or(f, m.file) # NoFile => Or(f, m.file) \in File
  BY <1>1 DEF Or
<1>3. \A r \in ActivatedHistory(m, f, h).rows : r.task \in S
  BY <1>1, <1>2, StartedAmong DEF ActivatedHistory
<1>4. Activated(m, f).task = m.task /\ Activated(m, f).state \in {m.state, "printing"}
  BY DEF Activated, MqttState
<1> QED
  BY <1>3, <1>4

LEMMA CompletedAmong ==
  ASSUME NEW m \in MqttState, NEW h, HistoryOK(h), NEW S, m.task \in S, \A r \in h.rows : r.task \in S
  PROVE  /\ Completed(m).task = m.task /\ Completed(m).state = m.state
         /\ \A r \in CompletedHistory(m, h).rows : r.task \in S
<1>1. m.file \in File \cup {NoFile} /\ m.task \in Task \cup {NoTask}
  BY DEF MqttState
<1>2. \A r \in CompletedHistory(m, h).rows : r.task \in S
  BY <1>1, StartedAmong DEF CompletedHistory, Completes
<1> QED
  BY <1>2 DEF Completed, MqttState

LEMMA EndAmong ==
  ASSUME NEW m, NEW h, HistoryOK(h), NEW S, \A r \in h.rows : r.task \in S, Finish(m, h) \/ Fail(m, h)
  PROVE  \A r \in history'.rows : r.task \in S
<1>1. history' = RecordEnd(h, m.file, m.task, "finished") \/ history' = RecordEnd(h, m.file, m.task, "failed")
  BY DEF Finish, Fail
<1>2. "finished" \in Status \ {"started"} /\ "failed" \in Status \ {"started"}
  BY DEF Status
<1> QED
  BY <1>1, <1>2, EndedRows

LEMMA ResetIs == Reset.task = NoTask /\ Reset.state = "idle" /\ Reset.file = NoFile /\ ~Reset.prep
  BY DEF Reset

LEMMA StateAmong ==
  ASSUME ClientOK, NEW S, NoTask \in S, Among(S, mqtt, recent.at, history), NEW msg \in Msg,
         GotPrinting(msg) \/ GotPausedOrResumed(msg) \/ GotIdle(msg) \/ GotPreparing(msg) \/ GotStopped(msg)
  PROVE  Among(S, mqtt', recent'.at, history')
<1>1. /\ mqtt \in MqttState /\ HistoryOK(history)
      /\ mqtt.task \in S /\ \A r \in history.rows : r.task \in S
  BY DEF ClientOK, Among
<1>2. \A v : Noted(v).state = mqtt.state /\ Noted(v).task = mqtt.task /\ Noted(v) \in MqttState
  BY <1>1, NotedIs
<1>3. ASSUME Finish(mqtt, history) \/ Fail(mqtt, history), mqtt' = Reset
      PROVE  Among(S, mqtt', recent'.at, history')
  <2>1. \A r \in history'.rows : r.task \in S
    BY <1>1, <1>3, EndAmong
  <2> QED
    BY <1>3, <2>1, ResetIs DEF Among
<1>4. CASE GotPrinting(msg)
  <2>1. /\ Activated(Noted(1), NoFile).task = mqtt.task
        /\ Activated(Noted(1), NoFile).state \in {mqtt.state, "printing"}
    BY <1>1, <1>2, ActivatedAmong
  <2>2. \A r \in ActivatedHistory(mqtt, NoFile, history).rows : r.task \in S
    BY <1>1, ActivatedAmong
  <2>3. mqtt'.task = mqtt.task /\ mqtt'.state \in {mqtt.state, "printing"}
    <3>1. LET p == [Noted(1) EXCEPT !.state = "printing"] IN p.task = mqtt.task /\ p.state = "printing"
      BY <1>2 DEF MqttState
    <3> QED
      BY <1>2, <1>4, <2>1, <3>1 DEF GotPrinting
  <2>4. \A r \in history'.rows : r.task \in S
    BY <1>1, <1>4, <2>2 DEF GotPrinting
  <2> QED
    BY <1>4, <2>3, <2>4 DEF GotPrinting, Among
<1>5. CASE GotPausedOrResumed(msg)
  <2>1. PICK v \in {2, 3} : mqtt' = [Noted(v) EXCEPT !.state =
                     IF v = 2 /\ @ = "printing" THEN "paused"
                     ELSE IF v = 3 /\ @ = "paused" THEN "printing" ELSE @]
    BY <1>5 DEF GotPausedOrResumed
  <2>2. mqtt'.task = mqtt.task /\ mqtt'.state \in {mqtt.state, "paused", "printing"}
    BY <1>2, <2>1 DEF MqttState
  <2> QED
    BY <1>5, <2>2 DEF GotPausedOrResumed, Among
<1>6. CASE GotIdle(msg)
  <2>1. CASE mqtt' = Reset /\ UNCHANGED <<recent, history>>
    BY <1>1, <2>1, ResetIs DEF Among
  <2>2. CASE mqtt' = Noted(0) /\ UNCHANGED <<recent, history>>
    BY <1>2, <2>2 DEF Among
  <2> QED
    BY <1>3, <1>6, <2>1, <2>2 DEF GotIdle
<1>7. CASE GotPreparing(msg)
  <2>1. CASE /\ mqtt' = [Noted(8) EXCEPT !.state = IF @ = "failed" THEN "idle" ELSE @]
             /\ UNCHANGED <<recent, history>>
    <3>1. mqtt'.task = mqtt.task /\ mqtt'.state \in {mqtt.state, "idle"}
      BY <1>2, <2>1 DEF MqttState
    <3> QED
      BY <2>1, <3>1 DEF Among
  <2> QED
    BY <1>3, <1>7, <2>1 DEF GotPreparing
<1>8. CASE GotStopped(msg)
  BY <1>3, <1>8 DEF GotStopped, clientVars, Among
<1> QED
  BY <1>4, <1>5, <1>6, <1>7, <1>8

LEMMA PreviewAmong ==
  ASSUME ClientOK, NEW S, NoTask \in S, Among(S, mqtt, recent.at, history), NEW msg, msg.file \in File,
         GotPreview(msg)
  PROVE  Among(S, mqtt', recent'.at, history')
<1> DEFINE named == [mqtt EXCEPT !.file = msg.file]
           m == Completed(named)
<1>1. /\ named \in MqttState /\ named.task = mqtt.task /\ named.state = mqtt.state /\ HistoryOK(history)
      /\ mqtt.task \in S /\ \A r \in history.rows : r.task \in S
  BY DEF ClientOK, MqttState, Among
<1>2. /\ m \in MqttState /\ m.task = mqtt.task /\ m.state = mqtt.state
      /\ \A r \in CompletedHistory(named, history).rows : r.task \in S
  <2> HIDE DEF named
  <2> QED
    BY <1>1, CompletedAmong, CompletedOK
<1>3. /\ history' = CompletedHistory(named, history) /\ recent' = recent
      /\ mqtt' = m \/ mqtt' = [m EXCEPT !.state = "pre_print", !.stop = FALSE]
  BY DEF GotPreview
<1> HIDE DEF m, named
<1>4. mqtt'.task = mqtt.task /\ mqtt'.state \in {mqtt.state, "pre_print"}
  BY <1>2, <1>3 DEF MqttState
<1> QED
  BY <1>1, <1>2, <1>3, <1>4 DEF Among

LEMMA NamedAmong ==
  ASSUME mqtt \in MqttState, NEW msg, NEW S, NoTask \in S, mqtt.task \in S, msg.task \in S
  PROVE  Named(msg).task \in S /\ Named(msg).state \in {mqtt.state, "idle"}
<1> DEFINE w == WithTask(mqtt, msg)
<1>1. /\ w.task \in S /\ w.state \in {mqtt.state, "idle"}
      /\ w = mqtt \/ w = [mqtt EXCEPT !.task = msg.task] \/ w = [Reset EXCEPT !.task = msg.task]
  BY DEF WithTask, MqttState, Reset
<1>2. [w EXCEPT !.file = msg.file].task = w.task /\ [w EXCEPT !.file = msg.file].state = w.state
  BY <1>1 DEF MqttState, Reset
<1>3. [Reset EXCEPT !.file = msg.file].task = NoTask /\ [Reset EXCEPT !.file = msg.file].state = "idle"
  BY DEF Reset
<1> HIDE DEF w
<1>4. /\ WithFile(w, msg).task \in S /\ WithFile(w, msg).state \in {mqtt.state, "idle"}
  BY <1>1, <1>2, <1>3 DEF WithFile
<1> QED
  BY <1>4 DEF w, Named

LEMMA ProgressAmong ==
  ASSUME ClientOK, NEW S, NoTask \in S, Among(S, mqtt, recent.at, history), NEW msg \in Update,
         msg.task \in S, GotProgress(msg)
  PROVE  Among(S, mqtt', recent'.at, history')
<1> DEFINE n == Named(msg)
           c == Completed(n)
           s == Scheduled(c, msg)
           m == Rewound(s, msg)
           h == CompletedHistory(n, history)
           starts == 0 < msg.p /\ msg.p < 100 /\ m.state \notin Active
           a == IF starts THEN Activated(m, n.file) ELSE m
           ah == IF starts THEN ActivatedHistory(m, n.file, h) ELSE h
<1>1. /\ mqtt \in MqttState /\ HistoryOK(history)
      /\ mqtt.task \in S /\ \A r \in history.rows : r.task \in S
  BY DEF ClientOK, Among
<1>2. /\ n \in MqttState /\ n.file \in File \cup {NoFile} /\ n.task \in S /\ n.state \in {mqtt.state, "idle"}
  BY <1>1, NamedType, NamedAmong DEF MqttState
<1>3. \/ UNCHANGED clientVars
      \/ Fail(m, h) /\ mqtt' = [m EXCEPT !.state = "failed"]
      \/ Finish(a, ah) /\ mqtt' = Reset
      \/ history' = ah /\ mqtt' = [a EXCEPT !.p = msg.p] /\ UNCHANGED recent
  BY DEF GotProgress
<1> HIDE DEF n
<1>4. /\ c \in MqttState /\ c.task \in S /\ c.state \in {mqtt.state, "idle"}
      /\ HistoryOK(h) /\ \A r \in h.rows : r.task \in S
  BY <1>1, <1>2, CompletedOK, CompletedAmong
<1> HIDE DEF c
<1>5. /\ s \in MqttState /\ s.task \in S /\ s.state \in {mqtt.state, "idle", "pre_print"}
  BY <1>4 DEF Scheduled, MqttState, State, Active
<1> HIDE DEF s
<1>6. /\ m \in MqttState /\ m.task \in S /\ m.state \in {mqtt.state, "idle", "pre_print"}
  <2>1. m = s \/ m = Reset
    BY DEF Rewound
  <2> QED
    BY <1>5, <2>1, ResetIs, ResetType
<1> HIDE DEF m, h
<1>7. /\ a \in MqttState /\ a.task \in S /\ a.state \in {mqtt.state, "idle", "pre_print", "printing"}
      /\ HistoryOK(ah) /\ \A r \in ah.rows : r.task \in S
  BY <1>2, <1>4, <1>6, ActivatedOK, ActivatedAmong
<1> HIDE DEF a, ah
<1>8. CASE UNCHANGED clientVars
  BY <1>8 DEF clientVars, Among
<1>9. CASE Fail(m, h) /\ mqtt' = [m EXCEPT !.state = "failed"]
  <2>1. mqtt'.task \in S /\ mqtt'.state = "failed"
    BY <1>6, <1>9 DEF MqttState
  <2>2. \A r \in history'.rows : r.task \in S
    BY <1>4, <1>9, EndAmong
  <2> QED
    BY <2>1, <2>2 DEF Among
<1>10. CASE Finish(a, ah) /\ mqtt' = Reset
  <2>1. \A r \in history'.rows : r.task \in S
    BY <1>7, <1>10, EndAmong
  <2> QED
    BY <1>10, <2>1, ResetIs DEF Among
<1>11. CASE history' = ah /\ mqtt' = [a EXCEPT !.p = msg.p] /\ UNCHANGED recent
  <2>1. mqtt'.task \in S /\ mqtt'.state \in {mqtt.state, "idle", "pre_print", "printing"}
    BY <1>7, <1>11 DEF MqttState
  <2> QED
    BY <1>7, <1>11, <2>1 DEF Among
<1> QED
  BY <1>3, <1>8, <1>9, <1>10, <1>11

LEMMA ArrivesAmong ==
  ASSUME ClientOK, NEW S, NoTask \in S, Among(S, mqtt, recent.at, history), NEW msg \in Msg,
         msg \in Update => msg.task \in S, Arrives(msg)
  PROVE  Among(S, mqtt', recent'.at, history')
<1>1. CASE UNCHANGED clientVars
  BY <1>1 DEF clientVars
<1>2. CASE GotProgress(msg)
  <2>1. msg \in Update
    BY <1>2 DEF GotProgress, Msg
  <2> QED
    BY <1>2, <2>1, ProgressAmong
<1>3. CASE GotPreview(msg)
  <2>1. msg.t = "preview"
    BY <1>3 DEF GotPreview
  <2>2. msg \notin Update
    BY <2>1 DEF Update
  <2>3. msg.file \in File
    BY <2>1, <2>2 DEF Msg
  <2> QED
    BY <1>3, <2>3, PreviewAmong
<1> QED
  BY <1>1, <1>2, <1>3, StateAmong DEF Arrives, Handle

-----------------------------------------------------------------------------
(* Every step keeps JobInv. *)

\* What of JobInv is about tasks: numbers that the printer has given, and no job's before its time.
Given == {t \in Task \cup {NoTask} : t <= job /\ (phase = "starting" => t # job)}

LEMMA TaskFacts ==
  ASSUME Inv
  PROVE  /\ job \in Nat /\ NoTask \in Nat /\ NoTask <= job
         /\ phase # "idle" => job \in Task /\ job # NoTask /\ file \in File /\ file # NoFile
         /\ mqtt.task \in Task \cup {NoTask} /\ over.task \in Task \cup {NoTask}
         /\ \A r \in history.rows : r.task \in Task \cup {NoTask}
         /\ Task \subseteq Nat /\ percent \in Nat
<1>1. /\ job \in 0..MaxJobs /\ over \in Update \cup {NoUpdate} /\ percent \in Nat
      /\ phase # "idle" => job \in Task /\ file \in File
  BY DEF Inv, RestOK
<1>2. Task = 1..MaxJobs /\ NoTask = 0 /\ MaxJobs \in Nat /\ NoFile \notin File
  BY JobAssumption, HistoryAssumption
<1>3. over.task \in Task \cup {NoTask}
  BY <1>1 DEF Update, NoUpdate
<1>4. mqtt.task \in Task \cup {NoTask} /\ \A r \in history.rows : r.task \in Task \cup {NoTask}
  BY DEF Inv, ClientOK, HistoryOK, MqttState, Table, Row
<1>5. /\ job \in Nat /\ NoTask \in Nat /\ NoTask <= job /\ Task \subseteq Nat
      /\ job \in Task => job # NoTask
  BY <1>1, <1>2
<1> QED
  BY <1>1, <1>2, <1>3, <1>4, <1>5

LEMMA GivenTasks ==
  ASSUME Inv, JobInv
  PROVE  /\ NoTask \in Given /\ Among(Given, mqtt, recent.at, history)
         /\ over.task \in Given
         /\ \A t \in Given : t <= job /\ t \in Nat /\ (phase = "starting" => t # job)
<1>1. /\ mqtt.task <= job /\ over.task <= job /\ \A r \in history.rows : r.task <= job
      /\ phase = "starting" =>
           mqtt.task # job /\ over.task # job /\ \A r \in history.rows : r.task # job
      /\ mqtt.state = "preparing" => ~recent.at
  BY DEF JobInv, TaskInv, NameInv
<1>2. NoTask \in Given
  BY TaskFacts DEF Given
<1>3. mqtt.task \in Given /\ over.task \in Given /\ \A r \in history.rows : r.task \in Given
  BY <1>1, TaskFacts DEF Given
<1>4. \A t \in Given : t <= job /\ t \in Nat /\ (phase = "starting" => t # job)
  BY TaskFacts DEF Given
<1> QED
  BY <1>1, <1>2, <1>3, <1>4 DEF Among

\* No job is under way afterwards.
LEMMA RestsJobInv ==
  ASSUME Inv', phase' \in {"idle", "starting"}, percent' = 0,
         NEW S, Among(S, mqtt', recent'.at, history'), over'.task \in S,
         \A t \in S : t <= job' /\ (phase' = "starting" => t # job'),
         upload' \in IF phase' = "idle" THEN {NoFile} ELSE {NoFile, file'}
  PROVE  JobInv'
<1>1. /\ mqtt'.task \in S /\ \A r \in history'.rows : r.task \in S
      /\ mqtt'.state = "preparing" => ~recent'.at
  BY DEF Among
<1>2. TaskInv'
  BY <1>1 DEF TaskInv
<1>3. ~AtWork' /\ phase' \notin {"printing", "paused"}
  BY DEF AtWork
<1>4. NameInv'
  BY <1>1, <1>3 DEF NameInv
<1>5. RecordInv'
  BY <1>3 DEF RecordInv
<1>6. EndedMeansOver'
  BY <1>1 DEF EndedMeansOver
<1> QED
  BY <1>2, <1>4, <1>5, <1>6 DEF JobInv

\* During a job the invariant is what Fits says, and a little about the printer.
LEMMA WorkFits ==
  ASSUME Inv, JobInv, AtWork, online
  PROVE  FitsNow
<1>1. /\ TaskInv /\ NameInv /\ RecordInv /\ EndedMeansOver /\ HistoryOK(history)
      /\ job # NoTask
  BY TaskFacts DEF JobInv, Inv, ClientOK, AtWork
<1>2. TableOK(history)
  <2>1. \A r \in history.rows : r.task <= job /\ (r.status \in {"finished", "failed"} => r.task # job)
    BY <1>1 DEF TaskInv, EndedMeansOver, AtWork
  <2>2. OfTask(history, job) # {} => Recorded(history)
    BY <1>1 DEF RecordInv, OnRecord, Recorded
  <2> QED
    BY <1>1, <2>1, <2>2 DEF TableOK
<1>3. phase # "preparing" => phase \in {"printing", "paused"}
  BY DEF AtWork
<1>4. phase # "preparing" /\ mqtt.state \in {"printing", "paused"} /\ ~mqtt.deferred
        /\ mqtt.task \in {job, NoTask} /\ mqtt.file \in {file, NoFile} => Recorded(history)
  BY <1>1, <1>3 DEF RecordInv, OnRecord, Recorded
<1> QED
  BY <1>1, <1>2, <1>4 DEF Fits, FitsNow, NameInv, TaskInv

LEMMA FitsWork ==
  ASSUME Inv, Inv', AtWork, job' = job, file' = file, AtWork', online',
         Fits(mqtt', recent'.at, history', phase', percent'),
         over'.task <= job, upload' \in {NoFile, file},
         phase' = "preparing" => percent' = 0, phase' = "paused" => percent' > 0
  PROVE  JobInv'
<1>1. /\ HistoryOK(history') /\ mqtt'.task <= job
      /\ \A r \in history'.rows : r.task <= job /\ (r.status \in {"finished", "failed"} => r.task # job)
      /\ OfTask(history', job) # {} => Recorded(history')
  BY DEF Fits, TableOK
<1>2. phase' \in {"preparing", "printing", "paused"}
  BY DEF AtWork
<1>3. TaskInv'
  BY <1>1, <1>2 DEF TaskInv
<1>4. NameInv'
  <2>1. mqtt'.state = "preparing" => ~recent'.at
    BY DEF Fits
  <2>2. mqtt'.task = job \/ OfTask(history', job) # {} \/ percent' > 0 => mqtt'.file \in {file, NoFile}
    BY DEF Fits
  <2>3. /\ percent' > 0 => mqtt'.task \in {job, NoTask}
        /\ phase' = "preparing" => mqtt'.state \notin {"printing", "paused", "failed"}
        /\ phase' # "preparing" =>
            /\ ~mqtt'.prep /\ mqtt'.state \in {"idle", "preparing", "printing", "paused"}
            /\ mqtt'.state = "paused" => phase' = "paused"
            /\ mqtt'.state = "idle" /\ recent'.at =>
                 mqtt'.task \in {job, NoTask} /\ mqtt'.file \in {file, NoFile}
    BY DEF Fits
  <2> QED
    BY <2>1, <2>2, <2>3 DEF NameInv
<1>5. RecordInv'
  <2>1. phase' # "preparing" /\ mqtt'.state \in {"printing", "paused"} /\ ~mqtt'.deferred
            /\ mqtt'.task \in {job, NoTask} /\ mqtt'.file \in {file, NoFile} => Recorded(history')
    BY DEF Fits
  <2> QED
    BY <1>1, <1>2, <2>1 DEF RecordInv, OnRecord, Recorded
<1>6. EndedMeansOver'
  BY <1>1 DEF EndedMeansOver
<1> QED
  BY <1>3, <1>4, <1>5, <1>6 DEF JobInv

\* A message that is lost: the client does not change, and it is not connected.
LEMMA LostJobInv ==
  ASSUME Inv, JobInv, AtWork, AtWork', ~online, ~online', job' = job, file' = file, UNCHANGED clientVars,
         over'.task <= job, upload' \in {NoFile, file},
         phase' = "preparing" => percent' = 0, phase' = "paused" => percent' > 0
  PROVE  JobInv'
<1>1. mqtt' = mqtt /\ recent' = recent /\ history' = history
  BY DEF clientVars
<1>2. phase' \in {"preparing", "printing", "paused"} /\ phase \in {"preparing", "printing", "paused"}
  BY DEF AtWork
<1>3. TaskInv'
  BY <1>1, <1>2 DEF JobInv, TaskInv
<1>4. NameInv'
  BY <1>1, <1>2 DEF JobInv, NameInv
<1>5. RecordInv'
  BY <1>1, <1>2 DEF JobInv, RecordInv, OnRecord
<1>6. EndedMeansOver'
  BY <1>1, <1>2 DEF JobInv, EndedMeansOver
<1> QED
  BY <1>3, <1>4, <1>5, <1>6 DEF JobInv

LEMMA InitJobInv == Init => JobInv
<1> SUFFICES ASSUME Init PROVE JobInv
  OBVIOUS
<1>1. /\ job = 0 /\ phase = "idle" /\ percent = 0 /\ over.task = NoTask /\ upload = NoFile
      /\ mqtt.task = NoTask /\ mqtt.state = "idle"
      /\ \A r \in history.rows : r.task = NoTask
  BY ResetIs DEF Init, NoUpdate
<1>2. TaskInv
  BY <1>1, JobAssumption DEF TaskInv
<1>3. NameInv /\ RecordInv /\ EndedMeansOver
  BY <1>1 DEF NameInv, RecordInv, EndedMeansOver, AtWork
<1> QED
  BY <1>2, <1>3 DEF JobInv

\* A job begins.
LEMMA BeginJobInv ==
  ASSUME Inv, Inv', JobInv, NEW f \in File, BeginJob(f), UNCHANGED clientVars, upload' \in {upload, f}
  PROVE  JobInv'
<1>1. /\ job' = job + 1 /\ file' = f /\ phase' = "starting" /\ percent' = 0 /\ over' = over
      /\ phase = "idle"
  BY DEF BeginJob
<1>2. mqtt' = mqtt /\ recent' = recent /\ history' = history
  BY DEF clientVars
<1>3. /\ Among(Given, mqtt, recent.at, history) /\ over.task \in Given
      /\ \A t \in Given : t <= job /\ t \in Nat
  BY GivenTasks
<1>4. job \in Nat
  BY TaskFacts
<1>5. \A t \in Given : t <= job' /\ t # job'
  BY <1>1, <1>3, <1>4
<1>6. upload = NoFile
  BY <1>1 DEF JobInv, TaskInv
<1> DEFINE S == Given
<1>7. Among(S, mqtt', recent'.at, history') /\ over'.task \in S
  BY <1>1, <1>2, <1>3
<1>8. \A t \in S : t <= job' /\ (phase' = "starting" => t # job')
  BY <1>5
<1> HIDE DEF S
<1> QED
  BY <1>1, <1>6, <1>7, <1>8, RestsJobInv

\* The client hears of the job while it is under way.
LEMMA WorkSays ==
  ASSUME Inv, Inv', JobInv, AtWork, AtWork', job' = job, file' = file, over' = over,
         UNCHANGED <<userVars, online, extras>>, NEW msg \in Msg, Arrives(msg),
         phase' = "preparing" => percent' = 0, phase' = "paused" => percent' > 0,
         FitsNow /\ Handle(msg) => Fits(mqtt', recent'.at, history', phase', percent')
  PROVE  JobInv'
<1>1. /\ over'.task <= job /\ upload' \in {NoFile, file}
  BY DEF JobInv, TaskInv, AtWork, userVars
<1>2. CASE online
  <2>1. FitsNow /\ Handle(msg) /\ online'
    BY <1>2, WorkFits DEF Arrives
  <2> QED
    BY <1>1, <2>1, FitsWork
<1>3. CASE ~online
  <2>1. UNCHANGED clientVars /\ ~online'
    BY <1>3 DEF Arrives
  <2> QED
    BY <1>1, <1>3, <2>1, LostJobInv
<1> QED
  BY <1>2, <1>3

\* The handlers of a message, by what it is.
LEMMA HandlesState ==
  ASSUME NEW v, Handle(StateIs(v))
  PROVE  /\ v = 1 => GotPrinting(StateIs(v))
         /\ v \in {2, 3} => GotPausedOrResumed(StateIs(v))
         /\ v = 8 => GotPreparing(StateIs(v))
<1>1. StateIs(v).t = "state" /\ StateIs(v).v = v /\ \A w : StateIs(w).v = w
  BY DEF StateIs
<1>2. GotPrinting(StateIs(v)) => v = 1
  BY <1>1 DEF GotPrinting
<1>3. GotPausedOrResumed(StateIs(v)) => v \in {2, 3}
  BY <1>1 DEF GotPausedOrResumed
<1>4. GotIdle(StateIs(v)) => v = 0
  BY <1>1 DEF GotIdle
<1>5. GotPreparing(StateIs(v)) => v = 8
  BY <1>1 DEF GotPreparing
<1>6. ~GotPreview(StateIs(v)) /\ ~GotStopped(StateIs(v)) /\ ~GotProgress(StateIs(v))
  BY <1>1 DEF GotPreview, GotStopped, GotProgress
<1> QED
  BY <1>2, <1>3, <1>4, <1>5, <1>6 DEF Handle

LEMMA HandlesProgress ==
  ASSUME NEW msg, msg.t = "progress", Handle(msg)
  PROVE  GotProgress(msg)
<1>1. \A v : StateIs(v).t = "state"
  BY DEF StateIs
<1> QED
  BY <1>1 DEF Handle, GotPreview, GotStopped, GotPrinting, GotPausedOrResumed, GotIdle, GotPreparing

LEMMA HandlesPreview ==
  ASSUME NEW msg, msg.t = "preview", Handle(msg)
  PROVE  GotPreview(msg)
<1>1. \A v : StateIs(v).t = "state"
  BY DEF StateIs
<1> QED
  BY <1>1 DEF Handle, GotProgress, GotStopped, GotPrinting, GotPausedOrResumed, GotIdle, GotPreparing

\* The printer's messages about the job it is at.
LEMMA WorkJobInv ==
  ASSUME Inv, Inv', JobInv, AtWork,
         ReportState \/ ReportPreview \/ StartPrinting \/ Pause \/ Resume
  PROVE  JobInv'
<1>1. /\ ClientOK /\ job \in Task /\ file \in File /\ phase # "idle"
      /\ phase \in {"preparing", "printing", "paused"}
  BY TaskFacts DEF Inv, AtWork
<1>2. /\ phase = "preparing" => percent = 0
      /\ phase = "paused" => percent > 0
  BY DEF JobInv, TaskInv
<1>3. CASE ReportState
  <2>1. /\ phase' = phase /\ percent' = percent /\ over' = over /\ job' = job /\ file' = file
        /\ AtWork' /\ Say(StateIs(Code))
    BY <1>3 DEF ReportState, printerVars, AtWork
  <2>2. /\ phase = "preparing" => Code = 8
        /\ phase = "printing" => Code = 1
        /\ phase = "paused" => Code = 2
    BY DEF Code
  <2>3. StateIs(Code) \in Msg
    BY <1>1, <2>2, MessageTypes
  <2>4. ASSUME FitsNow, Handle(StateIs(Code))
        PROVE  Fits(mqtt', recent'.at, history', phase', percent')
    <3>1. CASE phase = "preparing"
      <4>1. GotPreparing(StateIs(8))
        BY <2>2, <2>4, <3>1, HandlesState
      <4>2. Fits(mqtt', recent'.at, history', "preparing", percent)
        BY <1>1, <2>4, <3>1, <4>1, PreparingFits
      <4> QED
        BY <2>1, <3>1, <4>2
    <3>2. CASE phase = "printing"
      <4>1. GotPrinting(StateIs(1))
        BY <2>2, <2>4, <3>2, HandlesState
      <4>2. Fits(mqtt', recent'.at, history', "printing", percent)
        BY <1>1, <2>4, <4>1, PrintingFits
      <4> QED
        BY <2>1, <3>2, <4>2
    <3>3. CASE phase = "paused"
      <4>1. GotPausedOrResumed(StateIs(2))
        BY <2>2, <2>4, <3>3, HandlesState
      <4>2. Fits(mqtt', recent'.at, history', "paused", percent)
        BY <1>1, <2>4, <3>3, <4>1, PausedFits
      <4> QED
        BY <2>1, <3>3, <4>2
    <3> QED
      BY <1>1, <3>1, <3>2, <3>3
  <2> QED
    BY <1>2, <2>1, <2>3, <2>4, WorkSays DEF Say
<1>4. CASE ReportPreview
  <2> DEFINE msg == [t |-> "preview", file |-> file, staged |-> TRUE]
  <2>1. /\ phase' = phase /\ percent' = percent /\ over' = over /\ job' = job /\ file' = file
        /\ AtWork' /\ Say(msg) /\ phase = "preparing"
    BY <1>4 DEF ReportPreview, printerVars, AtWork
  <2>2. msg \in Msg
    BY <1>1, MessageTypes
  <2>3. ASSUME FitsNow, Handle(msg)
        PROVE  Fits(mqtt', recent'.at, history', phase', percent')
    <3>1. msg.t = "preview"
      OBVIOUS
    <3>2. GotPreview([t |-> "preview", file |-> file, staged |-> TRUE])
      BY <2>3, <3>1, HandlesPreview
    <3>3. Fits(mqtt', recent'.at, history', "preparing", percent)
      BY <1>1, <1>2, <2>1, <2>3, <3>2, PreviewFits
    <3> QED
      BY <2>1, <3>3
  <2> HIDE DEF msg
  <2> QED
    BY <1>2, <2>1, <2>2, <2>3, WorkSays DEF Say
<1>5. CASE StartPrinting
  <2>1. /\ phase' = "printing" /\ percent' = percent /\ over' = over /\ job' = job /\ file' = file
        /\ AtWork' /\ Say(StateIs(1))
    BY <1>5 DEF StartPrinting, AtWork
  <2>2. FitsNow /\ Handle(StateIs(1)) => Fits(mqtt', recent'.at, history', phase', percent')
    BY <1>1, <2>1, HandlesState, PrintingFits
  <2> QED
    BY <2>1, <2>2, WorkSays, MessageTypes DEF Say
<1>6. CASE Pause
  <2>1. /\ phase' = "paused" /\ percent' = percent /\ over' = over /\ job' = job /\ file' = file
        /\ AtWork' /\ Say(StateIs(2)) /\ phase # "preparing" /\ percent > 0
    BY <1>6 DEF Pause, AtWork
  <2>2. FitsNow /\ Handle(StateIs(2)) => Fits(mqtt', recent'.at, history', phase', percent')
    BY <1>1, <2>1, HandlesState, PausedFits
  <2> QED
    BY <2>1, <2>2, WorkSays, MessageTypes DEF Say
<1>7. CASE Resume
  <2>1. /\ phase' = "printing" /\ percent' = percent /\ over' = over /\ job' = job /\ file' = file
        /\ AtWork' /\ (Say(StateIs(1)) \/ Say(StateIs(3))) /\ phase # "preparing"
    BY <1>7 DEF Resume, AtWork
  <2>2. FitsNow /\ Handle(StateIs(1)) => Fits(mqtt', recent'.at, history', phase', percent')
    BY <1>1, <2>1, HandlesState, PrintingFits
  <2>3. FitsNow /\ Handle(StateIs(3)) => Fits(mqtt', recent'.at, history', phase', percent')
    BY <1>1, <2>1, HandlesState, PausedFits
  <2> QED
    BY <2>1, <2>2, <2>3, WorkSays, MessageTypes DEF Say
<1> QED
  BY <1>3, <1>4, <1>5, <1>6, <1>7

\* An update of the job, repeated or with a new percentage.
LEMMA UpdateJobInv ==
  ASSUME Inv, Inv', JobInv, ReportProgress \/ Advance
  PROVE  JobInv'
<1>1. PICK b \in BOOLEAN :
        /\ Say(Progress(percent', "none", b))
        /\ b => phase = "preparing"
  BY DEF ReportProgress, Advance, printerVars
<1>2. /\ job' = job /\ file' = file /\ over' = over /\ phase' = phase
      /\ phase \notin {"idle", "starting"}
      /\ percent' = percent \/ (phase = "printing" /\ percent < 50
                                  /\ percent' = IF percent = 0 THEN 1 ELSE 50)
  BY DEF ReportProgress, Advance, printerVars
<1>3. /\ ClientOK /\ RestOK /\ AtWork /\ AtWork' /\ phase # "idle"
      /\ percent \in {0, 1, 50} /\ percent' \in {0, 1, 50}
      /\ job \in Task /\ file \in File
  BY <1>2, TaskFacts DEF Inv, RestOK, AtWork
<1>4. /\ phase = "preparing" => percent = 0
      /\ phase = "paused" => percent > 0
  BY DEF JobInv, TaskInv
<1>5. /\ percent <= percent' /\ (percent' = 50 => percent > 0)
      /\ (phase = "preparing" => percent' = 0) /\ (phase = "paused" => percent' > 0)
  BY <1>2, <1>3, <1>4
<1> DEFINE msg == Progress(percent', "none", b)
<1>6. /\ msg.t = "progress" /\ msg.task = job /\ msg.file = file /\ msg.p = percent'
      /\ msg.note = "none" /\ (msg.schedule => phase = "preparing")
  BY <1>1 DEF Progress
<1>7. msg \in Update /\ msg \in Msg
  <2>1. percent' \in Percent
    BY <1>3 DEF Percent
  <2> QED
    BY <1>3, <2>1, ProgressType
<1>8. Say(msg)
  BY <1>1
<1> HIDE DEF msg
<1>9. FitsNow /\ Handle(msg) => Fits(mqtt', recent'.at, history', phase', percent')
  <2> SUFFICES ASSUME FitsNow, Handle(msg)
               PROVE  Fits(mqtt', recent'.at, history', phase', percent')
    OBVIOUS
  <2>1. GotProgress(msg)
    BY <1>6, HandlesProgress
  <2>2. percent \in Nat
    BY <1>3
  <2>3. Fits(mqtt', recent'.at, history', phase, percent')
    BY <1>3, <1>4, <1>5, <1>6, <1>7, <2>1, <2>2, ProgressFits
  <2> QED
    BY <1>2, <2>3
<1> QED
  BY <1>2, <1>3, <1>5, <1>7, <1>8, <1>9, WorkSays DEF Say

\* A message of the printer at rest, about the job before or none.
LEMMA RestSays ==
  ASSUME Inv, Inv', JobInv, phase \in {"idle", "starting"}, UNCHANGED <<printerVars, userVars>>,
         NEW msg \in Msg, msg \in Update => msg.task \in Given, Arrives(msg)
  PROVE  JobInv'
<1>1. /\ ClientOK /\ NoTask \in Given /\ Among(Given, mqtt, recent.at, history) /\ over.task \in Given
      /\ \A t \in Given : t <= job /\ (phase = "starting" => t # job)
  BY GivenTasks DEF Inv
<1> DEFINE S == Given
<1>2. Among(S, mqtt', recent'.at, history')
  BY <1>1, ArrivesAmong
<1>3. /\ over'.task \in S
      /\ \A t \in S : t <= job' /\ (phase' = "starting" => t # job')
  BY <1>1 DEF printerVars
<1>4. /\ upload' \in IF phase' = "idle" THEN {NoFile} ELSE {NoFile, file'}
      /\ percent' = 0 /\ phase' \in {"idle", "starting"}
  BY DEF JobInv, TaskInv, printerVars, userVars
<1> HIDE DEF S
<1> QED
  BY <1>2, <1>3, <1>4, RestsJobInv

\* The message that ends the job, or any with which the printer has ended it.
LEMMA EndsJobInv ==
  ASSUME Inv, Inv', JobInv, phase' = "idle", percent' = 0, upload' = NoFile, job' = job,
         over'.task = job, phase \notin {"idle", "starting"},
         NEW msg \in Msg, msg \in Update => msg.task = job, Arrives(msg)
  PROVE  JobInv'
<1>1. /\ ClientOK /\ NoTask \in Given /\ Among(Given, mqtt, recent.at, history) /\ job \in Nat
      /\ \A t \in Given : t <= job
  BY GivenTasks, TaskFacts DEF Inv
<1> DEFINE S == Given
<1>2. job \in S
  BY <1>1, TaskFacts DEF Given
<1>3. Among(S, mqtt', recent'.at, history')
  BY <1>1, <1>2, ArrivesAmong
<1>4. \A t \in S : t <= job' /\ (phase' = "starting" => t # job')
  BY <1>1
<1> HIDE DEF S
<1> QED
  BY <1>2, <1>3, <1>4, RestsJobInv

\* "preparing" opens the job: nobody has named it before.
LEMMA PrepareJobInv ==
  ASSUME Inv, Inv', JobInv, Prepare
  PROVE  JobInv'
<1>1. /\ phase = "starting" /\ phase' = "preparing" /\ over' = NoUpdate /\ Arrives(StateIs(8))
      /\ UNCHANGED <<job, file, percent>> /\ UNCHANGED <<userVars, online, extras>>
  BY DEF Prepare, Say
<1>2. /\ ClientOK /\ NoTask \in Given /\ Among(Given, mqtt, recent.at, history)
      /\ \A t \in Given : t <= job /\ t # job
      /\ job \in Nat /\ job # NoTask /\ NoTask <= job
  BY <1>1, GivenTasks, TaskFacts DEF Inv
<1>3. StateIs(8) \in Msg /\ StateIs(8) \notin Update
  BY MessageTypes DEF StateIs, Update
<1> DEFINE S == Given
<1>4. Among(S, mqtt', recent'.at, history')
  BY <1>1, <1>2, <1>3, ArrivesAmong
<1>5. \A t \in S : t <= job /\ t # job
  BY <1>2
<1> HIDE DEF S
<1>6. /\ mqtt'.task <= job /\ mqtt'.task # job
      /\ \A r \in history'.rows : r.task <= job /\ r.task # job
      /\ mqtt'.state = "preparing" => ~recent'.at
  BY <1>4, <1>5 DEF Among
<1>7. OfTask(history', job) = {}
  BY <1>6 DEF OfTask
<1>8. /\ percent' = 0 /\ job' = job /\ file' = file /\ over'.task = NoTask
      /\ upload' \in {NoFile, file}
  BY <1>1 DEF JobInv, TaskInv, NoUpdate, userVars
<1>9. online' => mqtt'.state \notin {"printing", "paused", "failed"}
  <2> SUFFICES ASSUME online'
               PROVE  mqtt'.state \notin {"printing", "paused", "failed"}
    OBVIOUS
  <2>1. GotPreparing(StateIs(8))
    BY <1>1, HandlesState DEF Arrives
  <2>2. mqtt \in MqttState /\ Noted(8).state = mqtt.state /\ Noted(8) \in MqttState
    BY <1>2, NotedIs DEF ClientOK
  <2>3. CASE mqtt.state \in {"printing", "paused"}
    BY <2>1, <2>3, ResetIs DEF GotPreparing
  <2>4. CASE mqtt.state \notin {"printing", "paused"}
    <3>1. mqtt' = [Noted(8) EXCEPT !.state = IF @ = "failed" THEN "idle" ELSE @]
      BY <2>1, <2>4 DEF GotPreparing
    <3> QED
      BY <2>2, <2>4, <3>1 DEF MqttState
  <2> QED
    BY <2>3, <2>4
<1>10. TaskInv'
  BY <1>1, <1>2, <1>6, <1>8 DEF TaskInv
<1>11. NameInv'
  BY <1>1, <1>6, <1>7, <1>8, <1>9 DEF NameInv
<1>12. RecordInv'
  BY <1>1, <1>7, <1>8 DEF RecordInv
<1>13. EndedMeansOver'
  BY <1>6, <1>8 DEF EndedMeansOver
<1> QED
  BY <1>10, <1>11, <1>12, <1>13 DEF JobInv

LEMMA PrinterJobInv ==
  ASSUME Inv, Inv', JobInv, PrinterStep
  PROVE  JobInv'
<1>0. /\ RestOK /\ phase \in {"idle", "starting", "preparing", "printing", "paused"}
      /\ percent \in {0, 1, 50}
  BY DEF Inv, RestOK
<1>1. CASE PanelStart
  <2>1. PICK f \in File : BeginJob(f)
    BY <1>1 DEF PanelStart
  <2>2. UNCHANGED clientVars /\ upload' = upload
    BY <1>1 DEF PanelStart, userVars
  <2> QED
    BY <2>1, <2>2, BeginJobInv
<1>2. CASE TakeCommand
  <2>1. command \in File /\ UNCHANGED clientVars /\ upload' = upload /\ online' = online
    BY <1>0, <1>2 DEF TakeCommand, RestOK
  <2>2. CASE BeginJob(command)
    BY <2>1, <2>2, BeginJobInv
  <2>3. CASE UNCHANGED printerVars
    BY <2>1, <2>3 DEF printerVars, clientVars, JobInv, TaskInv, NameInv, RecordInv, EndedMeansOver,
         AtWork, OnRecord
  <2> QED
    BY <1>2, <2>2, <2>3 DEF TakeCommand
<1>3. CASE ReportState
  <2>1. CASE AtWork
    BY <1>3, <2>1, WorkJobInv
  <2>2. CASE ~AtWork
    <3>1. phase \in {"idle", "starting"} /\ Code = 0
      BY <1>0, <2>2 DEF AtWork, Code
    <3>2. StateIs(0) \in Msg /\ StateIs(0) \notin Update
      BY MessageTypes DEF StateIs, Update
    <3>3. Arrives(StateIs(0)) /\ UNCHANGED <<printerVars, userVars>>
      BY <1>3, <3>1 DEF ReportState, Say
    <3> QED
      BY <3>1, <3>2, <3>3, RestSays
  <2> QED
    BY <2>1, <2>2
<1>4. CASE ReportPreview \/ StartPrinting \/ Pause \/ Resume
  <2>1. AtWork
    BY <1>4 DEF AtWork, ReportPreview, StartPrinting, Pause, Resume
  <2> QED
    BY <1>4, <2>1, WorkJobInv
<1>5. CASE ReportProgress \/ Advance
  BY <1>5, UpdateJobInv
<1>6. CASE LateReport
  <2>1. PICK p \in {50, 100} : Say([over EXCEPT !.p = p])
    BY <1>6 DEF LateReport
  <2>2. /\ over.task # NoTask /\ over \in Update \cup {NoUpdate}
        /\ phase \in {"idle", "starting"} /\ UNCHANGED printerVars
    BY <1>0, <1>6 DEF LateReport, RestOK
  <2>3. over \in Update
    BY <2>2 DEF NoUpdate
  <2>4. [over EXCEPT !.p = p] \in Msg
    BY <2>2, LateType
  <2>5. [over EXCEPT !.p = p].task = over.task
    BY <2>3 DEF Update
  <2>6. over.task \in Given
    BY GivenTasks
  <2> QED
    BY <2>1, <2>2, <2>4, <2>5, <2>6, RestSays DEF Say
<1>7. CASE Prepare
  BY <1>7, PrepareJobInv
<1>8. CASE EndJob
  <2>1. PICK msg : EndsWith(msg) /\ msg \in Msg /\ (msg \in Update => msg.task = job)
    <3>1. phase # "idle" => /\ Progress(100, "none", FALSE) \in Msg
                            /\ \A note \in {"done", "error"} : Progress(percent, note, FALSE) \in Msg
      BY <1>0, ProgressType DEF Percent
    <3>2. \A p, note : Progress(p, note, FALSE).task = job
      BY DEF Progress
    <3>3. \A v : StateIs(v) \notin Update
      BY DEF StateIs, Update
    <3> QED
      BY <1>8, <3>1, <3>2, <3>3, MessageTypes DEF EndJob, EndsWith
  <2>2. /\ phase \notin {"idle", "starting"} /\ phase' = "idle" /\ percent' = 0 /\ upload' = NoFile
        /\ Arrives(msg) /\ job' = job
    BY <2>1 DEF EndsWith, Say, userVars
  <2>3. over'.task = job
    BY <2>1 DEF EndsWith, Progress
  <2> QED
    BY <2>1, <2>2, <2>3, EndsJobInv
<1>9. CASE TakeStop
  <2>1. CASE UNCHANGED <<printerVars, clientVars>>
    <3>1. upload' = upload /\ online' = online
      BY <1>9 DEF TakeStop
    <3> QED
      BY <2>1, <3>1 DEF printerVars, clientVars, JobInv, TaskInv, NameInv, RecordInv, EndedMeansOver,
           AtWork, OnRecord
  <2>2. CASE \E msg \in Msg : StoppedBy(msg) /\ msg \notin Update
    <3>1. PICK msg \in Msg : StoppedBy(msg) /\ msg \notin Update
      BY <2>2
    <3>2. /\ phase \notin {"idle", "starting"} /\ phase' = "idle" /\ percent' = 0 /\ upload' = NoFile
          /\ Arrives(msg) /\ job' = job
      BY <1>9, <3>1 DEF StoppedBy, TakeStop
    <3>3. over'.task = job
      BY <3>1 DEF StoppedBy, Progress
    <3> QED
      BY <3>1, <3>2, <3>3, EndsJobInv
  <2>3. [t |-> "stopped"] \notin Update /\ StateIs(0) \notin Update
    BY DEF Update, StateIs
  <2> QED
    BY <1>9, <2>1, <2>2, <2>3, MessageTypes DEF TakeStop
<1> QED
  BY <1>1, <1>2, <1>3, <1>4, <1>5, <1>6, <1>7, <1>8, <1>9 DEF PrinterStep

\* Steps that change neither the printer nor what the client knows of the job.
LEMMA SameJobInv ==
  ASSUME JobInv, UNCHANGED <<job, file, phase, percent, over, upload, online, mqtt, history>>,
         recent' = recent \/ ~recent'.at
  PROVE  JobInv'
<1>1. TaskInv'
  BY DEF JobInv, TaskInv
<1>2. NameInv'
  BY DEF JobInv, NameInv, AtWork
<1>3. RecordInv' /\ EndedMeansOver'
  BY DEF JobInv, RecordInv, EndedMeansOver, AtWork, OnRecord
<1> QED
  BY <1>1, <1>2, <1>3 DEF JobInv

LEMMA ClientJobInv ==
  ASSUME Inv, Inv', JobInv, ClientStep
  PROVE  JobInv'
<1>1. CASE GuardExpires
  BY <1>1, SameJobInv DEF GuardExpires, printerVars, userVars, NoRecent
<1>2. CASE Disconnect
  <2>1. /\ UNCHANGED <<job, file, phase, percent, over, upload, mqtt, recent, history>> /\ ~online'
        /\ online
    BY <1>2 DEF Disconnect, printerVars, userVars, clientVars
  <2>2. TaskInv'
    BY <2>1 DEF JobInv, TaskInv
  <2>3. NameInv'
    BY <2>1 DEF JobInv, NameInv, AtWork
  <2>4. RecordInv' /\ EndedMeansOver'
    BY <2>1 DEF JobInv, RecordInv, EndedMeansOver, AtWork, OnRecord
  <2> QED
    BY <2>2, <2>3, <2>4 DEF JobInv
<1>3. CASE Reconnect
  <2>1. /\ UNCHANGED <<job, file, phase, percent, over, upload, recent, history>> /\ mqtt' = Reset
    BY <1>3 DEF Reconnect, printerVars, userVars
  <2>2. /\ mqtt'.task = NoTask /\ mqtt'.state = "idle" /\ mqtt'.file = NoFile /\ ~mqtt'.prep
        /\ NoTask <= job /\ (phase = "starting" => NoTask # job)
    BY <2>1, ResetIs, TaskFacts
  <2>3. TaskInv'
    BY <2>1, <2>2 DEF JobInv, TaskInv
  <2>4. NameInv'
    BY <2>1, <2>2 DEF JobInv, NameInv, AtWork
  <2>5. RecordInv' /\ EndedMeansOver'
    BY <2>1, <2>2 DEF JobInv, RecordInv, EndedMeansOver, AtWork, OnRecord
  <2> QED
    BY <2>3, <2>4, <2>5 DEF JobInv
<1> QED
  BY <1>1, <1>2, <1>3 DEF ClientStep

LEMMA UserJobInv ==
  ASSUME Inv, Inv', JobInv, UserStep
  PROVE  JobInv'
<1> USE DEF printerVars, clientVars
<1>0. /\ RestOK /\ ClientOK /\ mqtt \in MqttState /\ HistoryOK(history)
  BY DEF Inv, ClientOK
<1>1. CASE Upload \/ StopDecide
  BY <1>1, SameJobInv DEF Upload, StopDecide
<1>2. CASE Uploaded
  <2>1. ASSUME NEW f \in File, BeginJob(f), upload' = f
        PROVE  JobInv'
    BY <1>2, <2>1, BeginJobInv DEF Uploaded
  <2>2. CASE UNCHANGED <<upload, printerVars>>
    BY <1>2, <2>2, SameJobInv DEF Uploaded
  <2> QED
    BY <1>2, <2>1, <2>2 DEF Uploaded
<1>3. CASE MarkPending
  <2>1. /\ mqtt'.state = "preparing" /\ mqtt'.file = upload /\ mqtt'.task = mqtt.task /\ mqtt'.prep = mqtt.prep
    BY <1>0, <1>3 DEF MarkPending, Pending, MqttState
  <2>2. /\ UNCHANGED <<job, file, phase, percent, over, online, history>> /\ ~recent'.at
        /\ upload' = NoFile /\ upload # NoFile
    BY <1>3 DEF MarkPending, NoRecent
  <2>3. upload = file
    BY <2>2 DEF JobInv, TaskInv
  <2>4. TaskInv'
    BY <2>1, <2>2 DEF JobInv, TaskInv
  <2>5. NameInv'
    BY <2>1, <2>2, <2>3 DEF JobInv, NameInv, AtWork
  <2>6. RecordInv' /\ EndedMeansOver'
    BY <2>1, <2>2 DEF JobInv, RecordInv, EndedMeansOver, AtWork, OnRecord
  <2> QED
    BY <2>4, <2>5, <2>6 DEF JobInv
<1>4. CASE Browse
  <2>1. PICK f \in File : Arrives([t |-> "preview", file |-> f, staged |-> FALSE])
    BY <1>4 DEF Browse
  <2>2. /\ [t |-> "preview", file |-> f, staged |-> FALSE] \in Msg
        /\ [t |-> "preview", file |-> f, staged |-> FALSE] \notin Update
    BY MessageTypes DEF Update
  <2>3. phase = "idle" /\ UNCHANGED <<printerVars, userVars>>
    BY <1>4 DEF Browse
  <2> QED
    BY <2>1, <2>2, <2>3, RestSays
<1>5. CASE StoredStart
  <2>1. /\ mqtt'.state = "preparing" /\ mqtt'.task = mqtt.task
    BY <1>0, <1>5 DEF StoredStart, Pending, MqttState
  <2>2. /\ UNCHANGED <<job, file, phase, percent, over, online, upload, history>> /\ ~recent'.at
        /\ phase = "idle"
    BY <1>5 DEF StoredStart, NoRecent
  <2>3. TaskInv'
    BY <2>1, <2>2 DEF JobInv, TaskInv
  <2>4. NameInv' /\ RecordInv' /\ EndedMeansOver'
    BY <2>1, <2>2 DEF JobInv, NameInv, RecordInv, EndedMeansOver, AtWork
  <2> QED
    BY <2>3, <2>4 DEF JobInv
<1>6. CASE StoredEnd
  <2>1. /\ mqtt'.task = mqtt.task /\ mqtt'.file = mqtt.file /\ mqtt'.prep = mqtt.prep
        /\ mqtt'.deferred = mqtt.deferred
        /\ mqtt'.state = mqtt.state \/ (mqtt.state = "preparing" /\ mqtt'.state = "idle")
    BY <1>0, <1>6 DEF StoredEnd, MqttState
  <2>2. UNCHANGED <<job, file, phase, percent, over, online, upload, recent, history>>
    BY <1>6 DEF StoredEnd
  <2>3. TaskInv'
    BY <2>1, <2>2 DEF JobInv, TaskInv
  <2>4. NameInv'
    BY <2>1, <2>2 DEF JobInv, NameInv, AtWork
  <2>5. RecordInv' /\ EndedMeansOver'
    BY <2>1, <2>2 DEF JobInv, RecordInv, EndedMeansOver, AtWork, OnRecord
  <2> QED
    BY <2>3, <2>4, <2>5 DEF JobInv
<1>7. CASE StopSend
  <2>1. /\ mqtt'.task = mqtt.task /\ mqtt'.file = mqtt.file /\ mqtt'.prep = mqtt.prep
        /\ mqtt'.deferred = mqtt.deferred /\ mqtt'.state = mqtt.state
    BY <1>0, <1>7 DEF StopSend, MqttState
  <2>2. UNCHANGED <<job, file, phase, percent, over, online, upload, recent, history>>
    BY <1>7 DEF StopSend
  <2>3. TaskInv'
    BY <2>1, <2>2 DEF JobInv, TaskInv
  <2>4. NameInv'
    BY <2>1, <2>2 DEF JobInv, NameInv, AtWork
  <2>5. RecordInv' /\ EndedMeansOver'
    BY <2>1, <2>2 DEF JobInv, RecordInv, EndedMeansOver, AtWork, OnRecord
  <2> QED
    BY <2>3, <2>4, <2>5 DEF JobInv
<1>8. CASE Delete
  <2>1. PICK d \in Deletable(history) : history' = [history EXCEPT !.rows = @ \ {d}]
    BY <1>8 DEF Delete
  <2>2. history'.rows = history.rows \ {d} /\ d.status # "started"
    BY <1>0, <2>1 DEF HistoryOK, Table, Deletable
  <2>3. Open(history') = Open(history) /\ OfTask(history', job) \subseteq OfTask(history, job)
    BY <2>2 DEF Open, OfTask
  <2>4. UNCHANGED <<job, file, phase, percent, over, online, upload, recent, mqtt>>
    BY <1>8 DEF Delete
  <2>5. TaskInv'
    BY <2>2, <2>4 DEF JobInv, TaskInv
  <2>6. NameInv'
    BY <2>3, <2>4 DEF JobInv, NameInv, AtWork
  <2>7. RecordInv' /\ EndedMeansOver'
    BY <2>2, <2>3, <2>4 DEF JobInv, RecordInv, EndedMeansOver, AtWork, OnRecord
  <2> QED
    BY <2>5, <2>6, <2>7 DEF JobInv
<1> QED
  BY <1>1, <1>2, <1>3, <1>4, <1>5, <1>6, <1>7, <1>8 DEF UserStep

LEMMA NextJobInv ==
  ASSUME Inv, JobInv, [Next]_vars
  PROVE  JobInv'
<1>1. Inv'
  BY NextInv
<1>2. CASE UNCHANGED vars
  BY <1>2, SameJobInv DEF vars, printerVars, userVars, clientVars
<1> QED
  BY <1>1, <1>2, PrinterJobInv, ClientJobInv, UserJobInv DEF Next

\* What the client believes of the job, its history and the printer hold together.
THEOREM JobIsFollowed == Spec => []JobInv
<1>1. Inv /\ JobInv /\ [Next]_vars => JobInv'
  BY NextJobInv
<1> QED
  BY <1>1, InitJobInv, Invariance, PTL DEF Spec

\* A job the printer is still at is not on record as finished or failed, whatever late updates,
\* stops, lost messages and reconnects there were: _recent_completion_matches() and the names an
\* update brings up keep the client at the job that is printed.
THEOREM EndedIsOver == Spec => []EndedMeansOver
<1>1. JobInv => EndedMeansOver
  BY DEF JobInv
<1> QED
  BY <1>1, JobIsFollowed, PTL

\* An update from the middle of a print leaves the print's file on an open row, whatever came
\* or was lost before it (_transition_to_active() and _complete_deferred_print_start()).
THEOREM UpdateLeavesRecord == Spec => UpdateRecords
<1>1. ASSUME Inv, JobInv, online, ~recent.at, phase = "printing", percent = 50, ReportProgress
      PROVE  \E r \in Open(history') : r.file = file
  <2>1. PICK b \in BOOLEAN : Say(Progress(percent, "none", b)) /\ (b => phase = "preparing")
    BY <1>1 DEF ReportProgress
  <2> DEFINE msg == Progress(percent, "none", b)
  <2>2. /\ msg.t = "progress" /\ msg.task = job /\ msg.file = file /\ msg.p = 50
        /\ msg.note = "none" /\ (msg.schedule => phase = "preparing")
    BY <1>1, <2>1 DEF Progress
  <2>3. /\ ClientOK /\ RestOK /\ AtWork /\ job \in Task /\ file \in File /\ FitsNow
    BY <1>1, TaskFacts, WorkFits DEF Inv, AtWork
  <2>4. msg \in Update
    <3>1. percent \in Percent
      BY <1>1 DEF Percent
    <3> QED
      BY <1>1, <2>3, <3>1, ProgressType
  <2>5. Handle(msg)
    BY <1>1, <2>1 DEF Say, Arrives
  <2> HIDE DEF msg
  <2>6. GotProgress(msg)
    BY <2>2, <2>5, HandlesProgress
  <2>7. phase = "printing" /\ 50 > 0 /\ ~recent.at => Recorded(history')
    <3>1. /\ percent \in Nat /\ 50 \in {0, 1, 50} /\ percent <= 50 /\ (50 = 50 => percent > 0)
          /\ (phase = "preparing" => 50 = 0) /\ (phase = "paused" => percent > 0)
      BY <1>1
    <3> QED
      BY <2>2, <2>3, <2>4, <2>6, <3>1, ProgressFits
  <2> QED
    BY <1>1, <2>7 DEF Recorded
<1>2. Inv /\ JobInv /\ [Next]_vars =>
        [online /\ ~recent.at /\ phase = "printing" /\ percent = 50 /\ ReportProgress
           => \E r \in Open(history') : r.file = file]_vars
  BY <1>1
<1> QED
  BY <1>2, Invariance, JobIsFollowed, PTL DEF Spec, UpdateRecords
=============================================================================
