------------------------------- MODULE History -------------------------------
(***************************************************************************)
(* PrintHistory (web/service/history.py): the table of prints, as one       *)
(* printer's MqttQueue uses it.  Every method runs under the history's lock *)
(* in one transaction, so it is an operator from table to table.  A table   *)
(* is [rows, next]: the rows and the id AUTOINCREMENT gives the next one.   *)
(* Durations, archives and previews are left out, and so are the rows of    *)
(* before there was a printer_index.                                        *)
(***************************************************************************)
EXTENDS Naturals

CONSTANTS
  Task, NoTask,      \* the printer's task ids; NULL
  File, NoFile,      \* file names; None
  Printer,           \* the printers that share the database
  Me                 \* the one this history is scoped to

ASSUME HistoryAssumption == NoTask \notin Task /\ NoFile \notin File /\ Me \in Printer

Status == {"started", "finished", "failed", "interrupted"}
Row == [id : Nat, printer : Printer, task : Task \cup {NoTask}, file : File, status : Status]
Table == [rows : SUBSET Row, next : Nat]

Open(h) == {r \in h.rows : r.status = "started" /\ r.printer = Me}
OfTask(h, t) == {r \in h.rows : t # NoTask /\ r.task = t /\ r.printer = Me}

\* ORDER BY id DESC LIMIT 1
Newest(S) == CHOOSE r \in S : \A q \in S : q.id <= r.id

With(r, status) == [r EXCEPT !.status = status]
NewRow(h, f, t) == [id |-> h.next, printer |-> Me, task |-> t, file |-> f, status |-> "started"]

\* Mutant: only an open row of the task is taken up again.
RecordStart_OpenOnly(h, f, t) ==
  IF OfTask(h, t) \cap Open(h) # {} THEN h
  ELSE [rows |-> {IF r \in Open(h) THEN With(r, "interrupted") ELSE r : r \in h.rows}
                   \cup {NewRow(h, f, t)},
        next |-> h.next + 1]

\* Mutant: an open row of the same file is left for the print to go on with.
RecordStart_SameFile(h, f, t) ==
  IF OfTask(h, t) # {} THEN h
  ELSE [rows |-> {IF r \in Open(h) /\ r.file # f THEN With(r, "interrupted") ELSE r : r \in h.rows}
                   \cup {NewRow(h, f, t)},
        next |-> h.next + 1]

\* Mutant: the open rows of every printer are taken for orphans.
RecordStart_AllPrinters(h, f, t) ==
  IF OfTask(h, t) # {} THEN h
  ELSE [rows |-> {IF r.status = "started" THEN With(r, "interrupted") ELSE r : r \in h.rows}
                   \cup {NewRow(h, f, t)},
        next |-> h.next + 1]

\* record_start(): the row of a known task is used again, open or closed; otherwise every
\* open row of this printer is an orphan, and a new row is opened.
RecordStart(h, f, t) ==
  IF OfTask(h, t) # {} THEN h
  ELSE [rows |-> {IF r \in Open(h) THEN With(r, "interrupted") ELSE r : r \in h.rows}
                   \cup {NewRow(h, f, t)},
        next |-> h.next + 1]

\* _find_active(): by task, then by file, then whatever is open.
FindActive(h, f, t) ==
  LET byTask == Open(h) \cap OfTask(h, t)
      byFile == {r \in Open(h) : r.file = f}
  IN  Newest(IF byTask # {} THEN byTask ELSE IF byFile # {} THEN byFile ELSE Open(h))

\* record_finish() and record_fail()
RecordEnd(h, f, t, status) ==
  IF Open(h) = {} THEN h
  ELSE LET active == FindActive(h, f, t)
       IN  [h EXCEPT !.rows = (@ \ {active}) \cup {With(active, status)}]

\* What _prune(), delete_entries() and clear() may delete: rows that are closed.
Deletable(h) == {r \in h.rows : r.status # "started"}
=============================================================================
