\* Two jobs of two files, and one thing out of the ordinary (a drop, a stop, a deletion, ...).
CONSTANTS
  Task = {1, 2}
  NoTask = 0
  f1 = f1
  f2 = f2
  File = {f1, f2}
  FirstFile = f1
  NoFile = NoFile
  me = me
  him = him
  Printer = {me, him}
  Me = me
  MaxJobs = 2
  MaxExtras = 1
SPECIFICATION Spec
INVARIANTS TypeOK OneOpenRow OneRowPerTask EndedMeansOver
PROPERTIES RowsOnlyClose UpdateRecords
\* The jobs are bounded.
CHECK_DEADLOCK FALSE
