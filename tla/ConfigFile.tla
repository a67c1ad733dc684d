------------------------------ MODULE ConfigFile ------------------------------
(***************************************************************************)
(* The configuration file default.json, as the threads of one process read  *)
(* and save it (cli/config.py).  save() writes a temporary file and renames *)
(* it; the name holds the process id, so that all threads share it.  A file *)
(* that is opened for writing is empty until it is written, and stays the   *)
(* same file when it is renamed.                                            *)
(***************************************************************************)
CONSTANTS Thread, NoFile, Null, Torn

VARIABLES
  disk,    \* what default.json holds: nothing, null, a part, or a configuration
  temp,    \* what the temporary file holds
  handle   \* where the file is that a thread has open: none, temp, disk, or gone

file == <<disk, temp, handle>>

FileInit(config) == disk = config /\ temp = NoFile /\ handle = [t \in Thread |-> "none"]

Moved(from, to) == [u \in Thread |-> IF handle[u] = from THEN to ELSE handle[u]]

\* load(): a corrupt file is moved aside, or what has come in its place meanwhile.
MoveAside ==
  /\ disk' = NoFile /\ UNCHANGED temp
  /\ handle' = Moved("disk", "gone")

\* Mutant: the file itself is opened.
SaveOpens_InPlace(t) ==
  /\ disk' = Torn /\ temp' = Torn
  /\ handle' = [handle EXCEPT ![t] = "temp"]

\* save(): the temporary file is made, or emptied if another thread has it open.
SaveOpens(t) ==
  /\ temp' = Torn /\ UNCHANGED disk
  /\ handle' = [handle EXCEPT ![t] = "temp"]

\* Two that write the same file may leave the end of the longer text.
Over(old, new) == IF old = Torn THEN {new} ELSE {new, Torn}

SaveWrites(t, value) ==
  /\ IF handle[t] = "temp" THEN temp' \in Over(temp, value) ELSE UNCHANGED temp
  /\ IF handle[t] = "disk" THEN disk' \in Over(disk, value) ELSE UNCHANGED disk
  /\ handle' = [handle EXCEPT ![t] = "none"]

\* replace(); there is nothing to replace with if another thread was first.
CanReplace == temp # NoFile
SaveReplaces ==
  /\ disk' = temp /\ temp' = NoFile
  /\ handle' = [u \in Thread |-> CASE handle[u] = "temp" -> "disk"
                                   [] handle[u] = "disk" -> "gone"
                                   [] OTHER -> handle[u]]

\* The process ends; the next one has another temporary file.
FileCrash == temp' = NoFile /\ handle' = [t \in Thread |-> "none"]
=============================================================================
