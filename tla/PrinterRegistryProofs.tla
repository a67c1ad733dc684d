----------------------- MODULE PrinterRegistryProofs ------------------------
(***************************************************************************)
(* That a service which a client holds stays registered and counted while  *)
(* register_services() prunes, that the file keeps what was saved, and that *)
(* a restart selects the selected printer, unless an account was imported   *)
(* since the last switch; for any printers, accounts, threads and clients.  *)
(*                                                                         *)
(* IInv says what the variables hold, that what is about to be deleted is   *)
(* not held, and, while no two changes overlap, who has the file open and   *)
(* what it is about to write (FileInv), and whose switch is under way       *)
(* (SwitchInv).  Most steps move one thread on and leave the registry, or   *)
(* the file, alone.                                                         *)
(***************************************************************************)
EXTENDS PrinterRegistry, FiniteSetTheorems, TLAPS

\* One thread goes on, and not to a deletion.
Moves(t) ==
  /\ \E j \in Job : j.pc # "delete" /\ job' = [job EXCEPT ![t] = j]
  /\ index' \in Printer

LEMMA IdleIsJob == Idle \in Job /\ Idle.pc = "idle"
  BY RegistryAssumption DEF Idle, Job, Places, Reading, NoConfig

LEMMA EndsMoves == ASSUME JobOK, NEW t \in Thread, Ends(t) PROVE Moves(t)
  BY IdleIsJob DEF Ends, Moves, JobOK

LEMMA GoesMoves ==
  ASSUME JobOK, NEW t \in Thread, NEW j \in Job, j.pc # "delete", Goes(t, j)
  PROVE  Moves(t)
  BY DEF Goes, Moves, JobOK

\* To(), and what may be changed with it.
LEMMA ToIsJob ==
  ASSUME JobOK, NEW t \in Thread, NEW pc \in Places
  PROVE  /\ To(t, pc) \in Job /\ To(t, pc).pc = pc
         /\ \A account \in SUBSET Printer :
              LET j == [To(t, pc) EXCEPT !.account = account] IN j \in Job /\ j.pc = pc
         /\ \A todo \in SUBSET Printer :
              LET j == [To(t, pc) EXCEPT !.todo = todo] IN j \in Job /\ j.pc = pc
<1>1. job[t] \in Job
  BY DEF JobOK
<1>2. To(t, pc) \in Job /\ To(t, pc).pc = pc
  BY <1>1 DEF To, Job
<1> HIDE DEF To
<1> QED
  BY <1>2 DEF Job

LEMMA TodoMoves ==
  ASSUME JobOK, NEW t \in Thread, NEW pc \in Places \ {"delete"}, NEW todo \in SUBSET Printer,
         Goes(t, [To(t, pc) EXCEPT !.todo = todo])
  PROVE  Moves(t)
<1> DEFINE j == [To(t, pc) EXCEPT !.todo = todo]
<1>1. j \in Job /\ j.pc = pc
  BY ToIsJob
<1>2. Goes(t, j)
  OBVIOUS
<1> HIDE DEF j
<1> QED
  BY <1>1, <1>2, GoesMoves

LEMMA EditTyped ==
  ASSUME NEW j \in Job, NEW config \in Config \cup NoConfig
  PROVE  Edit(j, config) \in Config \cup NoConfig
<1>1. CASE config \in NoConfig
  BY <1>1, RegistryAssumption DEF Edit, Import, Config, NoConfig, Job
<1>2. CASE config \in Config /\ config \notin NoConfig
  <2>1. Import(j.account, config) \in Config
    BY <1>2, RegistryAssumption DEF Import, Config, Job
  <2>2. /\ [config EXCEPT !.rate = ~@] \in Config
        /\ [config EXCEPT !.active = j.arg] \in Config
        /\ [config EXCEPT !.address = j.ip] \in Config
        /\ [config EXCEPT !.address = TRUE] \in Config
    BY <1>2 DEF Config, Job
  <2> QED
    BY <1>2, <2>1, <2>2 DEF Edit
<1> QED
  BY <1>1, <1>2

LEMMA SavesMoves ==
  ASSUME JobOK, NEW t \in Thread, NEW raw \in Config \cup NoConfig, Saves(t, raw),
         job[t].pc \in Reading \cup {"aside"}
  PROVE  Moves(t)
<1> DEFINE ip == (raw \notin NoConfig /\ raw.address) \/ job[t].ip
           j == [job[t] EXCEPT !.pc = "open", !.from = job[t].pc, !.ip = ip]
           from == IF At(t, "aside") THEN [j EXCEPT !.from = job[t].from] ELSE j
           k == [from EXCEPT !.value = Edit(from, raw)]
<1>1. job[t] \in Job
  BY DEF JobOK
<1>2. ip \in BOOLEAN
  BY <1>1 DEF Config, Job
<1>3. j \in Job /\ j.pc = "open"
  BY <1>1, <1>2 DEF Job, Places
<1>4. from \in Job /\ from.pc = "open"
  <2>1. job[t].from \in Reading \cup {"idle", "aside"}
    BY <1>1 DEF Job
  <2> HIDE DEF j
  <2>2. [j EXCEPT !.from = job[t].from] \in Job /\ [j EXCEPT !.from = job[t].from].pc = "open"
    BY <1>3, <2>1 DEF Job
  <2> QED
    BY <1>3, <2>2
<1>5. Edit(from, raw) \in Config \cup NoConfig
  BY <1>4, EditTyped
<1>6. k \in Job /\ k.pc = "open"
  <2> HIDE DEF from
  <2> QED
    BY <1>4, <1>5 DEF Job
<1>7. Goes(t, k)
  BY DEF Saves
<1> HIDE DEF k
<1> QED
  BY <1>6, <1>7, GoesMoves

\* The requests of a thread that has loaded the configuration.
LEMMA LoadedMoves ==
  ASSUME JobOK, NEW t \in Thread, NEW now, NEW raw \in Config \cup NoConfig, Loaded(t, now, raw),
         job[t].pc \in Reading \cup {"aside"}
  PROVE  Moves(t)
<1> USE DEF Reading, Places
<1>1. job[t] \in Job
  BY DEF JobOK
<1>2. CASE Switches(t, raw)
  <2>1. CASE Ends(t)
    BY <2>1, EndsMoves
  <2>2. CASE ~Ends(t)
    <3>1. index' = job[t].arg /\ job' = [job EXCEPT ![t] = [job[t] EXCEPT !.pc = "load"]]
      BY <1>2, <2>2 DEF Switches
    <3>2. [job[t] EXCEPT !.pc = "load"] \in Job /\ [job[t] EXCEPT !.pc = "load"].pc = "load"
      BY <1>1 DEF Job
    <3>3. job[t].arg \in Printer
      BY <1>1 DEF Job
    <3> QED
      BY <3>1, <3>2, <3>3 DEF Moves
  <2> QED
    BY <2>1, <2>2
<1>3. CASE Reloads(t, raw) \/ Looks(t, raw)
  <2>1. \A pc \in {"register", "load"} : Goes(t, To(t, pc)) => Moves(t)
    BY ToIsJob, GoesMoves
  <2> QED
    BY <1>3, <2>1, EndsMoves DEF Reloads, Looks
<1>4. CASE Loads(t, raw)
  BY <1>4, EndsMoves, SavesMoves DEF Loads
<1>5. CASE Restores(t, raw)
  BY <1>5, EndsMoves, SavesMoves DEF Restores
<1>6. CASE Registers(t, raw)
  <2>1. CASE raw \in NoConfig
    BY <1>6, <2>1, EndsMoves DEF Registers
  <2>2. CASE raw \notin NoConfig
    <3>1. raw.printers \in SUBSET Printer
      BY <2>2 DEF Config
    <3>2. LET j == [To(t, "list") EXCEPT !.account = raw.printers] IN j \in Job /\ j.pc = "list"
      BY <3>1, ToIsJob
    <3> QED
      BY <1>6, <2>2, <3>2, GoesMoves DEF Registers
  <2> QED
    BY <2>1, <2>2
<1> QED
  BY <1>2, <1>3, <1>4, <1>5, <1>6 DEF Loaded

-----------------------------------------------------------------------------
\* What a step that leaves the registry alone keeps.
HeldInv == RegistryOK /\ HeldIsRegistered /\ DeletesUnheld

LEMMA MovesStep ==
  ASSUME JobOK, HeldInv, NEW t \in Thread, Moves(t), UNCHANGED registry
  PROVE  JobOK' /\ HeldInv'
<1>1. PICK j \in Job : j.pc # "delete" /\ job' = [job EXCEPT ![t] = j]
  BY DEF Moves
<1>2. JobOK'
  BY <1>1 DEF JobOK, Moves
<1>3. \A u \in Thread : job'[u].pc = "delete" => job'[u] = job[u]
  BY <1>1 DEF JobOK
<1>4. RegistryOK' /\ HeldIsRegistered'
  BY DEF HeldInv, RegistryOK, HeldIsRegistered, registry
<1>5. DeletesUnheld'
  BY <1>3 DEF HeldInv, DeletesUnheld, At, registry
<1> QED
  BY <1>2, <1>4, <1>5 DEF HeldInv

\* Every step of a thread, but those that use the registry.
LEMMA RequestMoves ==
  ASSUME JobOK, NEW t \in Thread,
         Setting(t) \/ Address(t) \/ Reload(t) \/ Switch(t) \/ ImportAccount(t)
  PROVE  Moves(t) /\ UNCHANGED registry
<1> USE RegistryAssumption DEF Idle, Job, Places, Reading, Requests, NoConfig
<1>1. ASSUME NEW j \in Job, j.pc # "delete", Request(t, j) PROVE Moves(t) /\ UNCHANGED registry
  BY <1>1, GoesMoves DEF Request
<1>2. CASE Setting(t)
  BY <1>1, <1>2 DEF Setting
<1>3. CASE Address(t)
  BY <1>1, <1>3 DEF Address
<1>4. CASE Reload(t)
  BY <1>1, <1>4 DEF Reload
<1>5. CASE Switch(t)
  BY <1>1, <1>5 DEF Switch
<1>6. CASE ImportAccount(t)
  BY <1>1, <1>6 DEF ImportAccount
<1> QED
  BY <1>2, <1>3, <1>4, <1>5, <1>6

LEMMA FetchMoves ==
  ASSUME JobOK, NEW t \in Thread, Fetch(t) \/ Probe(t) \/ Search(t) \/ Lock(t)
  PROVE  Moves(t) /\ UNCHANGED registry
<1> USE DEF Places, Reading
<1>1. \A pc \in {"load", "search", "look"} : Goes(t, To(t, pc)) => Moves(t)
  BY ToIsJob, GoesMoves
<1>2. CASE Fetch(t) \/ Probe(t) \/ Search(t)
  BY <1>1, <1>2, EndsMoves DEF Fetch, Probe, Search
<1>3. CASE Lock(t)
  <2>1. job' = [job EXCEPT ![t] = To(t, "look")]
    BY <1>3 DEF Lock, To
  <2>2. To(t, "look") \in Job /\ To(t, "look").pc = "look"
    BY ToIsJob
  <2> QED
    BY <1>3, <2>1, <2>2 DEF Moves, Lock, JobOK
<1> QED
  BY <1>2, <1>3

LEMMA FileMoves ==
  ASSUME FileOK, JobOK, NEW t \in Thread,
         Load(t) \/ Aside(t) \/ SaveOpen(t) \/ SaveWrite(t) \/ SaveReplace(t)
  PROVE  Moves(t) /\ UNCHANGED registry
<1> USE DEF Places, Reading
<1>1. \A pc \in {"restore", "register", "write", "replace"} : Goes(t, To(t, pc)) => Moves(t)
  BY ToIsJob, GoesMoves
<1>2. CASE Load(t)
  <2>1. CASE disk = Torn
    <3>1. LET j == [To(t, "aside") EXCEPT !.from = job[t].pc] IN j \in Job /\ j.pc = "aside"
      BY <1>2 DEF Load, To, Job, JobOK
    <3> QED
      BY <1>2, <2>1, <3>1, GoesMoves DEF Load
  <2>2. CASE disk # Torn
    BY <1>2, <2>2, LoadedMoves DEF Load, FileOK
  <2> QED
    BY <1>2, <2>1, <2>2 DEF Load
<1>3. CASE Aside(t)
  BY <1>3, LoadedMoves DEF Aside, At, NoConfig
<1>4. CASE SaveOpen(t) \/ SaveWrite(t)
  BY <1>1, <1>4 DEF SaveOpen, SaveWrite
<1>5. CASE SaveReplace(t)
  BY <1>1, <1>5, EndsMoves DEF SaveReplace, Saved
<1> QED
  BY <1>2, <1>3, <1>4, <1>5

LEMMA PruneMoves ==
  ASSUME JobOK, RegistryOK, NEW t \in Thread,
         List(t) \/ Prune(t) \/ Pruned(t) \/ Make(t) \/ Registered(t)
  PROVE  Moves(t) /\ UNCHANGED registry
<1> USE DEF Places
<1>1. job[t] \in Job
  BY DEF JobOK
<1>2. CASE List(t)
  <2>1. svcs \ job[t].account \in SUBSET Printer
    BY DEF RegistryOK
  <2> QED
    BY <1>2, <2>1, TodoMoves DEF List
<1>3. ASSUME NEW pc \in {"prune", "stop", "add", "made"}, NEW p \in job[t].todo,
             Goes(t, [job[t] EXCEPT !.pc = pc, !.todo = @ \ {p}, !.arg = p])
      PROVE  Moves(t)
  <2> DEFINE j == [job[t] EXCEPT !.pc = pc, !.todo = @ \ {p}, !.arg = p]
  <2>1. j \in Job /\ j.pc = pc
    BY <1>1 DEF Job
  <2>2. Goes(t, j)
    BY <1>3
  <2> HIDE DEF j
  <2> QED
    BY <2>1, <2>2, GoesMoves
<1>4. CASE Prune(t)
  BY <1>3, <1>4 DEF Prune
<1>5. CASE Pruned(t)
  <2>1. job[t].account \in SUBSET Printer
    BY <1>1 DEF Job
  <2> QED
    BY <1>5, <2>1, TodoMoves DEF Pruned
<1>6. CASE Make(t)
  BY <1>3, <1>6 DEF Make
<1>7. CASE Registered(t)
  BY <1>7, EndsMoves DEF Registered
<1> QED
  BY <1>2, <1>4, <1>5, <1>6, <1>7

-----------------------------------------------------------------------------
\* The steps that use the registry.

\* unregister() goes on to delete a service that nobody holds.
LEMMA UnregisterStep ==
  ASSUME JobOK, HeldInv, NEW t \in Thread, Unregister(t)
  PROVE  JobOK' /\ HeldInv'
<1>1. CASE Ends(t)
  BY <1>1, EndsMoves, MovesStep DEF Unregister
<1>2. CASE ~Ends(t)
  <2>1. job[t].arg \in svcs /\ refs[job[t].arg] = 0
    BY <1>2 DEF Unregister, HeldInv, RegistryOK
  <2>2. Goes(t, To(t, "delete"))
    BY <1>2 DEF Unregister
  <2>3. To(t, "delete") \in Job /\ To(t, "delete").arg = job[t].arg
    <3>1. To(t, "delete") \in Job
      BY ToIsJob DEF Places
    <3>2. job[t] \in Job
      BY DEF JobOK
    <3> QED
      BY <3>1, <3>2 DEF To, Job
  <2>4. job' = [job EXCEPT ![t] = To(t, "delete")] /\ index' = index
    BY <2>2 DEF Goes
  <2>5. UNCHANGED registry
    BY DEF Unregister
  <2>6. DeletesUnheld'
    BY <2>1, <2>3, <2>4, <2>5 DEF HeldInv, DeletesUnheld, At, registry, JobOK
  <2> QED
    BY <2>3, <2>4, <2>5, <2>6 DEF HeldInv, JobOK, RegistryOK, HeldIsRegistered, registry
<1> QED
  BY <1>1, <1>2

LEMMA DeleteStep ==
  ASSUME JobOK, HeldInv, NEW t \in Thread, Delete(t)
  PROVE  JobOK' /\ HeldInv'
<1>1. Moves(t)
  <2>1. Goes(t, To(t, "prune")) => Moves(t)
    BY ToIsJob, GoesMoves DEF Places
  <2> QED
    BY <2>1, EndsMoves DEF Delete
<1>2. CASE job[t].arg \notin svcs
  BY <1>1, <1>2, MovesStep DEF Delete, registry
<1>3. CASE job[t].arg \in svcs
  <2> DEFINE p == job[t].arg
  <2>1. /\ svcs' = svcs \ {p} /\ refs' = [refs EXCEPT ![p] = 0] /\ UNCHANGED <<holds, late>>
        /\ At(t, "delete")
    BY <1>3 DEF Delete
  <2>2. PICK j \in Job : j.pc # "delete" /\ job' = [job EXCEPT ![t] = j]
    BY <1>1 DEF Moves
  <2>3. JobOK'
    BY <1>1, <2>2 DEF JobOK, Moves
  <2>4. p \in Printer
    BY <1>3 DEF HeldInv, RegistryOK
  <2>5. RegistryOK'
    BY <2>1, <2>4 DEF HeldInv, RegistryOK
  <2>6. p \notin late => refs[p] = 0
    BY <2>1 DEF HeldInv, DeletesUnheld
  <2>7. HeldIsRegistered'
    BY <2>1, <2>4, <2>6 DEF HeldInv, HeldIsRegistered, RegistryOK
  <2>8. DeletesUnheld'
    <3>1. \A u \in Thread : job'[u].pc = "delete" => job'[u] = job[u]
      BY <2>2 DEF JobOK
    <3>2. \A u \in Thread : job[u].arg \in Printer
      BY DEF JobOK, Job
    <3> QED
      BY <2>1, <3>1, <3>2 DEF HeldInv, DeletesUnheld, RegistryOK, At
  <2> QED
    BY <2>3, <2>5, <2>7, <2>8 DEF HeldInv
<1> QED
  BY <1>2, <1>3

LEMMA RegisterStep ==
  ASSUME JobOK, HeldInv, NEW t \in Thread, Register(t)
  PROVE  JobOK' /\ HeldInv'
<1>1. CASE job[t].arg \in svcs
  BY <1>1, EndsMoves, MovesStep DEF Register, registry
<1>2. CASE job[t].arg \notin svcs
  <2>1. Moves(t)
    BY <1>2, ToIsJob, GoesMoves DEF Register, Places
  <2>2. PICK j \in Job : j.pc # "delete" /\ job' = [job EXCEPT ![t] = j]
    BY <2>1 DEF Moves
  <2>3. svcs' = svcs \cup {job[t].arg} /\ UNCHANGED <<refs, holds, late>>
    BY <1>2 DEF Register
  <2>4. job[t].arg \in Printer
    BY DEF JobOK, Job
  <2>5. RegistryOK' /\ HeldIsRegistered'
    BY <2>3, <2>4 DEF HeldInv, RegistryOK, HeldIsRegistered
  <2>6. DeletesUnheld'
    BY <2>2, <2>3 DEF HeldInv, DeletesUnheld, At, JobOK
  <2> QED
    BY <2>1, <2>2, <2>5, <2>6 DEF HeldInv, JobOK, Moves
<1> QED
  BY <1>1, <1>2

-----------------------------------------------------------------------------
\* Clients, and the process.

Holders(p) == {c \in Client : holds[c] = p}

LEMMA BorrowStep ==
  ASSUME JobOK, HeldInv, NEW c \in Client, Borrow(c)
  PROVE  JobOK' /\ HeldInv'
<1>1. JobOK' /\ UNCHANGED <<job, svcs>> /\ holds[c] = NoPrinter
  BY DEF Borrow, JobOK
<1>2. PICK p \in svcs :
        /\ holds' = [holds EXCEPT ![c] = p] /\ refs' = [refs EXCEPT ![p] = @ + 1]
        /\ late' = IF \E t \in Thread : At(t, "delete") /\ job[t].arg = p THEN late \cup {p} ELSE late
  BY DEF Borrow
<1>3. p \in Printer /\ late \subseteq late' /\ RegistryOK'
  BY <1>1, <1>2 DEF HeldInv, RegistryOK
<1>4. \A q \in Printer : refs'[q] = (IF q = p THEN refs[q] + 1 ELSE refs[q])
  BY <1>2, <1>3 DEF HeldInv, RegistryOK
<1>5. \A q \in Printer : q # p => Holders(q)' = Holders(q)
  BY <1>1, <1>2, <1>3, RegistryAssumption DEF Holders, HeldInv, RegistryOK
<1>6. Holders(p)' = Holders(p) \cup {c} /\ c \notin Holders(p)
  BY <1>1, <1>2, <1>3, RegistryAssumption DEF Holders, HeldInv, RegistryOK
<1>7. Cardinality(Holders(p)') = Cardinality(Holders(p)) + 1
  <2>1. IsFiniteSet(Holders(p))
    BY FS_Subset, RegistryAssumption DEF Holders
  <2> QED
    BY <1>6, <2>1, FS_AddElement
<1>8. HeldIsRegistered'
  <2> SUFFICES ASSUME NEW q \in Printer, q \notin late'
               PROVE  refs'[q] = Cardinality(Holders(q)') /\ (refs'[q] > 0 => q \in svcs)
    BY <1>1 DEF HeldIsRegistered, Holders
  <2>1. refs[q] = Cardinality(Holders(q)) /\ (refs[q] > 0 => q \in svcs)
    BY <1>3 DEF HeldInv, HeldIsRegistered, Holders
  <2>2. CASE q = p
    BY <1>2, <1>4, <1>7, <2>1, <2>2
  <2>3. CASE q # p
    BY <1>4, <1>5, <2>1, <2>3
  <2> QED
    BY <2>2, <2>3
<1>9. DeletesUnheld'
  <2> SUFFICES ASSUME NEW t \in Thread, At(t, "delete"), job[t].arg \notin late'
               PROVE  refs'[job[t].arg] = 0
    BY <1>1 DEF DeletesUnheld, At
  <2>1. job[t].arg # p
    BY <1>2
  <2>2. job[t].arg \in Printer
    BY DEF JobOK, Job
  <2>3. refs[job[t].arg] = 0
    BY <1>3 DEF HeldInv, DeletesUnheld
  <2> QED
    BY <1>4, <2>1, <2>2, <2>3
<1> QED
  BY <1>1, <1>3, <1>8, <1>9 DEF HeldInv

LEMMA ReturnStep ==
  ASSUME JobOK, HeldInv, NEW c \in Client, Return(c)
  PROVE  JobOK' /\ HeldInv'
<1>1. JobOK' /\ UNCHANGED <<job, svcs, late>> /\ holds' = [holds EXCEPT ![c] = NoPrinter]
  BY DEF Return, JobOK
<1>2. PICK p \in Printer : p = holds[c]
  BY DEF Return, HeldInv, RegistryOK
<1>3. refs' = IF p \in svcs /\ refs[p] > 0 THEN [refs EXCEPT ![p] = @ - 1] ELSE refs
  BY <1>2 DEF Return
<1>4. RegistryOK'
  BY <1>1, <1>2, <1>3 DEF HeldInv, RegistryOK
<1>5. \A q \in Printer : q # p => refs'[q] = refs[q] /\ Holders(q)' = Holders(q)
  BY <1>1, <1>2, <1>3, RegistryAssumption DEF Holders, HeldInv, RegistryOK
<1>6. Holders(p)' = Holders(p) \ {c} /\ c \in Holders(p) /\ IsFiniteSet(Holders(p))
  <2>1. IsFiniteSet(Holders(p))
    BY FS_Subset, RegistryAssumption DEF Holders
  <2> QED
    BY <1>1, <1>2, <2>1, RegistryAssumption DEF Holders, HeldInv, RegistryOK
<1>7. p \notin late => refs[p] > 0 /\ refs'[p] = Cardinality(Holders(p)') /\ p \in svcs
  <2> SUFFICES ASSUME p \notin late PROVE refs[p] > 0 /\ refs'[p] = Cardinality(Holders(p)') /\ p \in svcs
    OBVIOUS
  <2>1. refs[p] = Cardinality(Holders(p)) /\ (refs[p] > 0 => p \in svcs) /\ refs[p] \in Nat
    BY <1>2 DEF HeldInv, HeldIsRegistered, Holders, RegistryOK
  <2>2. Cardinality(Holders(p)) # 0 /\ Cardinality(Holders(p)') = Cardinality(Holders(p)) - 1
    BY <1>6, FS_EmptySet, FS_RemoveElement
  <2>3. refs[p] > 0
    BY <2>1, <2>2
  <2>4. refs'[p] = refs[p] - 1
    BY <1>2, <1>3, <2>1, <2>3 DEF HeldInv, RegistryOK
  <2> QED
    BY <2>1, <2>2, <2>3, <2>4
<1>8. HeldIsRegistered'
  <2> SUFFICES ASSUME NEW q \in Printer, q \notin late
               PROVE  refs'[q] = Cardinality(Holders(q)') /\ (refs'[q] > 0 => q \in svcs)
    BY <1>1 DEF HeldIsRegistered, Holders
  <2>1. CASE q = p
    BY <1>7, <2>1
  <2>2. CASE q # p
    BY <1>5, <2>2 DEF HeldInv, HeldIsRegistered, Holders
  <2> QED
    BY <2>1, <2>2
<1>9. DeletesUnheld'
  <2> SUFFICES ASSUME NEW t \in Thread, At(t, "delete"), job[t].arg \notin late
               PROVE  refs'[job[t].arg] = 0
    BY <1>1 DEF DeletesUnheld, At
  <2>1. job[t].arg \in Printer
    BY DEF JobOK, Job
  <2>2. refs[job[t].arg] = 0
    BY DEF HeldInv, DeletesUnheld
  <2>3. job[t].arg # p
    BY <1>7, <2>2
  <2> QED
    BY <1>5, <2>1, <2>2, <2>3
<1> QED
  BY <1>1, <1>4, <1>8, <1>9 DEF HeldInv

\* A new process has no clients yet.
LEMMA FreshHeld ==
  ASSUME RegistryOK', refs' = [p \in Printer |-> 0], holds' = [c \in Client |-> NoPrinter],
         job' = [t \in Thread |-> Idle]
  PROVE  HeldInv'
<1>1. HeldIsRegistered'
  <2> SUFFICES ASSUME NEW p \in Printer PROVE refs'[p] = Cardinality({c \in Client : holds'[c] = p}) /\ ~(refs'[p] > 0)
    BY DEF HeldIsRegistered
  <2>1. {c \in Client : holds'[c] = p} = {}
    BY RegistryAssumption
  <2> QED
    BY <2>1, FS_EmptySet
<1>2. DeletesUnheld'
  BY IdleIsJob DEF DeletesUnheld, At
<1> QED
  BY <1>1, <1>2 DEF HeldInv

LEMMA SupportedTyped == ASSUME NEW config \in Config \cup NoConfig PROVE Supported(config) \subseteq Printer
  BY DEF Supported, Config

LEMMA CrashStep == ASSUME FileOK, Crash PROVE JobOK' /\ HeldInv'
<1>1. disk' \in Config \cup NoConfig
  BY DEF Crash, FileOK, NoConfig
<1>2. RestartIndex(disk') \in Printer
  BY <1>1, RegistryAssumption DEF RestartIndex, Config
<1>3. JobOK'
  BY <1>2, IdleIsJob DEF Crash, JobOK
<1>4. RegistryOK'
  BY <1>1, SupportedTyped DEF Crash, RegistryOK
<1> QED
  BY <1>3, <1>4, FreshHeld DEF Crash

LEMMA HeldStep == FileOK /\ JobOK /\ HeldInv /\ [Next]_vars => JobOK' /\ HeldInv'
<1> SUFFICES ASSUME FileOK, JobOK, HeldInv, [Next]_vars PROVE JobOK' /\ HeldInv'
  OBVIOUS
<1>1. ASSUME NEW t \in Thread, Moves(t), UNCHANGED registry PROVE JobOK' /\ HeldInv'
  BY <1>1, MovesStep
<1>2. ASSUME NEW t \in Thread,
             Setting(t) \/ Address(t) \/ Reload(t) \/ Switch(t) \/ ImportAccount(t)
      PROVE  JobOK' /\ HeldInv'
  BY <1>1, <1>2, RequestMoves
<1>3. ASSUME NEW t \in Thread, Fetch(t) \/ Probe(t) \/ Search(t) \/ Lock(t) PROVE JobOK' /\ HeldInv'
  BY <1>1, <1>3, FetchMoves
<1>4. ASSUME NEW t \in Thread,
             Load(t) \/ Aside(t) \/ SaveOpen(t) \/ SaveWrite(t) \/ SaveReplace(t)
      PROVE  JobOK' /\ HeldInv'
  BY <1>1, <1>4, FileMoves
<1>5. ASSUME NEW t \in Thread, List(t) \/ Prune(t) \/ Pruned(t) \/ Make(t) \/ Registered(t)
      PROVE  JobOK' /\ HeldInv'
  BY <1>1, <1>5, PruneMoves DEF HeldInv
<1>6. ASSUME NEW t \in Thread, Unregister(t) \/ Delete(t) \/ Register(t) PROVE JobOK' /\ HeldInv'
  BY <1>6, UnregisterStep, DeleteStep, RegisterStep
<1>7. ASSUME NEW c \in Client, Borrow(c) \/ Return(c) PROVE JobOK' /\ HeldInv'
  BY <1>7, BorrowStep, ReturnStep
<1>8. CASE Crash
  BY <1>8, CrashStep
<1>9. CASE UNCHANGED vars
  BY <1>9 DEF vars, registry, JobOK, HeldInv, RegistryOK, HeldIsRegistered, DeletesUnheld, At
<1> QED
  BY <1>2, <1>3, <1>4, <1>5, <1>6, <1>7, <1>8, <1>9 DEF Next

-----------------------------------------------------------------------------
\* The configuration file.

LEMMA FileStep == FileOK /\ JobOK /\ [Next]_vars => FileOK'
<1> SUFFICES ASSUME FileOK, JobOK, [Next]_vars PROVE FileOK'
  OBVIOUS
<1> USE DEF FileOK, file
<1>1. ASSUME UNCHANGED <<file, meant, imported>> PROVE FileOK'
  BY <1>1
<1>2. ASSUME NEW t \in Thread,
             Setting(t) \/ Address(t) \/ Reload(t) \/ Switch(t) \/ ImportAccount(t)
      PROVE  FileOK'
  BY <1>1, <1>2 DEF Setting, Address, Reload, Switch, ImportAccount, Request
<1>3. ASSUME NEW t \in Thread, Fetch(t) \/ Probe(t) \/ Search(t) \/ Lock(t) PROVE FileOK'
  BY <1>1, <1>3 DEF Fetch, Probe, Search, Lock, Quiet
<1>4. ASSUME NEW t \in Thread, List(t) \/ Prune(t) \/ Pruned(t) \/ Make(t) \/ Registered(t)
      PROVE  FileOK'
  BY <1>1, <1>4 DEF List, Prune, Pruned, Make, Registered, Quiet
<1>5. ASSUME NEW t \in Thread, Unregister(t) \/ Delete(t) \/ Register(t) PROVE FileOK'
  BY <1>1, <1>5 DEF Unregister, Delete, Register, Quiet
<1>6. ASSUME NEW c \in Client, Borrow(c) \/ Return(c) PROVE FileOK'
  BY <1>1, <1>6 DEF Borrow, Return, Quiet
<1>7. ASSUME NEW t \in Thread, Load(t) PROVE FileOK'
  BY <1>1, <1>7 DEF Load
<1>8. ASSUME NEW t \in Thread, Aside(t) PROVE FileOK'
  BY <1>8 DEF Aside, MoveAside, Moved, NoConfig
<1>9. ASSUME NEW t \in Thread, SaveOpen(t) PROVE FileOK'
  BY <1>9 DEF SaveOpen, SaveOpens
<1>10. ASSUME NEW t \in Thread, SaveWrite(t) PROVE FileOK'
  <2>1. job[t].value \in Config \cup NoConfig
    BY DEF JobOK, Job
  <2> QED
    BY <1>10, <2>1 DEF SaveWrite, SaveWrites, Over
<1>11. ASSUME NEW t \in Thread, SaveReplace(t) PROVE FileOK'
  <2>1. CASE CanReplace
    <3>1. meant' \in Config \cup NoConfig
      BY <1>11, <2>1, EditTyped DEF SaveReplace, JobOK
    <3> QED
      BY <1>11, <2>1, <3>1 DEF SaveReplace, SaveReplaces, NoConfig
  <2>2. CASE ~CanReplace
    BY <1>1, <1>11, <2>2 DEF SaveReplace
  <2> QED
    BY <2>1, <2>2
<1>12. CASE Crash
  BY <1>12 DEF Crash, FileCrash, NoConfig
<1>13. CASE UNCHANGED vars
  BY <1>1, <1>13 DEF vars
<1> QED
  BY <1>2, <1>3, <1>4, <1>5, <1>6, <1>7, <1>8, <1>9, <1>10, <1>11, <1>12, <1>13 DEF Next

-----------------------------------------------------------------------------
\* What the file holds while no two changes overlap.

ConfigInv == FileInv /\ SwitchInv
Fixed == UNCHANGED <<disk, temp, handle, meant>>
Still == Fixed /\ UNCHANGED <<index, imported>>

LEMMA EditSame ==
  ASSUME NEW j, NEW k, NEW config, j.req = k.req, j.from = k.from, j.account = k.account,
         j.arg = k.arg, j.ip = k.ip
  PROVE  Edit(j, config) = Edit(k, config)
  BY DEF Edit, Imports

\* What To() leaves alone.
LEMMA ToFields ==
  ASSUME JobOK, NEW t \in Thread, NEW pc
  PROVE  /\ To(t, pc).pc = pc /\ To(t, pc).req = job[t].req /\ To(t, pc).from = job[t].from
         /\ To(t, pc).account = job[t].account /\ To(t, pc).arg = job[t].arg
         /\ To(t, pc).ip = job[t].ip /\ To(t, pc).value = job[t].value
         /\ \A account :
              /\ [To(t, pc) EXCEPT !.account = account].pc = pc
              /\ [To(t, pc) EXCEPT !.account = account].req = job[t].req
         /\ \A todo :
              /\ [To(t, pc) EXCEPT !.todo = todo].pc = pc
              /\ [To(t, pc) EXCEPT !.todo = todo].req = job[t].req
<1>1. job[t] \in Job
  BY DEF JobOK
<1> QED
  BY <1>1 DEF To, Job

LEMMA EditTo ==
  ASSUME JobOK, NEW t \in Thread, NEW pc, NEW config
  PROVE  Edit(To(t, pc), config) = Edit(job[t], config) /\ To(t, pc).value = job[t].value
  BY ToFields, EditSame

\* Two that change the file at a time overlap.
LEMMA OneChanges ==
  ASSUME Overlaps, ~overlapped'
  PROVE  \A t, u \in Thread : t \in Changing' /\ u \in Changing' => t = u
<1> SUFFICES ASSUME NEW t \in Thread, NEW u \in Thread, t \in Changing', u \in Changing', t # u PROVE FALSE
  OBVIOUS
<1>1. IsFiniteSet(Changing') /\ Cardinality(Changing') \in Nat
  BY FS_Subset, FS_CardinalityType, RegistryAssumption DEF Changing
<1>2. Cardinality({t, u}) <= Cardinality(Changing')
  BY <1>1, FS_Subset, {t, u} \subseteq Changing'
<1>3. Cardinality({t, u}) = 2
  <2>1. IsFiniteSet({u}) /\ Cardinality({u}) = 1
    BY FS_Singleton
  <2>2. {u} \cup {t} = {t, u} /\ t \notin {u}
    OBVIOUS
  <2> QED
    BY <2>1, <2>2, FS_AddElement
<1>4. ~(Cardinality(Changing') > 1)
  BY DEF Overlaps
<1> QED
  BY <1>1, <1>2, <1>3, <1>4

LEMMA DiskWhole == ASSUME FileOK, FileInv PROVE disk # Torn /\ disk \in Config \cup NoConfig
  BY FileAssumption DEF FileOK, FileInv, NoConfig

\* Without a configuration the first printer is selected; then an accepted switch is void.
LEMMA NoConfigInStep ==
  ASSUME SwitchInv, NEW t \in Thread, Switched(t), disk \in NoConfig
  PROVE  InStep
<1>1. RestartIndex(disk) = First
  BY FileAssumption DEF RestartIndex, NoConfig
<1>2. imported
  BY DEF SwitchInv, Supported
<1> QED
  BY <1>1, <1>2 DEF InStep

\* The selections stay in step, and a printer that may be switched to stays, or there was an import.
Holds ==
  /\ InStep => InStep'
  /\ imported' \/ (~imported /\ Supported(disk) \subseteq Supported(disk'))

LEMMA StillHolds == ASSUME Still, imported \in BOOLEAN PROVE Holds
  BY DEF Still, Fixed, Holds, InStep

\* One thread goes on and leaves the file alone.
LEMMA FileKeeps ==
  ASSUME JobOK, FileInv, NEW t \in Thread, NEW j, job' = [job EXCEPT ![t] = j], Fixed,
         ~At(t, "write"), j.pc \notin {"aside", "write", "replace"},
         j.pc = "open" => j.value = Edit(j, disk),
         j.pc # "open" \/ \A v, u \in Thread : v \in Changing' /\ u \in Changing' => v = u
  PROVE  FileInv'
<1>1. job'[t] = j /\ \A u \in Thread : u # t => job'[u] = job[u]
  BY DEF JobOK
<1>2. \A u \in Thread : u # t => (u \in Changing' <=> u \in Changing)
  BY <1>1 DEF Changing
<1>3. t \in Changing' <=> j.pc = "open"
  BY <1>1 DEF Changing
<1>4. ASSUME NEW u \in Thread PROVE Saving(u)'
  <2>1. Saving(u) /\ Saving(t)
    BY DEF FileInv
  <2>2. CASE u = t
    BY <1>1, <1>3, <2>1, <2>2 DEF Saving, Fixed, At
  <2>3. CASE u # t
    BY <1>1, <1>2, <2>1, <2>3 DEF Saving, Fixed, At
  <2> QED
    BY <2>2, <2>3
<1>5. ASSUME NEW v \in Thread, NEW u \in Changing', v \in Changing' PROVE v = u
  <2>1. u \in Thread
    BY DEF Changing
  <2>2. CASE j.pc = "open"
    BY <1>5, <2>1, <2>2
  <2>3. CASE j.pc # "open"
    BY <1>2, <1>3, <1>5, <2>1, <2>3 DEF FileInv
  <2> QED
    BY <2>2, <2>3
<1>6. disk' = meant'
  BY DEF FileInv, Fixed
<1> QED
  BY <1>4, <1>5, <1>6 DEF FileInv

\* One thread goes on; it gets no further with a switch, or from its load to its save.
LEMMA SwitchKeeps ==
  ASSUME JobOK, SwitchInv, NEW t \in Thread, NEW j, job' = [job EXCEPT ![t] = j],
         index' = index, Holds,
         switchLock' <=> (switchLock /\ (j.req = "switch" \/ job[t].req # "switch")),
         j.pc \in {"fetch", "restore"} => j.req = "import", j.pc = "idle" => j.req = "none",
         j.req = "switch" => j.pc = "lock" \/ OwnsLock(t),
         j.req = "switch" /\ j.pc \in {"load", "open", "write", "replace"} => Switched(t) /\ j.arg = job[t].arg,
         Switched(t) => Switched(t)' \/ InStep',
         job[t].req = "switch" /\ j.req # "switch" => OwnsLock(t)
  PROVE  SwitchInv'
<1>1. job'[t] = j /\ \A u \in Thread : u # t => job'[u] = job[u]
  BY DEF JobOK
<1>2. \A u \in Thread : u # t => (OwnsLock(u)' <=> OwnsLock(u)) /\ (Switched(u)' <=> Switched(u))
  BY <1>1 DEF OwnsLock, Switched, At, Changing
<1>3. OwnsLock(t)' => OwnsLock(t) /\ j.req = "switch"
  BY <1>1 DEF OwnsLock, At
<1>4. Switched(t)' => Switched(t) /\ j.arg = job[t].arg
  BY <1>1 DEF Switched, At, Changing
<1>5. \A u \in Thread : InPlace(u)'
  BY <1>1 DEF SwitchInv, InPlace
<1>6. ASSUME NEW u \in Thread, OwnsLock(u)' PROVE switchLock' /\ \A v \in Thread : OwnsLock(v)' => v = u
  <2>1. OwnsLock(u) /\ switchLock /\ \A v \in Thread : OwnsLock(v) => v = u
    BY <1>2, <1>3, <1>6 DEF SwitchInv
  <2>2. u # t => ~OwnsLock(t)
    BY <2>1
  <2>3. switchLock'
    BY <1>3, <1>6, <2>1, <2>2
  <2> QED
    BY <1>2, <1>3, <2>1, <2>3
<1>7. \A u \in Thread : Switched(u)' => job'[u].arg = index' /\ (imported' \/ job'[u].arg \in Supported(disk'))
  BY <1>1, <1>2, <1>4 DEF SwitchInv, Holds
<1>8. InStep' \/ \E u \in Thread : Switched(u)'
  <2>1. CASE \A u \in Thread : ~Switched(u)
    BY <2>1 DEF SwitchInv, Holds
  <2>2. CASE Switched(t)
    BY <2>2
  <2>3. CASE \E u \in Thread : u # t /\ Switched(u)
    BY <1>2, <2>3
  <2> QED
    BY <2>1, <2>2, <2>3
<1> QED
  BY <1>5, <1>6, <1>7, <1>8 DEF SwitchInv

LEMMA EndsConfig ==
  ASSUME JobOK, imported \in BOOLEAN, ConfigInv, NEW t \in Thread, Ends(t), Still,
         ~At(t, "write"), ~At(t, "lock"), Switched(t) => InStep
  PROVE  ConfigInv'
<1>1. job' = [job EXCEPT ![t] = Idle] /\ index' = index /\ disk' = disk /\ Fixed /\ Holds
  BY StillHolds DEF Ends, Still, Fixed
<1>2. FileInv'
  BY <1>1, FileKeeps DEF Idle, ConfigInv
<1>3. switchLock' = (switchLock /\ job[t].req # "switch") /\ Idle.req = "none" /\ Idle.pc = "idle"
  BY DEF Ends, Unlocks, Idle
<1>4. job[t].req = "switch" => OwnsLock(t)
  BY DEF OwnsLock
<1>5. SwitchInv'
  BY <1>1, <1>3, <1>4, SwitchKeeps DEF ConfigInv, Holds
<1> QED
  BY <1>2, <1>5 DEF ConfigInv

\* A thread that is not changing the file goes on to what changes nothing.
LEMMA GoesConfig ==
  ASSUME JobOK, imported \in BOOLEAN, ConfigInv, NEW t \in Thread, NEW j, Goes(t, j), Still,
         ~At(t, "write"), ~At(t, "lock"), ~Switched(t), j.req = job[t].req,
         j.pc \notin {"aside", "open", "write", "replace", "restore", "lock", "fetch", "idle"},
         j.pc = "load" => j.req # "switch"
  PROVE  ConfigInv'
<1>1. /\ job' = [job EXCEPT ![t] = j] /\ index' = index /\ disk' = disk /\ switchLock' = switchLock
      /\ Fixed /\ Holds
  BY StillHolds DEF Goes, Still, Fixed
<1>2. FileInv'
  BY <1>1, FileKeeps DEF ConfigInv
<1>3. SwitchInv'
  BY <1>1, SwitchKeeps DEF ConfigInv, OwnsLock
<1> QED
  BY <1>2, <1>3 DEF ConfigInv

\* The change is made of what was loaded.
LEMMA SavesConfig ==
  ASSUME JobOK, imported \in BOOLEAN, ConfigInv, NEW t \in Thread, Saves(t, disk), Still,
         Overlaps, ~overlapped', job[t].pc \in {"load", "restore"}
  PROVE  ConfigInv'
<1> DEFINE ip == (disk \notin NoConfig /\ disk.address) \/ job[t].ip
           j == [job[t] EXCEPT !.pc = "open", !.from = job[t].pc, !.ip = ip]
           k == [j EXCEPT !.value = Edit(j, disk)]
<1>1. job[t] \in Job
  BY DEF JobOK
<1>2. Goes(t, k)
  BY DEF Saves, At
<1>3. k.pc = "open" /\ k.req = job[t].req /\ k.arg = job[t].arg
  BY <1>1 DEF Job
<1>4. k.value = Edit(j, disk)
  BY <1>1 DEF Job
<1>5. k.req = j.req /\ k.from = j.from /\ k.account = j.account /\ k.arg = j.arg /\ k.ip = j.ip
  BY <1>1 DEF Job
<1> HIDE DEF k, j
<1>6. k.value = Edit(k, disk)
  BY <1>4, <1>5, EditSame
<1>7. /\ job' = [job EXCEPT ![t] = k] /\ index' = index /\ disk' = disk /\ switchLock' = switchLock
      /\ Fixed /\ Holds
  BY <1>2, StillHolds DEF Goes, Still, Fixed
<1>8. FileInv'
  BY <1>3, <1>6, <1>7, FileKeeps, OneChanges DEF ConfigInv, At
<1>9. job[t].req = "switch" => Switched(t) /\ OwnsLock(t)
  BY DEF Switched, OwnsLock, ConfigInv, SwitchInv, InPlace, At
<1>10. Switched(t) => Switched(t)'
  BY <1>1, <1>3, <1>7 DEF Switched, Changing, JobOK
<1>11. SwitchInv'
  BY <1>3, <1>7, <1>9, <1>10, SwitchKeeps DEF ConfigInv
<1> QED
  BY <1>8, <1>11 DEF ConfigInv

\* load(), when the file is whole.
LEMMA LoadConfig ==
  ASSUME TypeOK, ConfigInv, NEW t \in Thread, Load(t), ~overlapped'
  PROVE  ConfigInv'
<1> USE DEF TypeOK
<1>1. /\ Loaded(t, job[t].pc, disk) /\ Fixed /\ Overlaps /\ job[t].pc \in Reading
      /\ imported' = (imported /\ index' = index) /\ imported \in BOOLEAN
  BY DiskWhole DEF Load, ConfigInv, Fixed, file, FileOK
<1>2. ~At(t, "write") /\ ~At(t, "lock") /\ ~At(t, "aside") /\ t \notin Changing
  BY <1>1 DEF At, Reading, Changing
<1>3. Switched(t) => job[t].pc = "load" /\ job[t].req = "switch"
  BY <1>2 DEF Switched, At
<1> DEFINE Goer == (\E j : Goes(t, j)) \/ Ends(t)
<1>12. Goer => Still
  BY <1>1 DEF Goes, Ends, Still
<1>13. \A j : Goes(t, j) => Still
  BY <1>12
<1>14. Saves(t, disk) => Still
  BY <1>13 DEF Saves
<1> HIDE DEF Goer
<1>4. ASSUME Ends(t), disk \in NoConfig \/ ~Switched(t) PROVE ConfigInv'
  <2>1. Still
    BY <1>4, <1>12 DEF Goer
  <2>2. Switched(t) => InStep
    BY <1>4, NoConfigInStep DEF ConfigInv
  <2> QED
    BY <1>1, <1>2, <1>4, <2>1, <2>2, EndsConfig
<1>5. CASE Switches(t, disk) /\ job[t].pc = "look" /\ job[t].req = "switch"
  <2>1. CASE Ends(t)
    BY <1>3, <1>4, <1>5, <2>1
  <2>2. CASE ~Ends(t)
    <3> DEFINE j == [job[t] EXCEPT !.pc = "load"]
    <3>1. index' = job[t].arg /\ job' = [job EXCEPT ![t] = j] /\ UNCHANGED switchLock
      BY <1>5, <2>2 DEF Switches
    <3>2. job[t] \in Job
      BY DEF JobOK
    <3>3. j.pc = "load" /\ j.req = "switch" /\ j.arg = job[t].arg
      BY <1>5, <3>2 DEF Job
    <3> HIDE DEF j
    <3>4. FileInv'
      BY <1>1, <1>2, <3>1, <3>3, FileKeeps DEF ConfigInv
    <3>5. OwnsLock(t) /\ \A u \in Thread : u # t => ~OwnsLock(u)
      BY <1>5 DEF OwnsLock, At, ConfigInv, SwitchInv
    <3>6. job'[t] = j /\ \A u \in Thread : u # t => job'[u] = job[u]
      BY <3>1 DEF JobOK
    <3>7. \A u \in Thread : (OwnsLock(u)' <=> OwnsLock(u)) /\ (Switched(u)' <=> u = t)
      <4>1. \A u \in Thread : Switched(u) => OwnsLock(u)
        BY DEF Switched, OwnsLock, At, Changing
      <4>2. \A u \in Thread : u # t => (OwnsLock(u)' <=> OwnsLock(u)) /\ (Switched(u)' <=> Switched(u))
        BY <3>6 DEF OwnsLock, Switched, At, Changing
      <4>3. OwnsLock(t)' /\ Switched(t)'
        BY <3>3, <3>6 DEF OwnsLock, Switched, At
      <4> QED
        BY <3>5, <4>1, <4>2, <4>3
    <3>8. \A u \in Thread : InPlace(u)'
      BY <3>3, <3>6 DEF ConfigInv, SwitchInv, InPlace
    <3>9. job[t].arg \in Supported(disk') /\ job'[t].arg = job[t].arg
      BY <1>1, <1>5, <2>2, <3>3, <3>6 DEF Switches, Fixed
    <3>10. SwitchInv'
      BY <3>1, <3>3, <3>6, <3>7, <3>8, <3>9 DEF ConfigInv, SwitchInv
    <3> QED
      BY <3>4, <3>10 DEF ConfigInv
  <2> QED
    BY <2>1, <2>2
<1>6. ASSUME NEW pc \in {"load", "register"}, Goes(t, To(t, pc)), job[t].req \in {"address", "reload"}
      PROVE  ConfigInv'
  <2>1. To(t, pc).pc = pc /\ To(t, pc).req = job[t].req
    BY ToFields
  <2> QED
    BY <1>1, <1>2, <1>3, <1>6, <1>13, <2>1, GoesConfig
<1>7. CASE Reloads(t, disk) /\ job[t].req = "reload"
  BY <1>3, <1>4, <1>6, <1>7 DEF Reloads
<1>8. CASE Looks(t, disk) /\ job[t].req = "address"
  BY <1>3, <1>4, <1>6, <1>8 DEF Looks
<1>9. CASE Loads(t, disk) /\ job[t].pc = "load"
  BY <1>1, <1>3, <1>4, <1>9, <1>14, SavesConfig DEF Loads
<1>10. CASE Restores(t, disk) /\ job[t].pc = "restore"
  BY <1>1, <1>3, <1>4, <1>10, <1>14, SavesConfig DEF Restores
<1>11. CASE Registers(t, disk) /\ job[t].pc = "register"
  <2>1. LET j == [To(t, "list") EXCEPT !.account = disk.printers] IN j.pc = "list" /\ j.req = job[t].req
    BY ToFields
  <2> QED
    BY <1>1, <1>2, <1>3, <1>4, <1>11, <1>13, <2>1, GoesConfig DEF Registers
<1> QED
  BY <1>1, <1>5, <1>7, <1>8, <1>9, <1>10, <1>11 DEF Loaded

\* save(): the one thread that saves goes from its opening to its replacement.
LEMMA OneSaves ==
  ASSUME JobOK, ConfigInv, NEW t \in Thread, NEW pc \in {"write", "replace"}, Goes(t, To(t, pc)),
         t \in Changing, UNCHANGED <<disk, meant, imported>>, imported \in BOOLEAN,
         handle' = [handle EXCEPT ![t] = IF pc = "write" THEN "temp" ELSE "none"],
         handle \in [Thread -> {"none", "temp", "disk", "gone"}],
         temp' = IF pc = "write" THEN Torn ELSE job[t].value
  PROVE  ConfigInv'
<1>1. job' = [job EXCEPT ![t] = To(t, pc)] /\ index' = index /\ switchLock' = switchLock
  BY DEF Goes
<1>2. job'[t] = To(t, pc) /\ \A u \in Thread : u # t => job'[u] = job[u]
  BY <1>1 DEF JobOK
<1>3. /\ To(t, pc).pc = pc /\ To(t, pc).req = job[t].req /\ To(t, pc).arg = job[t].arg
      /\ To(t, pc).value = job[t].value /\ Edit(To(t, pc), disk) = Edit(job[t], disk)
  BY ToFields, EditTo
<1>4. \A u \in Thread : u \in Changing' <=> u \in Changing
  BY <1>2, <1>3 DEF Changing
<1>5. \A u \in Thread : u # t => u \notin Changing
  BY DEF ConfigInv, FileInv
<1>6. ASSUME NEW u \in Thread PROVE Saving(u)'
  <2>1. Saving(u) /\ Saving(t)
    BY DEF ConfigInv, FileInv
  <2>2. CASE u = t
    BY <1>2, <1>3, <2>1, <2>2 DEF Saving, At
  <2>3. CASE u # t
    BY <1>2, <1>5, <2>1, <2>3 DEF Saving, At, Changing
  <2> QED
    BY <2>2, <2>3
<1>7. FileInv'
  <2>1. \A u \in Changing' : u \in Changing
    BY <1>4 DEF Changing
  <2> QED
    BY <1>4, <1>6, <2>1 DEF ConfigInv, FileInv
<1>8. Switched(t)' <=> Switched(t)
  BY <1>2, <1>3, <1>4 DEF Switched, At, Changing
<1>9. job[t].req = "switch" => OwnsLock(t) /\ Switched(t)
  BY DEF OwnsLock, Switched, At, Changing
<1>10. Holds
  BY <1>1 DEF Holds, InStep
<1>11. SwitchInv'
  BY <1>1, <1>3, <1>8, <1>9, <1>10, SwitchKeeps DEF ConfigInv
<1> QED
  BY <1>7, <1>11 DEF ConfigInv

LEMMA OpenConfig ==
  ASSUME TypeOK, ConfigInv, NEW t \in Thread, SaveOpen(t) \/ SaveWrite(t)
  PROVE  ConfigInv'
<1> USE DEF TypeOK
<1>1. t \in Changing /\ Saving(t)
  BY DEF SaveOpen, SaveWrite, At, Changing, ConfigInv, FileInv
<1>2. handle \in [Thread -> {"none", "temp", "disk", "gone"}] /\ imported \in BOOLEAN
  BY DEF FileOK
<1>3. CASE SaveOpen(t)
  BY <1>1, <1>2, <1>3, OneSaves DEF SaveOpen, SaveOpens
<1>4. CASE SaveWrite(t)
  <2>1. handle[t] = "temp" /\ temp = Torn
    BY <1>1, <1>4 DEF SaveWrite, Saving
  <2>2. temp' = job[t].value /\ disk' = disk /\ handle' = [handle EXCEPT ![t] = "none"]
    BY <1>4, <2>1 DEF SaveWrite, SaveWrites, Over
  <2> QED
    BY <1>1, <1>2, <1>4, <2>2, OneSaves DEF SaveWrite
<1> QED
  BY <1>3, <1>4

\* The printers and the selection that a save leaves.
LEMMA EditSelects ==
  ASSUME NEW j \in Job, NEW config \in Config \cup NoConfig
  PROVE  /\ Edit(j, config) # NoFile
         /\ Imports(j) => RestartIndex(Edit(j, config)) = First
         /\ ~Imports(j) => Supported(Edit(j, config)) = Supported(config)
         /\ ~Imports(j) /\ j.req # "switch" => RestartIndex(Edit(j, config)) = RestartIndex(config)
         /\ j.req = "switch" => RestartIndex(Edit(j, config)) \in {First, j.arg}
         /\ j.req = "switch" /\ j.arg \in Supported(config) => RestartIndex(Edit(j, config)) = j.arg
<1> USE DEF Imports
<1>1. CASE Imports(j)
  <2>1. Edit(j, config) = Import(j.account, config)
    BY <1>1 DEF Edit
  <2>2. Import(j.account, config) \in Config /\ Import(j.account, config).active = First
    BY RegistryAssumption DEF Import, Config, Job
  <2> HIDE DEF Import
  <2> QED
    BY <1>1, <2>1, <2>2, FileAssumption DEF RestartIndex
<1>2. CASE ~Imports(j) /\ config \in NoConfig
  BY <1>2, FileAssumption DEF Edit, RestartIndex, NoConfig, Supported
<1>3. CASE ~Imports(j) /\ config \notin NoConfig
  <2> DEFINE new == Edit(j, config)
  <2>1. new = CASE j.req = "setting" -> [config EXCEPT !.rate = ~@]
                [] j.req = "switch" -> [config EXCEPT !.active = j.arg]
                [] j.req = "import" -> [config EXCEPT !.address = j.ip]
                [] OTHER -> [config EXCEPT !.address = TRUE]
    BY <1>3 DEF Edit
  <2>2. new \in Config
    BY <1>3, <2>1 DEF Config, Job
  <2>3. new.printers = config.printers /\ new.active = IF j.req = "switch" THEN j.arg ELSE config.active
    BY <1>3, <2>1 DEF Config
  <2> HIDE DEF new
  <2>4. new # NoFile /\ new \notin NoConfig
    BY <2>2, FileAssumption DEF NoConfig
  <2>5. RestartIndex(new) \in {First, new.active}
    BY DEF RestartIndex
  <2>6. j.req # "switch" => RestartIndex(new) = RestartIndex(config)
    BY <1>3, <2>2, <2>3 DEF RestartIndex, InRange
  <2>7. Supported(new) = Supported(config)
    BY <1>3, <2>3, <2>4 DEF Supported
  <2>8. ASSUME j.req = "switch", j.arg \in Supported(config) PROVE RestartIndex(new) = j.arg
    <3>1. new.active = j.arg /\ j.arg \in new.printers
      BY <1>3, <2>3, <2>8 DEF Supported
    <3>2. j.arg \in Nat
      BY RegistryAssumption DEF Job
    <3>3. j.arg <= j.arg
      BY <3>2
    <3> QED
      BY <2>2, <3>1, <3>3 DEF RestartIndex, InRange
  <2> QED
    BY <1>3, <2>3, <2>4, <2>5, <2>6, <2>7, <2>8 DEF new
<1> QED
  BY <1>1, <1>2, <1>3

LEMMA ReplaceConfig ==
  ASSUME TypeOK, ConfigInv, NEW t \in Thread, SaveReplace(t)
  PROVE  ConfigInv'
<1> USE DEF TypeOK
<1>1. At(t, "replace") /\ t \in Changing /\ Saving(t) /\ job[t] \in Job
  BY DEF SaveReplace, At, Changing, ConfigInv, FileInv, JobOK
<1>2. temp = Edit(job[t], disk) /\ disk = meant /\ disk \in Config \cup NoConfig
  BY <1>1, DiskWhole DEF Saving, ConfigInv, FileInv
<1>3. CanReplace
  BY <1>1, <1>2, EditSelects DEF CanReplace
<1>4. /\ SaveReplaces /\ Saved(t) /\ disk' = meant' /\ disk' = Edit(job[t], disk)
      /\ imported' = (imported \/ Imports(job[t]))
  BY <1>2, <1>3 DEF SaveReplace, SaveReplaces
<1>5. \A u \in Thread : u # t => u \notin Changing
  BY <1>1 DEF ConfigInv, FileInv
<1>6. \A u \in Thread : handle[u] = "none"
  BY <1>1, <1>5 DEF ConfigInv, FileInv, Saving, At, Changing
<1>7. \A u \in Thread : handle'[u] = "none"
  BY <1>4, <1>6 DEF SaveReplaces
<1> DEFINE Then(j) ==
      /\ job' = [job EXCEPT ![t] = j] /\ index' = index
      /\ \/ j.pc = "restore" /\ j.req = "import" /\ job[t].req = "import" /\ switchLock' = switchLock
         \/ j.pc = "register" /\ j.req = "switch" /\ job[t].req = "switch" /\ switchLock' = switchLock
         \/ j.pc = "idle" /\ j.req = "none" /\ (switchLock' <=> (switchLock /\ job[t].req # "switch"))
<1>8. PICK j : Then(j)
  <2>1. \A pc : To(t, pc).pc = pc /\ To(t, pc).req = job[t].req
    BY ToFields
  <2>2. CASE Ends(t)
    <3>1. Then(Idle)
      BY <2>2 DEF Ends, Unlocks, Idle
    <3> QED
      BY <3>1
  <2>3. CASE job[t].req = "import" /\ Goes(t, To(t, "restore"))
    <3>1. Then(To(t, "restore"))
      BY <2>1, <2>3 DEF Goes
    <3> QED
      BY <3>1
  <2>4. CASE job[t].req = "switch" /\ Goes(t, To(t, "register"))
    <3>1. Then(To(t, "register"))
      BY <2>1, <2>4 DEF Goes
    <3> QED
      BY <3>1
  <2> QED
    BY <1>4, <2>2, <2>3, <2>4 DEF Saved
<1>9. job'[t] = j /\ \A u \in Thread : u # t => job'[u] = job[u]
  BY <1>8 DEF JobOK
<1>10. \A u \in Thread : u \notin Changing'
  BY <1>5, <1>8, <1>9 DEF Changing
<1>11. FileInv'
  <2>1. ASSUME NEW u \in Thread PROVE Saving(u)'
    <3>1. job'[u].pc \notin {"write", "replace", "open"}
      BY <1>10 DEF Changing
    <3>2. job'[u].pc # "aside"
      BY <1>8, <1>9 DEF ConfigInv, FileInv, Saving
    <3> QED
      BY <1>7, <1>10, <3>1, <3>2 DEF Saving, At
  <2> QED
    BY <1>4, <1>10, <2>1 DEF FileInv
<1>12. job[t].req = "switch" => OwnsLock(t) /\ Switched(t) /\ job[t].arg = index
  BY <1>1 DEF OwnsLock, Switched, At, ConfigInv, SwitchInv
<1>17. imported \in BOOLEAN /\ index' = index
  BY <1>8 DEF FileOK
<1>13. Holds /\ (Switched(t) => InStep')
  <2>1. CASE Imports(job[t])
    BY <1>1, <1>2, <1>4, <2>1, EditSelects DEF Holds, InStep
  <2>2. CASE ~Imports(job[t]) /\ job[t].req # "switch"
    BY <1>1, <1>2, <1>4, <1>17, <2>2, EditSelects DEF Holds, InStep, Switched
  <2>3. CASE job[t].req = "switch"
    <3>1. ~Imports(job[t]) /\ imported' = imported
      BY <1>4, <1>17, <2>3 DEF Imports
    <3>2. imported \/ job[t].arg \in Supported(disk)
      BY <1>12, <2>3 DEF ConfigInv, SwitchInv
    <3>3. InStep'
      BY <1>1, <1>2, <1>4, <1>12, <1>17, <2>3, <3>1, <3>2, EditSelects DEF InStep
    <3> QED
      BY <1>1, <1>2, <1>4, <3>1, <3>3, <1>17, EditSelects DEF Holds
  <2> QED
    BY <2>1, <2>2, <2>3
<1>14. /\ switchLock' <=> (switchLock /\ (j.req = "switch" \/ job[t].req # "switch"))
       /\ j.pc = "restore" => j.req = "import"
       /\ j.pc = "idle" => j.req = "none"
       /\ j.pc \in {"restore", "register", "idle"}
       /\ j.req = "switch" => job[t].req = "switch"
  BY <1>8
<1> HIDE DEF Then
<1>15. job' = [job EXCEPT ![t] = j] /\ index' = index
  BY <1>8 DEF Then
<1>16. SwitchInv'
  BY <1>12, <1>13, <1>14, <1>15, SwitchKeeps DEF ConfigInv
<1> QED
  BY <1>11, <1>16 DEF ConfigInv

\* Requests, and what a thread does before it loads the configuration.
LEMMA RequestConfig ==
  ASSUME JobOK, imported \in BOOLEAN, ConfigInv, NEW t \in Thread,
         Setting(t) \/ Address(t) \/ Reload(t) \/ Switch(t) \/ ImportAccount(t)
  PROVE  ConfigInv'
<1> USE DEF Idle
<1>1. ASSUME NEW j, Request(t, j), j.pc \in {"load", "probe", "look", "lock", "fetch"},
             j.req = "switch" => j.pc = "lock", j.pc = "fetch" => j.req = "import"
      PROVE  ConfigInv'
  <2>1. /\ job' = [job EXCEPT ![t] = j] /\ index' = index /\ switchLock' = switchLock
        /\ disk' = disk /\ Fixed /\ Holds /\ At(t, "idle")
    BY <1>1, StillHolds DEF Request, Goes, Still, Fixed, file
  <2>2. job[t].req = "none" /\ ~Switched(t)
    BY <2>1 DEF ConfigInv, SwitchInv, InPlace, Switched, At
  <2>3. FileInv'
    BY <1>1, <2>1, FileKeeps DEF ConfigInv, At
  <2>4. SwitchInv'
    BY <1>1, <2>1, <2>2, SwitchKeeps DEF ConfigInv
  <2> QED
    BY <2>3, <2>4 DEF ConfigInv
<1>2. CASE Setting(t)
  BY <1>1, <1>2 DEF Setting
<1>3. CASE Address(t)
  BY <1>1, <1>3 DEF Address
<1>4. CASE Reload(t)
  BY <1>1, <1>4 DEF Reload
<1>5. CASE Switch(t)
  BY <1>1, <1>5 DEF Switch
<1>6. CASE ImportAccount(t)
  BY <1>1, <1>6 DEF ImportAccount
<1> QED
  BY <1>2, <1>3, <1>4, <1>5, <1>6

\* A thread may take the lock when no switch has it.
LEMMA LockConfig ==
  ASSUME JobOK, imported \in BOOLEAN, ConfigInv, NEW t \in Thread, Lock(t)
  PROVE  ConfigInv'
<1>1. /\ job' = [job EXCEPT ![t] = To(t, "look")] /\ index' = index /\ Fixed /\ Holds
      /\ ~switchLock /\ switchLock' /\ At(t, "lock")
  BY StillHolds DEF Lock, To, Quiet, Still, Fixed, file
<1>2. To(t, "look").pc = "look"
  BY ToFields
<1>3. job'[t] = To(t, "look") /\ \A u \in Thread : u # t => job'[u] = job[u]
  BY <1>1 DEF JobOK
<1>4. FileInv'
  BY <1>1, <1>2, FileKeeps DEF ConfigInv, At
<1>5. \A u \in Thread : ~OwnsLock(u)
  BY <1>1 DEF ConfigInv, SwitchInv
<1>6. \A u \in Thread : (OwnsLock(u)' => u = t) /\ ~Switched(u) /\ ~Switched(u)'
  <2>1. \A u \in Thread : ~Switched(u)
    BY <1>5 DEF Switched, OwnsLock, At, Changing
  <2> QED
    BY <1>2, <1>3, <1>5, <2>1 DEF Switched, OwnsLock, At, Changing
<1>7. \A u \in Thread : InPlace(u)'
  BY <1>2, <1>3 DEF ConfigInv, SwitchInv, InPlace
<1>8. SwitchInv'
  BY <1>1, <1>6, <1>7 DEF ConfigInv, SwitchInv, Holds
<1> QED
  BY <1>4, <1>8 DEF ConfigInv

LEMMA FetchConfig ==
  ASSUME JobOK, imported \in BOOLEAN, ConfigInv, NEW t \in Thread, Fetch(t) \/ Probe(t) \/ Search(t)
  PROVE  ConfigInv'
<1>1. Still /\ job[t].pc \in {"fetch", "probe", "search"}
  BY DEF Fetch, Probe, Search, Quiet, Goes, Ends, Still, Fixed, file, At
<1>2. ~At(t, "write") /\ ~At(t, "lock") /\ ~Switched(t)
  BY <1>1 DEF At, Switched, Changing
<1>3. ASSUME Ends(t) PROVE ConfigInv'
  BY <1>1, <1>2, <1>3, EndsConfig
<1>4. ASSUME NEW pc \in {"load", "search", "look"}, Goes(t, To(t, pc)), pc = "load" => job[t].req # "switch"
      PROVE  ConfigInv'
  <2>1. To(t, pc).pc = pc /\ To(t, pc).req = job[t].req
    BY ToFields
  <2> QED
    BY <1>1, <1>2, <1>4, <2>1, GoesConfig
<1>5. At(t, "fetch") => job[t].req # "switch"
  BY DEF ConfigInv, SwitchInv, InPlace, At
<1> QED
  BY <1>3, <1>4, <1>5 DEF Fetch, Probe, Search

\* register_services(): the file is left alone.
LEMMA ServicesConfig ==
  ASSUME JobOK, imported \in BOOLEAN, ConfigInv, NEW t \in Thread,
         \/ List(t) \/ Prune(t) \/ Unregister(t) \/ Delete(t) \/ Pruned(t) \/ Make(t) \/ Register(t)
         \/ Registered(t)
  PROVE  ConfigInv'
<1>1. Still /\ job[t].pc \in {"list", "prune", "stop", "delete", "add", "made"}
  BY DEF List, Prune, Unregister, Delete, Pruned, Make, Register, Registered, Quiet, Goes, Ends,
         Still, Fixed, file, At
<1>2. ~At(t, "write") /\ ~At(t, "lock") /\ ~Switched(t)
  BY <1>1 DEF At, Switched, Changing
<1>3. ASSUME Ends(t) PROVE ConfigInv'
  BY <1>1, <1>2, <1>3, EndsConfig
<1>4. ASSUME NEW j, Goes(t, j), j.pc \in {"prune", "stop", "delete", "add", "made"}, j.req = job[t].req
      PROVE  ConfigInv'
  BY <1>1, <1>2, <1>4, GoesConfig
<1>5. \A pc : /\ To(t, pc).pc = pc /\ To(t, pc).req = job[t].req
              /\ \A todo : /\ [To(t, pc) EXCEPT !.todo = todo].pc = pc
                           /\ [To(t, pc) EXCEPT !.todo = todo].req = job[t].req
  BY ToFields
<1>6. \A pc, p : LET j == [job[t] EXCEPT !.pc = pc, !.todo = @ \ {p}, !.arg = p]
                 IN j.pc = pc /\ j.req = job[t].req
  BY DEF JobOK, Job
<1>7. CASE List(t) \/ Pruned(t)
  BY <1>4, <1>5, <1>7 DEF List, Pruned
<1>8. CASE Prune(t) \/ Make(t)
  <2>1. PICK pc \in {"prune", "stop", "add", "made"}, p \in job[t].todo :
          Goes(t, [job[t] EXCEPT !.pc = pc, !.todo = @ \ {p}, !.arg = p])
    BY <1>8 DEF Prune, Make
  <2> QED
    BY <1>4, <1>6, <2>1
<1>9. CASE Unregister(t) \/ Delete(t) \/ Register(t) \/ Registered(t)
  BY <1>3, <1>4, <1>5, <1>9 DEF Unregister, Delete, Register, Registered
<1> QED
  BY <1>7, <1>8, <1>9

\* A new process has no threads yet; the file is as it was, and the selection follows it.
LEMMA CrashConfig == ASSUME TypeOK, ConfigInv, Crash PROVE ConfigInv'
<1>1. disk' = disk /\ meant' = meant /\ index' = RestartIndex(disk')
  BY DiskWhole DEF Crash, ConfigInv, TypeOK
<1>2. job' = [t \in Thread |-> Idle] /\ handle' = [t \in Thread |-> "none"]
  BY DEF Crash, FileCrash
<1>3. \A t \in Thread : job'[t].pc = "idle" /\ job'[t].req = "none" /\ handle'[t] = "none"
  BY <1>2 DEF Idle
<1>4. FileInv'
  BY <1>1, <1>3 DEF ConfigInv, FileInv, Saving, Changing, At
<1>5. SwitchInv'
  BY <1>1, <1>3 DEF SwitchInv, InStep, InPlace, OwnsLock, Switched, Changing, At
<1> QED
  BY <1>4, <1>5 DEF ConfigInv

LEMMA ConfigStep ==
  ASSUME TypeOK, ~overlapped => ConfigInv, [Next]_vars, ~overlapped'
  PROVE  ConfigInv'
<1> USE DEF TypeOK, FileOK
<1>1. ~overlapped
  BY DEF Next, vars, Setting, Address, Reload, Switch, ImportAccount, Request, Fetch, Probe, Search, Lock,
         Load, Aside, SaveOpen, SaveWrite, SaveReplace, List, Prune, Unregister, Delete, Pruned, Make,
         Register, Registered, Borrow, Return, Crash, Quiet, Overlaps
<1>2. ConfigInv
  BY <1>1
<1>3. ASSUME NEW t \in Thread,
             Setting(t) \/ Address(t) \/ Reload(t) \/ Switch(t) \/ ImportAccount(t)
      PROVE  ConfigInv'
  BY <1>2, <1>3, RequestConfig
<1>4. ASSUME NEW t \in Thread, Fetch(t) \/ Probe(t) \/ Search(t) \/ Lock(t) PROVE ConfigInv'
  BY <1>2, <1>4, FetchConfig, LockConfig
<1>5. ASSUME NEW t \in Thread, Load(t) PROVE ConfigInv'
  BY <1>2, <1>5, LoadConfig
<1>6. ASSUME NEW t \in Thread, Aside(t) PROVE FALSE
  BY <1>2, <1>6 DEF Aside, At, ConfigInv, FileInv, Saving
<1>7. ASSUME NEW t \in Thread, SaveOpen(t) \/ SaveWrite(t) \/ SaveReplace(t) PROVE ConfigInv'
  BY <1>2, <1>7, OpenConfig, ReplaceConfig
<1>8. ASSUME NEW t \in Thread,
             \/ List(t) \/ Prune(t) \/ Unregister(t) \/ Delete(t) \/ Pruned(t) \/ Make(t) \/ Register(t)
             \/ Registered(t)
      PROVE  ConfigInv'
  BY <1>2, <1>8, ServicesConfig
<1>9. CASE UNCHANGED <<file, job, switchLock, index, imported, meant>>
  BY <1>2, <1>9 DEF file, ConfigInv, FileInv, Saving, SwitchInv, InStep, InPlace, OwnsLock, Switched, Changing, At
<1>10. ASSUME NEW c \in Client, Borrow(c) \/ Return(c) PROVE ConfigInv'
  BY <1>9, <1>10 DEF Borrow, Return, Quiet
<1>11. CASE Crash
  BY <1>2, <1>11, CrashConfig
<1>12. CASE UNCHANGED vars
  BY <1>9, <1>12 DEF vars
<1> QED
  BY <1>3, <1>4, <1>5, <1>6, <1>7, <1>8, <1>10, <1>11, <1>12 DEF Next

-----------------------------------------------------------------------------
LEMMA InvariantInit == Init => IInv
<1> SUFFICES ASSUME Init PROVE IInv
  OBVIOUS
<1>1. PICK config \in {NoFile} \cup [printers : Accounts, active : {First}, rate : {TRUE}, address : {FALSE}] :
        FileInit(config) /\ meant = config /\ svcs = Supported(config)
  BY DEF Init
<1>2. config \in Config \cup NoConfig
  BY RegistryAssumption DEF Config, NoConfig
<1>3. FileOK
  BY <1>1, <1>2 DEF Init, FileInit, FileOK, NoConfig
<1>4. JobOK
  BY IdleIsJob, RegistryAssumption DEF Init, JobOK
<1>5. RegistryOK
  BY <1>1, <1>2, SupportedTyped DEF Init, RegistryOK
<1>6. HeldIsRegistered
  <2> SUFFICES ASSUME NEW p \in Printer PROVE refs[p] = Cardinality({c \in Client : holds[c] = p}) /\ ~(refs[p] > 0)
    BY DEF HeldIsRegistered
  <2>1. {c \in Client : holds[c] = p} = {}
    BY RegistryAssumption DEF Init
  <2> QED
    BY <2>1, FS_EmptySet DEF Init
<1>7. DeletesUnheld
  BY IdleIsJob DEF Init, DeletesUnheld, At
<1>8. FileInv
  BY <1>1 DEF Init, FileInit, FileInv, Saving, Changing, At, Idle
<1>9. SwitchInv
  <2>1. RestartIndex(disk) = First
    BY <1>1, FileAssumption DEF FileInit, RestartIndex, Config
  <2> QED
    BY <2>1 DEF Init, SwitchInv, InStep, InPlace, OwnsLock, Switched, Changing, At, Idle
<1> QED
  BY <1>3, <1>4, <1>5, <1>6, <1>7, <1>8, <1>9 DEF IInv, TypeOK

LEMMA InvariantStep == IInv /\ [Next]_vars => IInv'
<1> SUFFICES ASSUME IInv, [Next]_vars PROVE IInv'
  OBVIOUS
<1>1. ~overlapped' => ConfigInv'
  BY ConfigStep DEF IInv, ConfigInv
<1>2. FileOK' /\ JobOK' /\ HeldInv'
  BY FileStep, HeldStep DEF IInv, TypeOK, HeldInv
<1> QED
  BY <1>1, <1>2 DEF IInv, TypeOK, HeldInv, ConfigInv

\* The inductive invariant holds in every reachable state of the registry.
THEOREM Invariant == Spec => []IInv
  BY InvariantInit, InvariantStep, PTL DEF Spec

\* However saves, imports, switches, reloads and crashes fall, register_services() deletes no
\* service that a client holds, but one borrowed between unregister()'s check and its deletion.
THEOREM NeverDeletesHeld == Spec => []HeldIsRegistered
<1>1. IInv => HeldIsRegistered
  BY DEF IInv
<1> QED
  BY <1>1, Invariant, PTL

\* While no two requests change it at a time, the file is what their saves have made one after
\* the other: neither a crash in the middle of a save nor a reader costs a configuration, and no
\* save undoes another.
THEOREM KeepsConfig == Spec => []ConfigKept
<1>1. IInv => ConfigKept
  BY DEF IInv, ConfigKept, FileInv
<1> QED
  BY <1>1, Invariant, PTL

\* Between two switches a restart would select the printer that is selected, wherever the process
\* crashes and whatever is saved in between; but after an import that no switch has followed, which
\* selects the first printer in the file alone.
THEOREM RestartSelects == Spec => []RestartKeepsSelectionUnlessImported
<1>1. IInv => RestartKeepsSelectionUnlessImported
  BY DEF IInv, RestartKeepsSelectionUnlessImported, SwitchInv, Switched, OwnsLock, Changing, At
<1> QED
  BY <1>1, Invariant, PTL
=============================================================================
