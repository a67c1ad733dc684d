--------------------------- MODULE PrinterRegistry ---------------------------
(***************************************************************************)
(* The web application's configuration and the services that follow from    *)
(* it (web/__init__.py): requests that save a setting, import an account,   *)
(* switch the printer and reload, the PPPP service that saves an address it *)
(* has found, and the clients that borrow services.                         *)
(*                                                                         *)
(* Requests run in threads of their own; an action is what lies between two *)
(* uses of the file, of the registry, or of printer_switch_lock.  Of the    *)
(* services the MQTT ones are modelled, which nothing replaces; what they   *)
(* do, and restart_all(), is the subject of ServiceManager.                 *)
(***************************************************************************)
EXTENDS ConfigFile, Naturals, FiniteSets

CONSTANTS
  Printer,      \* indexes of printers
  First,        \* index 0
  Accounts,     \* the sets of supported printers an account may have
  Client,       \* websocket clients
  NoPrinter,
  MaxRequests,  \* bound: requests
  MaxCrashes    \* bound: crashes of the process

ASSUME RegistryAssumption ==
  /\ Printer \subseteq Nat /\ First \in Printer /\ Accounts \subseteq SUBSET Printer
  /\ NoPrinter \notin Printer /\ IsFiniteSet(Client) /\ IsFiniteSet(Thread)
  /\ MaxRequests \in Nat /\ MaxCrashes \in Nat

\* A configuration: the printers, the selected one, a setting, and an address.
Config == [printers : SUBSET Printer, active : Printer, rate : BOOLEAN, address : BOOLEAN]
NoConfig == {NoFile, Null}

\* No file, null, a torn file and a configuration are told apart.
ASSUME FileAssumption == NoFile # Null /\ Torn \notin NoConfig /\ {NoFile, Null, Torn} \cap Config = {}

VARIABLES
  job,         \* what each thread does
  switchLock,  \* printer_switch_lock: held
  index,       \* app.config["printer_index"]
  imported,    \* an account was imported since a switch was last accepted
  svcs,        \* printers whose service is registered
  refs,        \* references to it
  holds,       \* the service each client holds
  meant,       \* the configuration that all saves make, one after the other
  overlapped,  \* two were changing the file at a time
  late,        \* services that were borrowed while they were being deleted
  requests, crashes

registry == <<svcs, refs, holds, late>>
vars == <<file, job, switchLock, index, imported, registry, meant, overlapped, requests, crashes>>

Requests == {"setting", "address", "import", "switch", "reload"}
Reading == {"look", "load", "restore", "register"}
Idle == [req |-> "none", pc |-> "idle", from |-> "idle", arg |-> First, account |-> {},
         ip |-> FALSE, value |-> NoFile, todo |-> {}]

Places == Reading \cup {"idle", "fetch", "probe", "search", "lock", "aside", "open", "write", "replace",
                        "list", "prune", "stop", "delete", "add", "made"}
Job == [req : Requests \cup {"none"}, pc : Places, from : Reading \cup {"idle", "aside"},
        arg : Printer, account : SUBSET Printer, ip : BOOLEAN, value : Config \cup NoConfig,
        todo : SUBSET Printer]

\* What the variables may hold; a torn file is never loaded.
FileOK ==
  /\ disk \in Config \cup NoConfig \cup {Torn} /\ temp \in Config \cup NoConfig \cup {Torn}
  /\ handle \in [Thread -> {"none", "temp", "disk", "gone"}]
  /\ meant \in Config \cup NoConfig /\ imported \in BOOLEAN
JobOK == job \in [Thread -> Job] /\ index \in Printer
RegistryOK ==
  /\ svcs \subseteq Printer /\ late \subseteq Printer
  /\ refs \in [Printer -> Nat] /\ holds \in [Client -> Printer \cup {NoPrinter}]
TypeOK == FileOK /\ JobOK /\ RegistryOK

Supported(config) == IF config \in NoConfig THEN {} ELSE config.printers

Init ==
  /\ \E config \in {NoFile} \cup [printers : Accounts, active : {First}, rate : {TRUE}, address : {FALSE}] :
       FileInit(config) /\ meant = config /\ svcs = Supported(config)
  /\ job = [t \in Thread |-> Idle] /\ switchLock = FALSE /\ index = First /\ imported = FALSE
  /\ refs = [p \in Printer |-> 0] /\ holds = [c \in Client |-> NoPrinter] /\ late = {}
  /\ overlapped = FALSE /\ requests = 0 /\ crashes = 0

-----------------------------------------------------------------------------
\* What a request makes of a configuration.

\* merge_config_preferences(): of the settings, some are kept.
Import(account, old) ==
  [printers |-> account, active |-> First, rate |-> old \notin NoConfig /\ old.rate, address |-> FALSE]

\* The save that replaces the account; the other one of an import gives addresses back.
Imports(j) == j.req = "import" /\ j.from = "load"

\* Mutant: the switch leaves the configuration as it is.
Edit_SwitchForgets(j, config) ==
  IF Imports(j) THEN Import(j.account, config)
  ELSE IF config \in NoConfig THEN Null
  ELSE CASE j.req = "setting" -> [config EXCEPT !.rate = ~@]
         [] j.req = "switch" -> config
         [] j.req = "import" -> [config EXCEPT !.address = j.ip]
         [] OTHER -> [config EXCEPT !.address = TRUE]

\* Without a configuration a setting is refused, and null is saved all the same.
Edit(j, config) ==
  IF Imports(j) THEN Import(j.account, config)
  ELSE IF config \in NoConfig THEN Null
  ELSE CASE j.req = "setting" -> [config EXCEPT !.rate = ~@]
         [] j.req = "switch" -> [config EXCEPT !.active = j.arg]
         [] j.req = "import" -> [config EXCEPT !.address = j.ip]
         [] OTHER -> [config EXCEPT !.address = TRUE]

At(t, pc) == job[t].pc = pc

Unlocks(t) == switchLock' = (switchLock /\ job[t].req # "switch")
Ends(t) == job' = [job EXCEPT ![t] = Idle] /\ Unlocks(t) /\ UNCHANGED index
Goes(t, j) == job' = [job EXCEPT ![t] = j] /\ UNCHANGED <<switchLock, index>>
To(t, pc) == [job[t] EXCEPT !.pc = pc]
Saves(t, raw) ==
  LET j == [job[t] EXCEPT !.pc = "open", !.from = job[t].pc, !.ip = (raw \notin NoConfig /\ raw.address) \/ @]
      from == IF At(t, "aside") THEN [j EXCEPT !.from = job[t].from] ELSE j
  IN Goes(t, [from EXCEPT !.value = Edit(from, raw)])

\* From the read of what is saved to the save: another change in between is lost, or torn.
Changing == {t \in Thread : job[t].pc \in {"open", "write", "replace"}}
Overlaps == overlapped' = (overlapped \/ Cardinality(Changing') > 1)

-----------------------------------------------------------------------------
\* load(), and what each request does with it; "now" is where the request is.

Looks(t, raw) == IF raw \in NoConfig THEN Ends(t) ELSE Goes(t, To(t, "load"))

Loads(t, raw) ==
  CASE job[t].req = "import" /\ raw = Null -> Ends(t)      \* get_printer_ips() fails
    [] job[t].req \in {"address", "switch"} /\ raw \in NoConfig -> Ends(t)
    [] OTHER -> Saves(t, raw)

Restores(t, raw) == IF raw \in NoConfig THEN Ends(t) ELSE Saves(t, raw)

\* The switch: a printer there is, and another one than before.  What an import has
\* selected in the file alone is superseded by it.
Switches(t, raw) ==
  IF job[t].arg \notin Supported(raw) \/ job[t].arg = index THEN Ends(t)
  ELSE index' = job[t].arg /\ job' = [job EXCEPT ![t].pc = "load"] /\ UNCHANGED switchLock

\* The services of printers that are gone are pruned, the missing ones are made.
Registers(t, raw) ==
  IF raw \in NoConfig THEN Ends(t)
  ELSE Goes(t, [To(t, "list") EXCEPT !.account = raw.printers])

Reloads(t, raw) == IF raw \in NoConfig \/ svcs # {} THEN Ends(t) ELSE Goes(t, To(t, "register"))

Loaded(t, now, raw) ==
  \/ now = "look" /\ job[t].req = "switch" /\ Switches(t, raw)
  \/ now = "look" /\ job[t].req = "reload" /\ Reloads(t, raw)
  \/ now = "look" /\ job[t].req = "address" /\ Looks(t, raw)
  \/ now = "load" /\ Loads(t, raw)
  \/ now = "restore" /\ Restores(t, raw)
  \/ now = "register" /\ Registers(t, raw)

Load(t) ==
  /\ job[t].pc \in Reading
  /\ IF disk = Torn THEN Goes(t, [To(t, "aside") EXCEPT !.from = job[t].pc])
     ELSE Loaded(t, job[t].pc, disk)
  /\ imported' = (imported /\ index' = index)
  /\ Overlaps /\ UNCHANGED <<file, registry, meant, requests, crashes>>

\* The corrupt file is moved aside and a default is used.
Aside(t) ==
  /\ At(t, "aside") /\ MoveAside /\ Loaded(t, job[t].from, NoFile)
  /\ Overlaps /\ UNCHANGED <<imported, registry, meant, requests, crashes>>

-----------------------------------------------------------------------------
\* save()

SaveOpen(t) ==
  /\ At(t, "open") /\ SaveOpens(t) /\ Goes(t, To(t, "write"))
  /\ Overlaps /\ UNCHANGED <<imported, registry, meant, requests, crashes>>

SaveWrite(t) ==
  /\ At(t, "write") /\ SaveWrites(t, job[t].value) /\ Goes(t, To(t, "replace"))
  /\ Overlaps /\ UNCHANGED <<imported, registry, meant, requests, crashes>>

\* An import gives the addresses back that were known; a switch goes on to the services.
Saved(t) ==
  CASE job[t].req = "import" /\ job[t].from = "load" -> Goes(t, To(t, "restore"))
    [] job[t].req = "switch" -> Goes(t, To(t, "register"))
    [] OTHER -> Ends(t)

SaveReplace(t) ==
  /\ At(t, "replace")
  /\ IF CanReplace
     THEN /\ SaveReplaces /\ Saved(t) /\ meant' = Edit(job[t], meant)
          /\ imported' = (imported \/ Imports(job[t]))
     ELSE Ends(t) /\ UNCHANGED <<file, meant, imported>>
  /\ Overlaps /\ UNCHANGED <<registry, requests, crashes>>

-----------------------------------------------------------------------------
\* register_services()

Quiet == UNCHANGED <<file, meant, imported, overlapped, requests, crashes>>

List(t) ==
  /\ At(t, "list") /\ Goes(t, [To(t, "prune") EXCEPT !.todo = svcs \ job[t].account])
  /\ UNCHANGED registry /\ Quiet

\* A service in use is left alone, another one is told to stop.
Prune(t) ==
  /\ At(t, "prune") /\ job[t].todo # {}
  /\ \E p \in job[t].todo :
       Goes(t, [job[t] EXCEPT !.pc = IF refs[p] > 0 THEN "prune" ELSE "stop",
                              !.todo = @ \ {p}, !.arg = p])
  /\ UNCHANGED registry /\ Quiet

\* Mutant: unregister() does not look at the references.
Unregister_Held(t) ==
  /\ At(t, "stop")
  /\ IF job[t].arg \notin svcs THEN Ends(t) ELSE Goes(t, To(t, "delete"))
  /\ UNCHANGED registry /\ Quiet

\* When it has stopped it is unregistered, unless somebody has borrowed it since.
Unregister(t) ==
  /\ At(t, "stop")
  /\ IF job[t].arg \notin svcs \/ refs[job[t].arg] > 0 THEN Ends(t) ELSE Goes(t, To(t, "delete"))
  /\ UNCHANGED registry /\ Quiet

Delete(t) ==
  /\ At(t, "delete")
  /\ IF job[t].arg \in svcs
     THEN Goes(t, To(t, "prune")) /\ svcs' = svcs \ {job[t].arg} /\ refs' = [refs EXCEPT ![job[t].arg] = 0]
     ELSE Ends(t) /\ UNCHANGED <<svcs, refs>>
  /\ UNCHANGED <<holds, late>> /\ Quiet

Pruned(t) ==
  /\ At(t, "prune") /\ job[t].todo = {}
  /\ Goes(t, [To(t, "add") EXCEPT !.todo = job[t].account])
  /\ UNCHANGED registry /\ Quiet

\* A service is made, then registered, which fails if another thread was faster.
Make(t) ==
  /\ At(t, "add")
  /\ \E p \in job[t].todo :
       Goes(t, [job[t] EXCEPT !.pc = IF p \in svcs THEN "add" ELSE "made", !.todo = @ \ {p}, !.arg = p])
  /\ UNCHANGED registry /\ Quiet

Register(t) ==
  /\ At(t, "made")
  /\ IF job[t].arg \in svcs THEN Ends(t) /\ UNCHANGED svcs
     ELSE svcs' = svcs \cup {job[t].arg} /\ Goes(t, To(t, "add"))
  /\ UNCHANGED <<refs, holds, late>> /\ Quiet

Registered(t) ==
  /\ At(t, "add") /\ job[t].todo = {} /\ Ends(t)
  /\ UNCHANGED registry /\ Quiet

-----------------------------------------------------------------------------
\* Requests, clients, and the process.

Request(t, j) ==
  /\ At(t, "idle") /\ requests < MaxRequests /\ requests' = requests + 1 /\ Goes(t, j)
  /\ UNCHANGED <<file, imported, registry, meant, overlapped, crashes>>

Setting(t) == Request(t, [Idle EXCEPT !.req = "setting", !.pc = "load"])
Address(t) == Request(t, [Idle EXCEPT !.req = "address", !.pc = "probe"])
Reload(t) == Request(t, [Idle EXCEPT !.req = "reload", !.pc = "look"])
Switch(t) == \E p \in Printer : Request(t, [Idle EXCEPT !.req = "switch", !.pc = "lock", !.arg = p])
ImportAccount(t) ==
  \E account \in Accounts : Request(t, [Idle EXCEPT !.req = "import", !.pc = "fetch", !.account = account])

\* load_config_from_api(): the server answers with the printers, or with an error.
Fetch(t) ==
  /\ At(t, "fetch") /\ (Goes(t, To(t, "load")) \/ Ends(t))
  /\ UNCHANGED registry /\ Quiet

\* probe_printer_ip(): nothing is searched while the printer answers at its saved address.
Probe(t) ==
  /\ At(t, "probe") /\ (Goes(t, To(t, "search")) \/ (disk \in Config /\ disk.address /\ Ends(t)))
  /\ UNCHANGED registry /\ Quiet

\* lan_search(): the printer is found, or the saved address is used as it is.
Search(t) ==
  /\ At(t, "search") /\ (Goes(t, To(t, "look")) \/ Ends(t))
  /\ UNCHANGED registry /\ Quiet

Lock(t) ==
  /\ At(t, "lock") /\ ~switchLock /\ switchLock' = TRUE
  /\ job' = [job EXCEPT ![t].pc = "look"] /\ UNCHANGED <<index, registry>> /\ Quiet

\* get() and put(); a service may be deleted between the check of the references and that.
Borrow(c) ==
  /\ holds[c] = NoPrinter
  /\ \E p \in svcs :
       /\ holds' = [holds EXCEPT ![c] = p] /\ refs' = [refs EXCEPT ![p] = @ + 1]
       /\ late' = IF \E t \in Thread : At(t, "delete") /\ job[t].arg = p THEN late \cup {p} ELSE late
  /\ UNCHANGED <<job, switchLock, index, svcs>> /\ Quiet

Return(c) ==
  /\ holds[c] # NoPrinter /\ holds' = [holds EXCEPT ![c] = NoPrinter]
  /\ refs' = IF holds[c] \in svcs /\ refs[holds[c]] > 0 THEN [refs EXCEPT ![holds[c]] = @ - 1] ELSE refs
  /\ UNCHANGED <<job, switchLock, index, svcs, late>> /\ Quiet

InRange(i, config) == \E p \in config.printers : i <= p

\* webserver(): a new process takes up the selection if the account still has the printer.
RestartIndex(config) ==
  IF config \in Config /\ InRange(config.active, config) THEN config.active ELSE First

Crash ==
  /\ crashes < MaxCrashes /\ crashes' = crashes + 1
  /\ FileCrash /\ disk' = (IF disk = Torn THEN NoFile ELSE disk) 
  /\ index' = RestartIndex(disk') /\ svcs' = Supported(disk')
  /\ job' = [t \in Thread |-> Idle] /\ switchLock' = FALSE /\ imported' = FALSE
  /\ refs' = [p \in Printer |-> 0] /\ holds' = [c \in Client |-> NoPrinter] /\ late' = {}
  /\ UNCHANGED <<meant, overlapped, requests>>

Next ==
  \/ \E t \in Thread :
       \/ Setting(t) \/ Address(t) \/ Reload(t) \/ Switch(t) \/ ImportAccount(t)
       \/ Fetch(t) \/ Probe(t) \/ Search(t) \/ Lock(t) \/ Load(t) \/ Aside(t)
       \/ SaveOpen(t) \/ SaveWrite(t) \/ SaveReplace(t)
       \/ List(t) \/ Prune(t) \/ Unregister(t) \/ Delete(t) \/ Pruned(t) \/ Make(t) \/ Register(t) \/ Registered(t)
  \/ \E c \in Client : Borrow(c) \/ Return(c)
  \/ Crash

Spec == Init /\ [][Next]_vars

-----------------------------------------------------------------------------
\* Properties.

\* As long as no two changes overlap, the file holds what the saves have made one
\* after the other: neither a crash in the middle of a save nor a reader costs a
\* configuration (save() and load() of cli/config.py).
ConfigKept == ~overlapped => disk = meant

\* A service that a client holds stays registered, and its references are counted,
\* while register_services() prunes; but for the moment between unregister()'s
\* check of the references and the deletion.
HeldIsRegistered ==
  \A p \in Printer \ late :
    /\ refs[p] = Cardinality({c \in Client : holds[c] = p})
    /\ refs[p] > 0 => p \in svcs

\* The selection in the file is the one in memory, or an import has made its own.
InStep == RestartIndex(disk) = index \/ (imported /\ RestartIndex(disk) = First)

\* The printer that a restart would select is the selected one: a switch that was accepted
\* is in the file too, over settings, crashes and services that fail to register.  Excepted
\* is an import that no switch has followed: it selects the first printer in the file
\* (cli/config.py) and leaves the selection in memory alone.
RestartKeepsSelectionUnlessImported == ~overlapped /\ ~switchLock => InStep

\* What makes HeldIsRegistered inductive: nobody holds a service that is about to be deleted.
DeletesUnheld == \A t \in Thread : At(t, "delete") /\ job[t].arg \notin late => refs[job[t].arg] = 0

\* What makes ConfigKept inductive, while no two changes overlap: one thread is changing
\* the file, it has made its change of what the file holds, and the temporary file is its own.
Saving(t) ==
  /\ job[t].pc # "aside" /\ handle[t] = IF At(t, "write") THEN "temp" ELSE "none"
  /\ t \in Changing => job[t].value = Edit(job[t], disk)
  /\ At(t, "write") => temp = Torn
  /\ At(t, "replace") => temp = job[t].value
FileInv == disk = meant /\ \A t \in Thread : Saving(t) /\ \A u \in Changing : t \in Changing => t = u

\* And RestartKeepsSelectionUnlessImported: the lock is held for one switch, whose printer is selected
\* before it is saved.
InPlace(t) ==
  /\ job[t].pc \in {"fetch", "restore"} => job[t].req = "import"
  /\ job[t].pc = "idle" => job[t].req = "none"
Switched(t) == job[t].req = "switch" /\ (At(t, "load") \/ t \in Changing)
OwnsLock(t) == job[t].req = "switch" /\ ~At(t, "lock")
SwitchInv ==
  /\ \A t \in Thread : InPlace(t)
  /\ \A t \in Thread : OwnsLock(t) => switchLock /\ \A u \in Thread : OwnsLock(u) => u = t
  /\ \A t \in Thread : Switched(t) => job[t].arg = index
  /\ \A t \in Thread : Switched(t) => imported \/ job[t].arg \in Supported(disk)
  /\ InStep \/ \E t \in Thread : Switched(t)

IInv == TypeOK /\ HeldIsRegistered /\ DeletesUnheld /\ (~overlapped => FileInv /\ SwitchInv)
=============================================================================
