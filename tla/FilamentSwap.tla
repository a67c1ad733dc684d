----------------------------- MODULE FilamentSwap -----------------------------
(***************************************************************************)
(* The guided filament swap of one printer (web/__init__.py): the routes    *)
(* that start, confirm and cancel it, the state they share under            *)
(* filament_swap_lock, and the worker threads that drive the printer.       *)
(*                                                                         *)
(* An action is what lies between two waits or two uses of the lock; what    *)
(* the commands say is left out, but for the heater they turn on or off.    *)
(* Tokens, which are random, are numbered in the order they are drawn.      *)
(***************************************************************************)
EXTENDS Naturals, Sequences

CONSTANTS
  Request,    \* clients whose requests may overlap
  Worker,     \* worker threads that may be alive, or known, together
  NoWorker,   \* none
  MaxSwaps,   \* bound: swaps that are started
  MaxFaults   \* bound: nozzles that stay cold, commands that fail

ASSUME SwapAssumption ==
  MaxSwaps \in Nat /\ MaxFaults \in Nat /\ NoWorker \notin Worker

NoSwap == [token |-> 0, mode |-> "none", phase |-> "none"]
Modes == {"legacy", "manual"}
RunningPhases == {"homing", "heating_unload", "priming_unload", "unloading", "heating_load",
                  "loading", "cooling_down"}

\* What a worker announces, what it sends, and what it then waits for.
Step(phase, sends, awaits) == [phase |-> phase, sends |-> sends, awaits |-> awaits]
Program == [
  unload |-> << Step("heating_unload", "heat", "nozzle"), Step("heating_unload", "heat", "target"),
                Step("homing", "home", "time"), Step("heating_unload", "heat", "target"),
                Step("homing", "lift", "time"), Step("homing", "heat", "target"),
                Step("heating_unload", "nothing", "nozzle"),
                Step("priming_unload", "extrude", "time"), Step("unloading", "extrude", "time") >>,
  load |-> << Step("heating_load", "heat", "nozzle"), Step("loading", "extrude", "time"),
              Step("cooling_down", "cool", "nothing") >> ]

VARIABLES
  swap,        \* filament_swap_state of the printer
  tokens,      \* the tokens drawn
  worker,      \* the threads: the stage they run, their token, where they are, and whether a cancel
               \* gave up on them while they waited for the service (late, kept for the properties)
  registered,  \* filament_swap_threads of the printer
  request,     \* where each client's request is, its token, the thread it started or joins
  heater,      \* off, on for a swap, on for the user, left on with a warning, or turned on late
  printing,    \* is_printing of the MQTT service
  faults

vars == <<swap, tokens, worker, registered, request, heater, printing, faults>>

Asleep == [stage |-> "none", token |-> 0, pc |-> "dead", step |-> 0, late |-> FALSE]
Quiet == [pc |-> "idle", token |-> 0, thread |-> NoWorker]
Threads == Worker \cup {NoWorker}

Swap == [token : 0..MaxSwaps, mode : Modes \cup {"none"},
         phase : RunningPhases \cup {"none", "await_manual_swap", "error"}]
Driver == [stage : {"none", "unload", "load"}, token : 0..MaxSwaps, step : 0..9, late : BOOLEAN,
           pc : {"dead", "begin", "borrow", "send", "wait", "delay", "crashed"}]
Route == [pc : {"idle", "legacy", "manual", "confirming", "confirmed", "register", "cancelling", "cooling"},
          token : 0..MaxSwaps, thread : Threads]

\* Types; a manual swap is never driven by a worker.
TypeOK ==
  /\ swap \in Swap /\ tokens \in 0..MaxSwaps /\ faults \in 0..MaxFaults
  /\ worker \in [Worker -> Driver] /\ registered \in Threads
  /\ request \in [Request -> Route]
  /\ heater \in {"off", "swap", "user", "left", "late"} /\ printing \in BOOLEAN
  /\ swap.mode = "manual" => swap.phase = "await_manual_swap"

Init ==
  /\ swap = NoSwap /\ tokens = 0 /\ registered = NoWorker
  /\ worker = [w \in Worker |-> Asleep] /\ request = [r \in Request |-> Quiet]
  /\ heater = "off" /\ printing = FALSE /\ faults = 0

-----------------------------------------------------------------------------
\* The shared state, under the lock.

\* _filament_swap_state_get(), _update(), _clear() with a token
Live(t) == swap.token = t /\ t # 0
Mark(t, phase) == swap' = IF Live(t) THEN [swap EXCEPT !.phase = phase] ELSE swap
Clear(t) == swap' = IF Live(t) THEN NoSwap ELSE swap

Alive(w) == w # NoWorker /\ worker[w].pc # "dead"
Fault == faults < MaxFaults /\ faults' = faults + 1

\* What a command does to the heater, which it may turn on for somebody.
Heats(command, whom) ==
  heater' = CASE command = "heat" -> whom [] command = "cool" -> "off" [] OTHER -> heater
Sent(command) == Heats(command, "swap")

-----------------------------------------------------------------------------
\* The worker threads, _run_legacy_swap_unload() and _run_legacy_swap_load().

Current(w) == Program[worker[w].stage][worker[w].step]
Becomes(w, pc) == worker' = [worker EXCEPT ![w].pc = pc]
Ends(w) == worker' = [worker EXCEPT ![w] = Asleep]
WorkerElse == <<tokens, registered, request, printing>>

\* Cancelled before it began, or it turns to borrow_mqtt(), which waits until the service runs.
WorkerBegins(w) ==
  /\ worker[w].pc = "begin"
  /\ IF Live(worker[w].token) THEN Becomes(w, "borrow") ELSE Ends(w)
  /\ UNCHANGED <<swap, heater, faults, WorkerElse>>

\* The service is there.  A print is active, or the first step is next; only the load looks once
\* more whether the swap is cancelled.
WorkerIsServed(w) ==
  /\ worker[w].pc = "borrow"
  /\ CASE printing -> Ends(w) /\ Mark(worker[w].token, "error")
       [] ~printing /\ worker[w].stage = "load" /\ ~Live(worker[w].token) -> Ends(w) /\ UNCHANGED swap
       [] OTHER -> worker' = [worker EXCEPT ![w].pc = "send", ![w].step = 1] /\ UNCHANGED swap
  /\ UNCHANGED <<heater, faults, WorkerElse>>

\* The phase is announced, if the swap is still there; the command is sent in any case.
\* Before the cooldown lies a delay in which nobody looks whether the swap is cancelled.
WorkerSends(w) ==
  /\ worker[w].pc = "send"
  /\ Mark(worker[w].token, Current(w).phase)
  /\ IF Current(w).sends = "cool"
       THEN Becomes(w, "delay") /\ UNCHANGED heater
       ELSE Becomes(w, "wait") /\ Heats(Current(w).sends, IF worker[w].late THEN "late" ELSE "swap")
  /\ UNCHANGED <<faults, WorkerElse>>

\* The wait is over: on to the next step.
WorkerGoesOn(w) ==
  /\ worker[w].pc = "wait" /\ Live(worker[w].token)
  /\ IF worker[w].step = Len(Program[worker[w].stage])
       THEN Ends(w) /\ Mark(worker[w].token, "await_manual_swap")
       ELSE worker' = [worker EXCEPT ![w].pc = "send", ![w].step = @ + 1] /\ UNCHANGED swap
  /\ UNCHANGED <<heater, faults, WorkerElse>>

\* _FilamentSwapCancelled.  After the purge has started the nozzle is cooled first.
WorkerIsCancelled(w) ==
  /\ worker[w].pc = "wait" /\ ~Live(worker[w].token)
  /\ IF Current(w).phase = "loading"
       THEN worker' = [worker EXCEPT ![w].pc = "delay", ![w].step = @ + 1]
       ELSE Ends(w)
  /\ UNCHANGED <<swap, heater, faults, WorkerElse>>

\* Cooled down, the swap is over.
WorkerCools(w) ==
  /\ worker[w].pc = "delay"
  /\ Sent("cool") /\ Ends(w) /\ Clear(worker[w].token)
  /\ UNCHANGED <<faults, WorkerElse>>

\* The service is asked, for itself, for a command, or for the temperature that is waited for.
Asks(w) ==
  \/ worker[w].pc \in {"borrow", "send", "delay"}
  \/ worker[w].pc = "wait" /\ Current(w).awaits \in {"nozzle", "target"}

\* RuntimeError, TimeoutError, ConnectionError: no service, a command fails, the nozzle stays cold.
WorkerFails(w) ==
  /\ Fault /\ Asks(w)
  /\ Ends(w) /\ Mark(worker[w].token, "error")
  /\ UNCHANGED <<heater, WorkerElse>>

\* Mutant: nobody learns of it.
WorkerCrashes_Silent(w) ==
  /\ Fault /\ Asks(w)
  /\ Becomes(w, "crashed")
  /\ UNCHANGED <<swap, heater, WorkerElse>>

\* Any other exception, such as the service's stop: after the phase, the heater is seen to.
WorkerCrashes(w) ==
  /\ Fault /\ Asks(w)
  /\ Becomes(w, "crashed") /\ Mark(worker[w].token, "error")
  /\ UNCHANGED <<heater, WorkerElse>>

CrashedCools(w) ==
  /\ worker[w].pc = "crashed" /\ Ends(w)
  /\ \/ Sent("cool") /\ UNCHANGED faults
     \/ Fault /\ UNCHANGED heater
  /\ UNCHANGED <<swap, WorkerElse>>

WorkerSteps(w) ==
  \/ WorkerBegins(w) \/ WorkerIsServed(w) \/ WorkerSends(w) \/ WorkerGoesOn(w) \/ WorkerIsCancelled(w)
  \/ WorkerCools(w) \/ CrashedCools(w)

-----------------------------------------------------------------------------
\* The routes.

At(r, pc) == request[r].pc = pc
Goes(r, pc, t, w) == request' = [request EXCEPT ![r] = [pc |-> pc, token |-> t, thread |-> w]]
Answers(r) == request' = [request EXCEPT ![r] = Quiet]

Started(r) == request[r].pc \in Modes  \* of the swap it has set up

\* A thread object of its own, known to nobody yet.
Unused(w) == ~Alive(w) /\ w # registered /\ \A r \in Request : request[r].thread # w
Spawn(r, stage, t) ==
  \E w \in Worker :
    /\ Unused(w)
    /\ worker' = [worker EXCEPT ![w] = [stage |-> stage, token |-> t, pc |-> "begin", step |-> 0,
                                        late |-> FALSE]]
    /\ Goes(r, "register", t, w)

\* Mutant: a thread of the last swap that is still alive does not matter.
StartRegisters_Alive(r, mode) ==
  /\ At(r, "idle") /\ tokens < MaxSwaps /\ swap = NoSwap
  /\ tokens' = tokens + 1 /\ Goes(r, mode, tokens + 1, NoWorker)
  /\ swap' = [token |-> tokens + 1, mode |-> mode,
              phase |-> IF mode = "legacy" THEN "homing" ELSE "await_manual_swap"]
  /\ UNCHANGED <<worker, registered, heater, printing, faults>>

\* swap/start: _filament_swap_state_set_if_absent()
StartRegisters(r, mode) ==
  /\ At(r, "idle") /\ tokens < MaxSwaps
  /\ swap = NoSwap /\ ~Alive(registered)
  /\ tokens' = tokens + 1 /\ Goes(r, mode, tokens + 1, NoWorker)
  /\ swap' = [token |-> tokens + 1, mode |-> mode,
              phase |-> IF mode = "legacy" THEN "homing" ELSE "await_manual_swap"]
  /\ UNCHANGED <<worker, registered, heater, printing, faults>>

StartGoes(r) ==
  /\ Started(r) /\ ~printing
  /\ IF At(r, "legacy") THEN Spawn(r, "unload", request[r].token) /\ UNCHANGED heater
     ELSE Sent("heat") /\ Answers(r) /\ UNCHANGED worker
  /\ UNCHANGED <<swap, tokens, registered, printing, faults>>

\* A print is active, or there is no MQTT.
StartRefused(r) ==
  /\ Started(r)
  /\ \/ printing /\ UNCHANGED faults
     \/ Fault
  /\ Clear(request[r].token) /\ Answers(r)
  /\ UNCHANGED <<tokens, worker, registered, heater, printing>>

\* _filament_swap_start_background() registers the thread that runs.
Registers(r) ==
  /\ At(r, "register") /\ registered' = request[r].thread /\ Answers(r)
  /\ UNCHANGED <<swap, tokens, worker, heater, printing, faults>>

\* swap/confirm: a manual swap is over, and the heater the user's.
ConfirmLooks(r) ==
  /\ At(r, "idle") /\ swap # NoSwap /\ swap.phase \notin RunningPhases
  /\ IF swap.mode = "manual"
       THEN /\ swap' = NoSwap /\ UNCHANGED request
            /\ heater' = IF heater = "swap" THEN "user" ELSE heater
       ELSE Goes(r, "confirming", swap.token, NoWorker) /\ UNCHANGED <<swap, heater>>
  /\ UNCHANGED <<tokens, worker, registered, printing, faults>>

ConfirmMarks(r) ==
  /\ At(r, "confirming") /\ Mark(request[r].token, "heating_load")
  /\ Goes(r, "confirmed", request[r].token, NoWorker)
  /\ UNCHANGED <<tokens, worker, registered, heater, printing, faults>>

ConfirmGoes(r) ==
  /\ At(r, "confirmed") /\ ~printing /\ Spawn(r, "load", request[r].token)
  /\ UNCHANGED <<swap, tokens, registered, heater, printing, faults>>

ConfirmRefused(r) ==
  /\ At(r, "confirmed")
  /\ \/ printing /\ UNCHANGED faults
     \/ Fault
  /\ Mark(request[r].token, "error") /\ Answers(r)
  /\ UNCHANGED <<tokens, worker, registered, heater, printing>>

\* The MQTT service stops under a route that waits for it: borrow_mqtt() raises
\* ServiceStoppedError, which neither route catches.
RouteRaises(r) ==
  /\ (Started(r) \/ At(r, "confirmed")) /\ Answers(r)
  /\ UNCHANGED <<swap, tokens, worker, registered, heater, printing, faults>>

\* swap/cancel
CancelClears(r) ==
  /\ At(r, "idle") /\ swap # NoSwap
  /\ swap' = NoSwap /\ Goes(r, "cancelling", swap.token, registered)
  /\ UNCHANGED <<tokens, worker, registered, heater, printing, faults>>

\* Mutant: nobody waits for the worker.
CancelJoins_AtOnce(r) ==
  /\ At(r, "cancelling") /\ UNCHANGED registered
  /\ Goes(r, "cooling", request[r].token, NoWorker)
  /\ UNCHANGED <<swap, tokens, worker, heater, printing, faults>>

\* join() is over, and a thread that ended forgotten.  Its timeout may be outlasted by a thread that
\* waits for the service, before its first command or after a crash, and by the delay before a
\* cooldown; whoever waits for anything else looks at the swap twice a second.
CancelJoins(r) ==
  /\ At(r, "cancelling")
  /\ Alive(request[r].thread) => worker[request[r].thread].pc \in {"borrow", "delay", "crashed"}
  /\ worker' = [w \in Worker |->
       IF w = request[r].thread /\ worker[w].pc = "borrow" THEN [worker[w] EXCEPT !.late = TRUE] ELSE worker[w]]
  /\ registered' = IF registered = request[r].thread /\ ~Alive(registered) THEN NoWorker
                   ELSE registered
  /\ Goes(r, "cooling", request[r].token, NoWorker)
  /\ UNCHANGED <<swap, tokens, heater, printing, faults>>

\* Sent whether or not a print is active; a failure is logged.
CancelCools(r) ==
  /\ At(r, "cooling") /\ Answers(r)
  /\ \/ Sent("cool") /\ UNCHANGED faults
     \/ Fault /\ heater' = IF heater = "swap" THEN "left" ELSE heater
  /\ UNCHANGED <<swap, tokens, worker, registered, printing>>

-----------------------------------------------------------------------------
\* The other filament routes, preheat, move and apply, and the printer.
Preheat ==
  /\ ~printing /\ heater' = "user"
  /\ UNCHANGED <<swap, tokens, worker, registered, request, printing, faults>>

PrintToggles ==
  /\ printing' = ~printing
  /\ UNCHANGED <<swap, tokens, worker, registered, request, heater, faults>>

RouteSteps(r) ==
  \/ StartGoes(r) \/ StartRefused(r) \/ Registers(r) \/ ConfirmMarks(r) \/ ConfirmGoes(r) \/ ConfirmRefused(r)
  \/ CancelJoins(r) \/ CancelCools(r)

Next ==
  \/ \E w \in Worker : WorkerSteps(w) \/ WorkerFails(w) \/ WorkerCrashes(w)
  \/ \E r \in Request :
       \/ \E mode \in Modes : StartRegisters(r, mode)
       \/ ConfirmLooks(r) \/ CancelClears(r) \/ RouteRaises(r) \/ RouteSteps(r)
  \/ Preheat \/ PrintToggles

Spec == Init /\ [][Next]_vars

\* Threads run, and a request that has been made is answered.
FairSpec ==
  /\ Spec
  /\ \A w \in Worker : WF_vars(WorkerSteps(w))
  /\ \A r \in Request : WF_vars(RouteSteps(r))

-----------------------------------------------------------------------------
\* A swap that is over and answered for leaves no heater on, but for a cancel that said so, and
\* for a worker that still waited for the service when a cancel gave up joining it.
NoHeatLeftUnlessLate ==
  swap = NoSwap /\ (\A w \in Worker : ~Alive(w)) /\ (\A r \in Request : At(r, "idle"))
    => heater # "swap"

\* Two threads never drive the printer together.
Driving == {w \in Worker : worker[w].pc \in {"begin", "borrow", "send", "wait", "delay"}}
OneDriver == \A w, v \in Driving : w = v

\* Once a cancel has been answered, its swap's worker only cools the nozzle, but for the first
\* command of an unload that waited for the service when the cancel gave up joining it.
CancelStopsUnlessLate ==
  [][\A w \in Worker :
       WorkerSends(w) /\ ~Live(worker[w].token) /\ (\A r \in Request : ~At(r, "cancelling"))
         => \/ Current(w).sends = "cool"
            \/ worker[w].late /\ worker[w].stage = "unload" /\ worker[w].step = 1]_vars

\* A swap that a worker drives comes out of its running phase, in which it can be neither confirmed
\* nor started anew: the worker ends, fails, crashes or is cancelled.
SwapComesToRest ==
  swap.phase \in RunningPhases /\ Driving # {} ~> swap.phase \notin RunningPhases

\* A worker's command never reaches the printer after a later swap has begun.
SwapsInOrder ==
  [][\A w \in Worker : WorkerSends(w) \/ WorkerCools(w) => worker[w].token = tokens]_vars

-----------------------------------------------------------------------------
\* What makes OneDriver and SwapsInOrder inductive, as long as requests do not overlap.

OneClient == \A r, q \in Request : r = q
Setting(r) == request[r].pc \in {"legacy", "manual", "confirming", "confirmed"}

\* A worker that drives is at a step of its program.
AtSteps ==
  \A w \in Driving :
    /\ worker[w].stage \in DOMAIN Program
    /\ worker[w].pc \notin {"begin", "borrow"} => worker[w].step \in 1 .. Len(Program[worker[w].stage])

\* Who drives, and who is about to have a worker, belongs to the last swap.
OfLastSwap ==
  /\ swap # NoSwap => swap.token = tokens /\ tokens # 0 /\ swap.mode \in Modes
  /\ \A w \in Driving : worker[w].token = tokens /\ tokens # 0
  /\ \A r \in Request : Setting(r) => request[r].token = tokens /\ tokens # 0

\* Who drives is registered, or about to be; nobody drives while a stage is being set up.
Known ==
  /\ \A w \in Driving : w = registered \/ \E r \in Request : At(r, "register")
  /\ \A r \in Request, w \in Driving : ~Setting(r) /\ (At(r, "register") => request[r].thread = w)

\* The phase shows that a worker drives; a manual swap has none.
PhaseShows ==
  swap # NoSwap =>
    /\ Driving # {} => swap.phase \in RunningPhases /\ swap.mode = "legacy"
    /\ \A r \in Request :
         /\ At(r, "legacy") \/ At(r, "confirmed") => swap.phase \in RunningPhases
         /\ At(r, "legacy") \/ At(r, "confirming") \/ At(r, "confirmed") => swap.mode = "legacy"

DriveInv == TypeOK /\ AtSteps /\ OfLastSwap /\ Known /\ PhaseShows

\* A worker that may yet turn the heater on, as part of its swap.
MayHeat(w) == worker[w].pc \in {"begin", "borrow", "send", "wait"} /\ ~worker[w].late

\* What makes the two others inductive.  Somebody is left who turns the heater off, and a start finds
\* it off; a worker that goes on after its swap is over is being waited for, by a cancel that joins
\* it, or is late.
HeatInv ==
  /\ heater = "swap" => swap # NoSwap \/ \E r \in Request : At(r, "cancelling") \/ At(r, "cooling")
  /\ \A r \in Request :
       /\ Started(r) => heater # "swap"
       /\ Setting(r) => swap # NoSwap
       /\ At(r, "cancelling") => request[r].thread = registered /\ swap = NoSwap
  /\ \A w \in Worker : MayHeat(w) /\ swap = NoSwap => \E r \in Request : At(r, "cancelling")

\* A worker that is late has no swap, and gets no further than the first command of an unload.
LateInv ==
  \A w \in Worker : worker[w].late =>
    /\ worker[w].pc \in {"borrow", "send", "wait", "crashed"}
    /\ worker[w].pc # "crashed" => swap = NoSwap
    /\ worker[w].pc \in {"send", "wait"} => worker[w].stage = "unload" /\ worker[w].step = 1

IInv == DriveInv /\ HeatInv /\ LateInv
=============================================================================
