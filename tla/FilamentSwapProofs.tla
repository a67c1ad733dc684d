-------------------------- MODULE FilamentSwapProofs --------------------------
(***************************************************************************)
(* Proofs about FilamentSwap: as long as one request at a time is under way *)
(* (OneClient), one worker drives the printer, for the swap that was begun  *)
(* last, for any number of workers, swaps and faults, and the heater is not *)
(* left on but by a worker that still waited for the service when the       *)
(* cancel gave up joining it (late).  The argument is DriveInv (a worker    *)
(* that drives is the registered one or the one a request is about to       *)
(* register, it carries the last token drawn, and the phase of its swap     *)
(* shows that it drives, so that no other stage can be set up), and HeatInv *)
(* on top of it.                                                            *)
(***************************************************************************)
EXTENDS FilamentSwap, TLAPS

\* The steps of both programs are of phases that count as running.
LEMMA ProgramPhases ==
  ASSUME NEW stage \in DOMAIN Program, NEW i \in 1 .. Len(Program[stage])
  PROVE  Program[stage][i].phase \in RunningPhases
<1>1. CASE stage = "unload"
  <2>1. Program[stage] = Program.unload /\ Len(Program.unload) = 9
    BY <1>1 DEF Program
  <2>2. i \in 1 .. 9
    BY <2>1
  <2>3. Program.unload[i].phase \in {"heating_unload", "homing", "priming_unload", "unloading"}
    BY <2>2 DEF Program, Step
  <2> QED
    BY <2>1, <2>3 DEF RunningPhases
<1>2. CASE stage = "load"
  <2>1. Program[stage] = Program.load /\ Len(Program.load) = 3
    BY <1>2 DEF Program
  <2>2. i \in 1 .. 3
    BY <2>1
  <2>3. Program.load[i].phase \in {"heating_load", "loading", "cooling_down"}
    BY <2>2 DEF Program, Step
  <2> QED
    BY <2>1, <2>3 DEF RunningPhases
<1> QED
  BY <1>1, <1>2 DEF Program

\* "loading" is the second step of three.
LEMMA LoadingIsSecond ==
  ASSUME NEW stage \in DOMAIN Program, NEW i \in 1 .. Len(Program[stage]),
         Program[stage][i].phase = "loading"
  PROVE  i + 1 \in 1 .. Len(Program[stage])
<1>1. CASE stage = "unload"
  <2>1. Program[stage] = Program.unload /\ Len(Program.unload) = 9
    BY <1>1 DEF Program
  <2>2. i \in 1 .. 9
    BY <2>1
  <2>3. Program.unload[i].phase \in {"heating_unload", "homing", "priming_unload", "unloading"}
    BY <2>2 DEF Program, Step
  <2> QED
    BY <2>1, <2>3
<1>2. CASE stage = "load"
  <2>1. Program[stage] = Program.load /\ Len(Program.load) = 3
    BY <1>2 DEF Program
  <2>2. i \in 1 .. 3
    BY <2>1
  <2>3. i # 3
    BY <1>2, <2>1 DEF Program, Step
  <2> QED
    BY <2>1, <2>2, <2>3
<1> QED
  BY <1>1, <1>2 DEF Program

LEMMA Stages ==
  /\ DOMAIN Program = {"unload", "load"}
  /\ \A stage \in DOMAIN Program : Len(Program[stage]) \in 1 .. 9
<1>1. DOMAIN Program = {"unload", "load"}
  BY DEF Program
<1>2. Program["unload"] = Program.unload /\ Len(Program.unload) = 9
  BY DEF Program
<1>3. Program["load"] = Program.load /\ Len(Program.load) = 3
  BY DEF Program
<1> QED
  BY <1>1, <1>2, <1>3

LEMMA InitInv == Init => DriveInv
<1> SUFFICES ASSUME Init PROVE DriveInv
  OBVIOUS
<1>1. Driving = {} /\ \A r \in Request : ~Setting(r) /\ ~At(r, "register")
  BY DEF Init, Driving, Asleep, Quiet, Setting, At
<1>2. TypeOK
  <2>1. swap \in Swap /\ swap.mode # "manual"
    BY SwapAssumption DEF Init, NoSwap, Swap
  <2>2. worker \in [Worker -> Driver]
    BY SwapAssumption DEF Init, Asleep, Driver
  <2>3. request \in [Request -> Route]
    BY SwapAssumption DEF Init, Quiet, Threads, Route
  <2>4. tokens \in 0..MaxSwaps /\ faults \in 0..MaxFaults /\ registered \in Threads
    BY SwapAssumption DEF Init, Threads
  <2>5. heater \in {"off", "swap", "user", "left", "late"} /\ printing \in BOOLEAN
    BY DEF Init
  <2> QED
    BY <2>1, <2>2, <2>3, <2>4, <2>5 DEF TypeOK
<1>3. swap = NoSwap
  BY DEF Init
<1> QED
  BY <1>1, <1>2, <1>3 DEF DriveInv, AtSteps, OfLastSwap, Known, PhaseShows

-----------------------------------------------------------------------------
\* Who drives, drives alone.
LEMMA Alone == DriveInv /\ OneClient => OneDriver
<1> SUFFICES ASSUME DriveInv, OneClient, NEW w \in Driving, NEW v \in Driving PROVE w = v
  BY DEF OneDriver
<1>1. CASE \E r \in Request : At(r, "register")
  BY <1>1 DEF DriveInv, Known
<1>2. CASE ~ \E r \in Request : At(r, "register")
  BY <1>2 DEF DriveInv, Known
<1> QED
  BY <1>1, <1>2

LEMMA SentType ==
  ASSUME heater \in {"off", "swap", "user", "left", "late"}, NEW command, Sent(command)
  PROVE  heater' \in {"off", "swap", "user", "left", "late"}
  BY DEF Sent, Heats

\* A step of a worker: it stays at its swap and at its program, and changes the phase only of a
\* swap that it drives, to one that shows whether it goes on.
LEMMA WorkerStep ==
  ASSUME DriveInv, OneClient, NEW w \in Worker, NEW d \in Driver,
         worker' = [worker EXCEPT ![w] = d],
         d.pc \in {"begin", "borrow", "send", "wait", "delay"} =>
           /\ w \in Driving /\ d.token = worker[w].token /\ d.stage = worker[w].stage
           /\ d.pc \notin {"begin", "borrow"} => d.step \in 1 .. Len(Program[d.stage]),
         NEW phase \in RunningPhases \cup {"await_manual_swap", "error"},
         \/ swap' = swap
         \/ /\ w \in Driving /\ Live(worker[w].token)
            /\ \/ swap' = NoSwap /\ d.pc \notin {"begin", "borrow", "send", "wait", "delay"}
               \/ /\ swap' = [swap EXCEPT !.phase = phase]
                  /\ d.pc \in {"begin", "borrow", "send", "wait", "delay"} => phase \in RunningPhases,
         faults' \in 0..MaxFaults, heater' \in {"off", "swap", "user", "left", "late"},
         UNCHANGED <<tokens, registered, request, printing>>
  PROVE  DriveInv'
<1>1. Driving' \subseteq Driving /\ \A v \in Worker : v # w => worker'[v] = worker[v]
  BY DEF DriveInv, TypeOK, Driving
<1>2. worker'[w] = d /\ worker' \in [Worker -> Driver]
  BY DEF DriveInv, TypeOK
<1>3. swap' # swap => \/ swap' = NoSwap
                      \/ /\ swap # NoSwap /\ swap'.token = swap.token /\ swap'.mode = swap.mode
                         /\ swap'.phase = phase /\ swap.mode = "legacy" /\ swap' # NoSwap
  <2> SUFFICES ASSUME swap' # swap, swap' # NoSwap
               PROVE  /\ swap # NoSwap /\ swap'.token = swap.token /\ swap'.mode = swap.mode
                      /\ swap'.phase = phase /\ swap.mode = "legacy"
    OBVIOUS
  <2>1. swap \in Swap /\ Live(worker[w].token) /\ w \in Driving /\ swap' = [swap EXCEPT !.phase = phase]
    BY DEF DriveInv, TypeOK
  <2>2. swap # NoSwap
    BY <2>1 DEF Live, NoSwap
  <2>3. swap.mode = "legacy"
    BY <2>1, <2>2 DEF DriveInv, PhaseShows
  <2> QED
    BY <2>1, <2>2, <2>3 DEF Swap
<1>4. TypeOK'
  <2>1. swap' \in Swap /\ (swap'.mode = "manual" => swap'.phase = "await_manual_swap")
    <3>1. CASE swap' = swap
      BY <3>1 DEF DriveInv, TypeOK
    <3>2. CASE swap' = NoSwap
      BY <3>2, SwapAssumption DEF NoSwap, Swap
    <3>3. CASE swap' # swap /\ swap' # NoSwap
      <4>1. swap \in Swap /\ swap' = [swap EXCEPT !.phase = phase]
        BY <3>3 DEF DriveInv, TypeOK
      <4>2. swap' \in Swap
        BY <4>1 DEF Swap
      <4> QED
        BY <4>2, <1>3, <3>3
    <3> QED
      BY <3>1, <3>2, <3>3
  <2>2. tokens' \in 0..MaxSwaps /\ registered' \in Threads /\ request' \in [Request -> Route]
        /\ printing' \in BOOLEAN
    BY DEF DriveInv, TypeOK
  <2> QED
    BY <2>1, <2>2, <1>2 DEF TypeOK
<1>5. AtSteps'
  <2> SUFFICES ASSUME NEW v \in Driving'
               PROVE  /\ worker'[v].stage \in DOMAIN Program
                      /\ worker'[v].pc \notin {"begin", "borrow"} => worker'[v].step \in 1 .. Len(Program[worker'[v].stage])
    BY DEF AtSteps
  <2>1. v \in Worker /\ v \in Driving /\ worker'[v].pc \in {"begin", "borrow", "send", "wait", "delay"}
    BY <1>1 DEF Driving
  <2>2. CASE v = w
    BY <2>1, <2>2, <1>2 DEF DriveInv, AtSteps
  <2>3. CASE v # w
    BY <2>1, <2>3, <1>1 DEF DriveInv, AtSteps
  <2> QED
    BY <2>2, <2>3
<1>6. OfLastSwap'
  <2>1. swap' # NoSwap => swap'.token = tokens' /\ tokens' # 0 /\ swap'.mode \in Modes
    BY <1>3 DEF DriveInv, OfLastSwap
  <2>2. \A v \in Driving' : worker'[v].token = tokens' /\ tokens' # 0
    <3> SUFFICES ASSUME NEW v \in Driving' PROVE worker'[v].token = tokens' /\ tokens' # 0
      OBVIOUS
    <3>1. v \in Worker /\ v \in Driving /\ worker'[v].pc \in {"begin", "borrow", "send", "wait", "delay"}
      BY <1>1 DEF Driving
    <3>2. worker'[v].token = worker[v].token
      BY <3>1, <1>1, <1>2
    <3> QED
      BY <3>1, <3>2 DEF DriveInv, OfLastSwap
  <2>3. \A r \in Request : Setting(r)' => request'[r].token = tokens' /\ tokens' # 0
    BY DEF DriveInv, OfLastSwap, Setting
  <2> QED
    BY <2>1, <2>2, <2>3 DEF OfLastSwap
<1>7. Known'
  BY <1>1 DEF DriveInv, Known, At, Setting
<1>8. PhaseShows'
  <2>1. CASE swap' = swap
    BY <2>1, <1>1 DEF DriveInv, PhaseShows, At
  <2>2. CASE swap' # swap
    <3> SUFFICES ASSUME swap' # NoSwap PROVE PhaseShows'
      BY DEF PhaseShows
    <3>1. w \in Driving /\ swap' # swap /\ swap'.mode = "legacy" /\ swap'.phase = phase
          /\ (d.pc \in {"begin", "borrow", "send", "wait", "delay"} => phase \in RunningPhases)
      BY <2>2, <1>3
    <3>2. \A r \in Request : ~Setting(r)
      BY <3>1 DEF DriveInv, Known
    <3>3. \A r \in Request : ~At(r, "legacy")' /\ ~At(r, "confirming")' /\ ~At(r, "confirmed")'
      BY <3>2 DEF Setting, At
    <3>4. Driving' # {} => d.pc \in {"begin", "borrow", "send", "wait", "delay"}
      <4> SUFFICES ASSUME NEW v \in Driving' PROVE d.pc \in {"begin", "borrow", "send", "wait", "delay"}
        OBVIOUS
      <4>1. v = w
        BY <1>1, <3>1, Alone DEF OneDriver
      <4> QED
        BY <4>1, <1>2 DEF Driving
    <3> QED
      BY <3>1, <3>3, <3>4 DEF PhaseShows
  <2> QED
    BY <2>1, <2>2
<1> QED
  BY <1>4, <1>5, <1>6, <1>7, <1>8 DEF DriveInv

LEMMA FaultType == ASSUME faults \in 0..MaxFaults, Fault PROVE faults' \in 0..MaxFaults
  BY SwapAssumption DEF Fault

\* A worker that drives, its program and its phase.
LEMMA DriverFacts ==
  ASSUME DriveInv, NEW w \in Driving
  PROVE  /\ w \in Worker /\ worker[w] \in Driver
         /\ worker[w].stage \in DOMAIN Program /\ Len(Program[worker[w].stage]) \in 1 .. 9
         /\ worker[w].pc \notin {"begin", "borrow"} =>
              /\ worker[w].step \in 1 .. Len(Program[worker[w].stage])
              /\ Current(w).phase \in RunningPhases
              /\ Current(w).phase = "loading" => worker[w].step + 1 \in 1 .. Len(Program[worker[w].stage])
<1>1. w \in Worker /\ worker[w] \in Driver
  BY DEF DriveInv, TypeOK, Driving
<1>2. worker[w].stage \in DOMAIN Program
  BY DEF DriveInv, AtSteps
<1>3. Len(Program[worker[w].stage]) \in 1 .. 9
  BY <1>2, Stages
<1>4. ASSUME worker[w].pc \notin {"begin", "borrow"}
      PROVE  /\ worker[w].step \in 1 .. Len(Program[worker[w].stage])
             /\ Current(w).phase \in RunningPhases
             /\ Current(w).phase = "loading" => worker[w].step + 1 \in 1 .. Len(Program[worker[w].stage])
  <2>1. worker[w].step \in 1 .. Len(Program[worker[w].stage])
    BY <1>4 DEF DriveInv, AtSteps
  <2>2. Current(w).phase \in RunningPhases
    BY <2>1, <1>2, ProgramPhases DEF Current
  <2>3. Current(w).phase = "loading" => worker[w].step + 1 \in 1 .. Len(Program[worker[w].stage])
    BY <2>1, <1>2, LoadingIsSecond DEF Current
  <2> QED
    BY <2>1, <2>2, <2>3
<1> QED
  BY <1>1, <1>2, <1>3, <1>4

LEMMA MarkCases ==
  ASSUME NEW t, NEW phase, Mark(t, phase)
  PROVE  swap' = swap \/ (Live(t) /\ swap' = [swap EXCEPT !.phase = phase])
  BY DEF Mark

\* A worker that ends and leaves the swap alone, or clears or marks one that it drives.
LEMMA WorkerEnds ==
  ASSUME DriveInv, OneClient, NEW w \in Worker,
         Ends(w) \/ Becomes(w, "crashed"),
         NEW phase \in {"await_manual_swap", "error"},
         \/ swap' = swap
         \/ w \in Driving /\ (Clear(worker[w].token) \/ Mark(worker[w].token, phase)),
         faults' \in 0..MaxFaults, heater' \in {"off", "swap", "user", "left", "late"},
         UNCHANGED <<tokens, registered, request, printing>>
  PROVE  DriveInv'
<1>1. worker[w] \in Driver /\ worker \in [Worker -> Driver]
  BY DEF DriveInv, TypeOK
<1>2. Asleep \in Driver /\ Asleep.pc = "dead"
  BY SwapAssumption DEF Driver, Asleep
<1>3. [worker[w] EXCEPT !.pc = "crashed"] \in Driver /\ [worker[w] EXCEPT !.pc = "crashed"].pc = "crashed"
  BY <1>1 DEF Driver
<1>4. PICK d \in Driver : worker' = [worker EXCEPT ![w] = d] /\ d.pc \in {"dead", "crashed"}
  <2>1. CASE Ends(w)
    BY <2>1, <1>2 DEF Ends
  <2>2. CASE Becomes(w, "crashed")
    <3>1. worker' = [worker EXCEPT ![w] = [worker[w] EXCEPT !.pc = "crashed"]]
      BY <2>2, <1>1 DEF Becomes
    <3> QED
      BY <3>1, <1>3
  <2> QED
    BY <2>1, <2>2
<1>5. \/ swap' = swap
      \/ w \in Driving /\ Live(worker[w].token) /\ swap' = NoSwap
      \/ w \in Driving /\ Live(worker[w].token) /\ swap' = [swap EXCEPT !.phase = phase]
  BY DEF Clear, Mark
<1>6. phase \in RunningPhases \cup {"await_manual_swap", "error"}
  OBVIOUS
<1>7. d.pc \notin {"begin", "borrow", "send", "wait", "delay"}
  BY <1>4
<1> QED
  BY <1>4, <1>5, <1>6, <1>7, WorkerStep

LEMMA StepRange == \A n \in 1 .. 9 : 1 \in 1 .. n /\ \A i \in 1 .. n : i \in 0 .. 9
  OBVIOUS

LEMMA DriverUpdate ==
  ASSUME NEW old \in Driver, NEW p \in {"send", "wait", "delay"}, NEW i \in 0 .. 9
  PROVE  LET new == [old EXCEPT !.pc = p, !.step = i]
         IN  new \in Driver /\ new.token = old.token /\ new.stage = old.stage /\ new.step = i /\ new.pc = p
  BY DEF Driver

\* A worker that goes on, at most announcing a phase that shows it.
LEMMA WorkerGoes ==
  ASSUME DriveInv, OneClient, NEW w \in Driving, NEW pc \in {"send", "wait", "delay"},
         NEW step \in 1 .. Len(Program[worker[w].stage]),
         worker' = [worker EXCEPT ![w].pc = pc, ![w].step = step],
         NEW phase \in RunningPhases,
         swap' = swap \/ Mark(worker[w].token, phase),
         faults' \in 0..MaxFaults, heater' \in {"off", "swap", "user", "left", "late"},
         UNCHANGED <<tokens, registered, request, printing>>
  PROVE  DriveInv'
<1> DEFINE d == [worker[w] EXCEPT !.pc = pc, !.step = step]
<1>1. w \in Worker /\ worker[w] \in Driver /\ worker \in [Worker -> Driver] /\ step \in 0 .. 9
  <2>1. Len(Program[worker[w].stage]) \in 1 .. 9 /\ w \in Worker /\ worker[w] \in Driver
    BY DriverFacts
  <2>2. step \in 0 .. 9
    BY <2>1, StepRange
  <2> QED
    BY <2>1, <2>2 DEF DriveInv, TypeOK
<1>2. d \in Driver /\ d.token = worker[w].token /\ d.stage = worker[w].stage /\ d.step = step
  <2>1. step \in 0 .. 9 /\ worker[w] \in Driver /\ pc \in {"send", "wait", "delay"}
    BY <1>1
  <2> HIDE <1>1
  <2> QED
    BY <2>1 DEF Driver
<1>3. worker' = [worker EXCEPT ![w] = d]
  BY <1>1
<1>4. \/ swap' = swap
      \/ Live(worker[w].token) /\ swap' = [swap EXCEPT !.phase = phase]
  BY MarkCases
<1> HIDE DEF d
<1> QED
  BY <1>1, <1>2, <1>3, <1>4, WorkerStep

-----------------------------------------------------------------------------
\* What each step of a worker keeps.
LEMMA BeginsKeeps == ASSUME DriveInv, OneClient, NEW w \in Worker, WorkerBegins(w) PROVE DriveInv'
<1>1. w \in Driving /\ worker[w].pc = "begin"
  BY DEF WorkerBegins, Driving
<1>2. heater' \in {"off", "swap", "user", "left", "late"} /\ faults' \in 0..MaxFaults
      /\ UNCHANGED <<swap, tokens, registered, request, printing>>
  BY DEF DriveInv, TypeOK, WorkerBegins, WorkerElse
<1>3. CASE Ends(w)
  BY <1>1, <1>2, <1>3, WorkerEnds
<1>4. CASE Becomes(w, "borrow")
  <2> DEFINE d == [worker[w] EXCEPT !.pc = "borrow"]
  <2>1. worker' = [worker EXCEPT ![w] = d]
    BY <1>4 DEF Becomes
  <2>2. worker[w] \in Driver
    BY DEF DriveInv, TypeOK
  <2>3. d \in Driver /\ d.token = worker[w].token /\ d.stage = worker[w].stage /\ d.pc = "borrow"
    BY <2>2 DEF Driver
  <2>4. "error" \in RunningPhases \cup {"await_manual_swap", "error"}
    OBVIOUS
  <2> HIDE DEF d
  <2> QED
    BY <1>1, <1>2, <2>1, <2>3, <2>4, WorkerStep
<1> QED
  BY <1>3, <1>4 DEF WorkerBegins

LEMMA IsServedKeeps == ASSUME DriveInv, OneClient, NEW w \in Worker, WorkerIsServed(w) PROVE DriveInv'
<1>1. w \in Driving /\ worker[w].pc = "borrow"
  BY DEF WorkerIsServed, Driving
<1>2. heater' \in {"off", "swap", "user", "left", "late"} /\ faults' \in 0..MaxFaults
      /\ UNCHANGED <<tokens, registered, request, printing>>
  BY DEF DriveInv, TypeOK, WorkerIsServed, WorkerElse
<1>3. CASE Ends(w) /\ (UNCHANGED swap \/ Mark(worker[w].token, "error"))
  BY <1>1, <1>2, <1>3, WorkerEnds
<1>4. CASE worker' = [worker EXCEPT ![w].pc = "send", ![w].step = 1] /\ UNCHANGED swap
  <2>0. Len(Program[worker[w].stage]) \in 1 .. 9
    BY <1>1, DriverFacts
  <2>1. 1 \in 1 .. Len(Program[worker[w].stage])
    BY <2>0, StepRange
  <2>2. "loading" \in RunningPhases
    BY DEF RunningPhases
  <2> QED
    BY <1>1, <1>2, <1>4, <2>1, <2>2, WorkerGoes
<1> QED
  BY <1>3, <1>4 DEF WorkerIsServed

LEMMA SendsKeeps == ASSUME DriveInv, OneClient, NEW w \in Worker, WorkerSends(w) PROVE DriveInv'
<1>1. w \in Driving /\ worker[w].pc = "send" /\ Mark(worker[w].token, Current(w).phase)
  BY DEF WorkerSends, Driving
<1>2. heater' \in {"off", "swap", "user", "left", "late"}
  BY DEF WorkerSends, Heats, DriveInv, TypeOK
<1>3. faults' \in 0..MaxFaults /\ UNCHANGED <<tokens, registered, request, printing>>
  BY DEF DriveInv, TypeOK, WorkerSends, WorkerElse
<1>4. worker[w].step \in 1 .. Len(Program[worker[w].stage]) /\ Current(w).phase \in RunningPhases
  BY <1>1, DriverFacts
<1>5. worker \in [Worker -> Driver]
  BY DEF DriveInv, TypeOK
<1>6. PICK pc \in {"delay", "wait"} : Becomes(w, pc)
  BY DEF WorkerSends
<1>7. worker' = [worker EXCEPT ![w].pc = pc, ![w].step = worker[w].step]
  BY <1>5, <1>6 DEF Becomes, Driver
<1> QED
  BY <1>1, <1>2, <1>3, <1>4, <1>6, <1>7, WorkerGoes

LEMMA GoesOnKeeps == ASSUME DriveInv, OneClient, NEW w \in Worker, WorkerGoesOn(w) PROVE DriveInv'
<1>1. w \in Driving /\ worker[w].pc = "wait"
  BY DEF WorkerGoesOn, Driving
<1>2. heater' \in {"off", "swap", "user", "left", "late"} /\ faults' \in 0..MaxFaults
      /\ UNCHANGED <<tokens, registered, request, printing>>
  BY DEF DriveInv, TypeOK, WorkerGoesOn, WorkerElse
<1>3. CASE Ends(w) /\ Mark(worker[w].token, "await_manual_swap")
  BY <1>1, <1>2, <1>3, WorkerEnds
<1>4. CASE /\ worker[w].step # Len(Program[worker[w].stage])
           /\ worker' = [worker EXCEPT ![w].pc = "send", ![w].step = @ + 1] /\ UNCHANGED swap
  <2>1. worker[w].step \in 1 .. Len(Program[worker[w].stage]) /\ Len(Program[worker[w].stage]) \in 1 .. 9
    BY <1>1, DriverFacts
  <2>2. worker[w].step + 1 \in 1 .. Len(Program[worker[w].stage])
    BY <1>4, <2>1
  <2>3. "loading" \in RunningPhases
    BY DEF RunningPhases
  <2>4. worker' = [worker EXCEPT ![w].pc = "send", ![w].step = worker[w].step + 1]
    BY <1>4
  <2> QED
    BY <1>1, <1>2, <1>4, <2>2, <2>3, <2>4, WorkerGoes
<1> QED
  BY <1>3, <1>4 DEF WorkerGoesOn

LEMMA IsCancelledKeeps == ASSUME DriveInv, OneClient, NEW w \in Worker, WorkerIsCancelled(w) PROVE DriveInv'
<1>1. w \in Driving /\ worker[w].pc = "wait"
  BY DEF WorkerIsCancelled, Driving
<1>2. heater' \in {"off", "swap", "user", "left", "late"} /\ faults' \in 0..MaxFaults
      /\ UNCHANGED <<swap, tokens, registered, request, printing>>
  BY DEF DriveInv, TypeOK, WorkerIsCancelled, WorkerElse
<1>3. CASE Ends(w)
  BY <1>1, <1>2, <1>3, WorkerEnds
<1>4. CASE /\ Current(w).phase = "loading"
           /\ worker' = [worker EXCEPT ![w].pc = "delay", ![w].step = @ + 1]
  <2>1. worker[w].step + 1 \in 1 .. Len(Program[worker[w].stage]) /\ Current(w).phase \in RunningPhases
    BY <1>1, <1>4, DriverFacts
  <2>2. worker' = [worker EXCEPT ![w].pc = "delay", ![w].step = worker[w].step + 1]
    BY <1>4
  <2> QED
    BY <1>1, <1>2, <2>1, <2>2, WorkerGoes
<1> QED
  BY <1>3, <1>4 DEF WorkerIsCancelled

LEMMA CoolsKeeps == ASSUME DriveInv, OneClient, NEW w \in Worker, WorkerCools(w) PROVE DriveInv'
<1>1. w \in Driving /\ Ends(w) /\ Clear(worker[w].token)
  BY DEF WorkerCools, Driving
<1>2. heater' \in {"off", "swap", "user", "left", "late"}
  BY SentType DEF WorkerCools, DriveInv, TypeOK
<1>3. faults' \in 0..MaxFaults /\ UNCHANGED <<tokens, registered, request, printing>>
  BY DEF DriveInv, TypeOK, WorkerCools, WorkerElse
<1> QED
  BY <1>1, <1>2, <1>3, WorkerEnds

LEMMA FailsKeeps == ASSUME DriveInv, OneClient, NEW w \in Worker, WorkerFails(w) PROVE DriveInv'
<1>1. w \in Driving /\ Ends(w) /\ Mark(worker[w].token, "error")
  BY DEF WorkerFails, Asks, Driving
<1>2. heater' \in {"off", "swap", "user", "left", "late"} /\ UNCHANGED <<tokens, registered, request, printing>>
  BY DEF DriveInv, TypeOK, WorkerFails, WorkerElse
<1>3. faults' \in 0..MaxFaults
  BY FaultType DEF DriveInv, TypeOK, WorkerFails
<1> QED
  BY <1>1, <1>2, <1>3, WorkerEnds

LEMMA CrashesKeeps == ASSUME DriveInv, OneClient, NEW w \in Worker, WorkerCrashes(w) PROVE DriveInv'
<1>1. w \in Driving /\ Becomes(w, "crashed") /\ Mark(worker[w].token, "error")
  BY DEF WorkerCrashes, Asks, Driving
<1>2. heater' \in {"off", "swap", "user", "left", "late"} /\ UNCHANGED <<tokens, registered, request, printing>>
  BY DEF DriveInv, TypeOK, WorkerCrashes, WorkerElse
<1>3. faults' \in 0..MaxFaults
  BY FaultType DEF DriveInv, TypeOK, WorkerCrashes
<1> QED
  BY <1>1, <1>2, <1>3, WorkerEnds

LEMMA CrashedCoolsKeeps == ASSUME DriveInv, OneClient, NEW w \in Worker, CrashedCools(w) PROVE DriveInv'
<1>1. Ends(w) /\ swap' = swap
  BY DEF CrashedCools
<1>2. heater' \in {"off", "swap", "user", "left", "late"}
  BY SentType DEF CrashedCools, DriveInv, TypeOK
<1>3. faults' \in 0..MaxFaults
  BY FaultType DEF DriveInv, TypeOK, CrashedCools
<1>4. UNCHANGED <<tokens, registered, request, printing>>
  BY DEF CrashedCools, WorkerElse
<1> QED
  BY <1>1, <1>2, <1>3, <1>4, WorkerEnds

-----------------------------------------------------------------------------
\* What each step of a route keeps.

\* A step of the client that starts no thread, and moves none.
LEMMA RouteLeaves ==
  ASSUME DriveInv, OneClient, NEW r \in Request, NEW d \in Route,
         request' = [request EXCEPT ![r] = d], worker' \in [Worker -> Driver],
         \A w \in Worker : /\ worker'[w].pc = worker[w].pc /\ worker'[w].token = worker[w].token
                           /\ worker'[w].stage = worker[w].stage /\ worker'[w].step = worker[w].step,
         swap' \in Swap, swap'.mode = "manual" => swap'.phase = "await_manual_swap",
         tokens' \in 0..MaxSwaps, registered' \in Threads, faults' \in 0..MaxFaults,
         heater' \in {"off", "swap", "user", "left", "late"}, printing' \in BOOLEAN,
         swap' # NoSwap => swap'.token = tokens' /\ tokens' # 0 /\ swap'.mode \in Modes,
         Driving # {} => tokens' = tokens,
         d.pc \in {"legacy", "manual", "confirming", "confirmed"} =>
           d.token = tokens' /\ tokens' # 0 /\ Driving = {},
         \A w \in Driving : \/ d.pc # "register" /\ w = registered'
                            \/ d.pc = "register" /\ d.thread = w,
         swap' # NoSwap =>
           /\ Driving # {} => swap'.phase \in RunningPhases /\ swap'.mode = "legacy"
           /\ d.pc \in {"legacy", "confirmed"} => swap'.phase \in RunningPhases
           /\ d.pc \in {"legacy", "confirming", "confirmed"} => swap'.mode = "legacy"
  PROVE  DriveInv'
<1>1. \A q \in Request : q = r
  BY DEF OneClient
<1>2. request' \in [Request -> Route] /\ \A q \in Request : request'[q] = d
  BY <1>1 DEF DriveInv, TypeOK
<1>3. Driving' = Driving /\ Driving \subseteq Worker
  BY DEF Driving
<1>4. TypeOK'
  BY <1>2 DEF DriveInv, TypeOK
<1>5. AtSteps'
  BY <1>3 DEF DriveInv, AtSteps
<1>6. \A q \in Request : Setting(q)' <=> d.pc \in {"legacy", "manual", "confirming", "confirmed"}
  BY <1>2 DEF Setting
<1>7. \A q \in Request : \A pc : At(q, pc)' <=> d.pc = pc
  BY <1>2 DEF At
<1>8. OfLastSwap'
  <2>1. \A w \in Driving' : worker'[w].token = tokens' /\ tokens' # 0
    BY <1>3 DEF DriveInv, OfLastSwap
  <2> QED
    BY <1>2, <1>6, <2>1 DEF OfLastSwap
<1>9. Known'
  BY <1>2, <1>3, <1>6, <1>7 DEF Known
<1>10. PhaseShows'
  BY <1>3, <1>7 DEF PhaseShows
<1> QED
  BY <1>4, <1>5, <1>8, <1>9, <1>10 DEF DriveInv

\* In particular one that leaves the threads alone.
LEMMA RouteStep ==
  ASSUME DriveInv, OneClient, NEW r \in Request, NEW d \in Route,
         request' = [request EXCEPT ![r] = d], worker' = worker,
         swap' \in Swap, swap'.mode = "manual" => swap'.phase = "await_manual_swap",
         tokens' \in 0..MaxSwaps, registered' \in Threads, faults' \in 0..MaxFaults,
         heater' \in {"off", "swap", "user", "left", "late"}, printing' \in BOOLEAN,
         swap' # NoSwap => swap'.token = tokens' /\ tokens' # 0 /\ swap'.mode \in Modes,
         Driving # {} => tokens' = tokens,
         d.pc \in {"legacy", "manual", "confirming", "confirmed"} =>
           d.token = tokens' /\ tokens' # 0 /\ Driving = {},
         \A w \in Driving : \/ d.pc # "register" /\ w = registered'
                            \/ d.pc = "register" /\ d.thread = w,
         swap' # NoSwap =>
           /\ Driving # {} => swap'.phase \in RunningPhases /\ swap'.mode = "legacy"
           /\ d.pc \in {"legacy", "confirmed"} => swap'.phase \in RunningPhases
           /\ d.pc \in {"legacy", "confirming", "confirmed"} => swap'.mode = "legacy"
  PROVE  DriveInv'
<1>1. worker' \in [Worker -> Driver]
  BY DEF DriveInv, TypeOK
<1>2. \A w \in Worker : /\ worker'[w].pc = worker[w].pc /\ worker'[w].token = worker[w].token
                       /\ worker'[w].stage = worker[w].stage /\ worker'[w].step = worker[w].step
  OBVIOUS
<1> QED
  BY <1>1, <1>2, RouteLeaves

\* A stage that is started: nobody drives, and the new thread will be registered.
LEMMA SpawnStep ==
  ASSUME DriveInv, OneClient, NEW r \in Request, request[r].pc \in {"legacy", "confirmed"},
         NEW stage \in {"unload", "load"}, Spawn(r, stage, request[r].token),
         UNCHANGED <<swap, tokens, registered, heater, printing, faults>>
  PROVE  DriveInv'
<1>1. PICK w \in Worker :
        /\ worker' = [worker EXCEPT ![w] = [stage |-> stage, token |-> request[r].token,
                                           pc |-> "begin", step |-> 0, late |-> FALSE]]
        /\ request' = [request EXCEPT ![r] = [pc |-> "register", token |-> request[r].token, thread |-> w]]
  BY DEF Spawn, Goes
<1>2. /\ worker \in [Worker -> Driver] /\ request \in [Request -> Route] /\ request[r] \in Route
      /\ swap \in Swap
  BY DEF DriveInv, TypeOK
<1>3. request[r].token \in 0..MaxSwaps
  BY <1>2 DEF Route
<1>4. \A q \in Request : q = r
  BY DEF OneClient
<1>5. Driving = {} /\ Setting(r) /\ request[r].token = tokens /\ tokens # 0
  BY DEF DriveInv, Known, OfLastSwap, Setting
<1>6. Driving' = {w} /\ worker'[w].stage = stage /\ worker'[w].pc = "begin"
      /\ worker'[w].token = request[r].token
  BY <1>1, <1>2, <1>5 DEF Driving
<1>7. worker' \in [Worker -> Driver]
  BY <1>1, <1>2, <1>3 DEF Driver
<1>8. [pc |-> "register", token |-> request[r].token, thread |-> w] \in Route
  BY <1>3 DEF Route, Threads
<1>9. /\ request' \in [Request -> Route]
      /\ \A q \in Request : request'[q].pc = "register" /\ request'[q].thread = w
  BY <1>1, <1>2, <1>4, <1>8
<1>10. \A q \in Request : ~Setting(q)'
  BY <1>9 DEF Setting
<1>11. \A q \in Request : At(q, "register")' /\ ~At(q, "legacy")' /\ ~At(q, "confirming")' /\ ~At(q, "confirmed")'
  BY <1>9 DEF At
<1>12. TypeOK'
  BY <1>7, <1>9 DEF DriveInv, TypeOK
<1>13. AtSteps'
  BY <1>6, Stages DEF AtSteps
<1>14. OfLastSwap'
  BY <1>5, <1>6, <1>10 DEF DriveInv, OfLastSwap
<1>15. Known'
  BY <1>6, <1>9, <1>10, <1>11 DEF Known
<1>16. PhaseShows'
  <2>1. swap # NoSwap => swap.phase \in RunningPhases /\ swap.mode = "legacy"
    BY DEF DriveInv, PhaseShows, At
  <2> QED
    BY <1>11, <2>1 DEF PhaseShows
<1> QED
  BY <1>12, <1>13, <1>14, <1>15, <1>16 DEF DriveInv

\* A client that sets a stage up and is answered, its swap kept, marked or cleared.
LEMMA AnswersStep ==
  ASSUME DriveInv, OneClient, NEW r \in Request, Setting(r),
         request' = [request EXCEPT ![r] = Quiet], worker' = worker,
         \/ swap' = swap \/ swap' = NoSwap
         \/ At(r, "confirmed") /\ Live(request[r].token) /\ swap' = [swap EXCEPT !.phase = "error"],
         faults' \in 0..MaxFaults, heater' \in {"off", "swap", "user", "left", "late"},
         UNCHANGED <<tokens, registered, printing>>
  PROVE  DriveInv'
<1>1. Quiet \in Route /\ Quiet.pc = "idle"
  BY SwapAssumption DEF Quiet, Route, Threads
<1>2. Driving = {}
  BY DEF DriveInv, Known
<1>3. /\ swap \in Swap /\ (swap.mode = "manual" => swap.phase = "await_manual_swap")
      /\ (swap # NoSwap => swap.token = tokens /\ tokens # 0 /\ swap.mode \in Modes)
      /\ tokens \in 0..MaxSwaps /\ registered \in Threads /\ printing \in BOOLEAN
  BY DEF DriveInv, TypeOK, OfLastSwap
<1>4. /\ swap' \in Swap /\ (swap'.mode = "manual" => swap'.phase = "await_manual_swap")
      /\ (swap' # NoSwap => swap'.token = tokens /\ tokens # 0 /\ swap'.mode \in Modes)
  <2>1. CASE swap' = swap
    BY <1>3, <2>1
  <2>2. CASE swap' = NoSwap
    BY <2>2, SwapAssumption DEF NoSwap, Swap
  <2>3. CASE At(r, "confirmed") /\ Live(request[r].token) /\ swap' = [swap EXCEPT !.phase = "error"]
    <3>1. swap # NoSwap
      BY <2>3 DEF Live, NoSwap
    <3>2. swap.mode = "legacy"
      BY <2>3, <3>1 DEF DriveInv, PhaseShows
    <3>3. swap' \in Swap /\ swap'.mode = swap.mode /\ swap'.token = swap.token
      BY <2>3, <1>3 DEF Swap
    <3> QED
      BY <3>1, <3>2, <3>3, <1>3
  <2> QED
    BY <2>1, <2>2, <2>3
<1> QED
  BY <1>1, <1>2, <1>3, <1>4, RouteStep

LEMMA StartRegistersKeeps ==
  ASSUME DriveInv, OneClient, NEW r \in Request, NEW mode \in Modes, StartRegisters(r, mode) PROVE DriveInv'
<1> DEFINE d == [pc |-> mode, token |-> tokens + 1, thread |-> NoWorker]
<1>1. /\ At(r, "idle") /\ tokens < MaxSwaps /\ swap = NoSwap /\ ~Alive(registered)
      /\ tokens' = tokens + 1 /\ request' = [request EXCEPT ![r] = d]
      /\ swap' = [token |-> tokens + 1, mode |-> mode,
                  phase |-> IF mode = "legacy" THEN "homing" ELSE "await_manual_swap"]
      /\ UNCHANGED <<worker, registered, heater, printing, faults>>
  BY DEF StartRegisters, Goes
<1>2. tokens \in 0..MaxSwaps /\ tokens' \in 0..MaxSwaps /\ tokens' # 0
  BY <1>1, SwapAssumption DEF DriveInv, TypeOK
<1>3. Driving = {}
  <2> SUFFICES ASSUME NEW w \in Driving PROVE FALSE
    OBVIOUS
  <2>1. ~At(r, "register") /\ \A q \in Request : q = r
    BY <1>1 DEF At, OneClient
  <2>2. w = registered /\ w \in Worker /\ worker[w].pc # "dead"
    BY <2>1 DEF DriveInv, Known, Driving
  <2> QED
    BY <1>1, <2>2, SwapAssumption DEF Alive
<1>4. d \in Route /\ d.pc = mode /\ d.token = tokens'
  BY <1>1, <1>2 DEF Route, Modes, Threads
<1>5. /\ swap' \in Swap /\ swap'.mode = mode /\ swap'.token = tokens'
      /\ swap'.phase = IF mode = "legacy" THEN "homing" ELSE "await_manual_swap"
  BY <1>1, <1>2 DEF Swap, RunningPhases
<1>6. mode \in {"legacy", "manual"} /\ "homing" \in RunningPhases
  BY DEF Modes, RunningPhases
<1>7. /\ registered' \in Threads /\ faults' \in 0..MaxFaults
      /\ heater' \in {"off", "swap", "user", "left", "late"} /\ printing' \in BOOLEAN
  BY <1>1 DEF DriveInv, TypeOK
<1>8. request' = [request EXCEPT ![r] = d] /\ worker' = worker
  BY <1>1
<1> HIDE DEF d
<1> QED
  BY <1>2, <1>3, <1>4, <1>5, <1>6, <1>7, <1>8, RouteStep

LEMMA StartGoesKeeps ==
  ASSUME DriveInv, OneClient, NEW r \in Request, StartGoes(r) PROVE DriveInv'
<1>1. CASE At(r, "legacy")
  <2>1. /\ Spawn(r, "unload", request[r].token) /\ request[r].pc = "legacy"
        /\ UNCHANGED <<swap, tokens, registered, heater, printing, faults>>
    BY <1>1 DEF StartGoes, At
  <2> QED
    BY <2>1, SpawnStep
<1>2. CASE ~At(r, "legacy")
  <2>1. /\ Setting(r) /\ request' = [request EXCEPT ![r] = Quiet] /\ worker' = worker /\ Sent("heat")
        /\ UNCHANGED <<swap, tokens, registered, printing, faults>>
    BY <1>2 DEF StartGoes, Started, Modes, Setting, Answers
  <2>2. heater' \in {"off", "swap", "user", "left", "late"}
    BY <2>1, SentType DEF DriveInv, TypeOK
  <2>3. faults' \in 0..MaxFaults
    BY <2>1 DEF DriveInv, TypeOK
  <2> QED
    BY <2>1, <2>2, <2>3, AnswersStep
<1> QED
  BY <1>1, <1>2

LEMMA StartRefusedKeeps ==
  ASSUME DriveInv, OneClient, NEW r \in Request, StartRefused(r) PROVE DriveInv'
<1>1. Setting(r)
  BY DEF StartRefused, Started, Modes, Setting
<1>2. faults' \in 0..MaxFaults
  BY FaultType DEF DriveInv, TypeOK, StartRefused
<1>3. /\ request' = [request EXCEPT ![r] = Quiet] /\ worker' = worker
      /\ UNCHANGED <<tokens, registered, printing>> /\ heater' \in {"off", "swap", "user", "left", "late"}
  BY DEF DriveInv, TypeOK, StartRefused, Answers
<1>4. swap' = swap \/ swap' = NoSwap
  BY DEF StartRefused, Clear
<1> QED
  BY <1>1, <1>2, <1>3, <1>4, AnswersStep

LEMMA ConfirmRefusedKeeps ==
  ASSUME DriveInv, OneClient, NEW r \in Request, ConfirmRefused(r) PROVE DriveInv'
<1>1. Setting(r) /\ At(r, "confirmed")
  BY DEF ConfirmRefused, At, Setting
<1>2. faults' \in 0..MaxFaults
  BY FaultType DEF DriveInv, TypeOK, ConfirmRefused
<1>3. /\ request' = [request EXCEPT ![r] = Quiet] /\ worker' = worker
      /\ UNCHANGED <<tokens, registered, printing>> /\ heater' \in {"off", "swap", "user", "left", "late"}
  BY DEF DriveInv, TypeOK, ConfirmRefused, Answers
<1>4. swap' = swap \/ (Live(request[r].token) /\ swap' = [swap EXCEPT !.phase = "error"])
  <2>1. Mark(request[r].token, "error")
    BY DEF ConfirmRefused
  <2> QED
    BY <2>1 DEF Mark
<1> QED
  BY <1>1, <1>2, <1>3, <1>4, AnswersStep

LEMMA RouteRaisesKeeps ==
  ASSUME DriveInv, OneClient, NEW r \in Request, RouteRaises(r) PROVE DriveInv'
<1>1. Setting(r)
  BY DEF RouteRaises, Started, Modes, At, Setting
<1>2. /\ request' = [request EXCEPT ![r] = Quiet] /\ worker' = worker /\ swap' = swap
      /\ UNCHANGED <<tokens, registered, printing>>
  BY DEF RouteRaises, Answers
<1>3. heater' \in {"off", "swap", "user", "left", "late"} /\ faults' \in 0..MaxFaults
  BY DEF DriveInv, TypeOK, RouteRaises
<1> QED
  BY <1>1, <1>2, <1>3, AnswersStep

LEMMA ConfirmGoesKeeps ==
  ASSUME DriveInv, OneClient, NEW r \in Request, ConfirmGoes(r) PROVE DriveInv'
  BY SpawnStep DEF ConfirmGoes, At

\* What the types say of the variables a route leaves alone.
LEMMA Typed ==
  ASSUME DriveInv
  PROVE  /\ swap \in Swap /\ (swap.mode = "manual" => swap.phase = "await_manual_swap")
         /\ (swap # NoSwap => swap.token = tokens /\ tokens # 0 /\ swap.mode \in Modes)
         /\ tokens \in 0..MaxSwaps /\ registered \in Threads /\ faults \in 0..MaxFaults
         /\ heater \in {"off", "swap", "user", "left", "late"} /\ printing \in BOOLEAN
         /\ request \in [Request -> Route] /\ NoSwap \in Swap /\ NoSwap.mode # "manual"
  <1>1. NoSwap \in Swap /\ NoSwap.mode # "manual"
    BY SwapAssumption DEF NoSwap, Swap
  <1> QED
    BY <1>1 DEF DriveInv, TypeOK, OfLastSwap

\* Who drives while no thread waits to be registered is registered.
LEMMA DrivesRegistered ==
  ASSUME DriveInv, OneClient, NEW r \in Request, ~At(r, "register"), NEW w \in Driving PROVE w = registered
  BY DEF DriveInv, Known, OneClient

LEMMA RegistersKeeps ==
  ASSUME DriveInv, OneClient, NEW r \in Request, Registers(r) PROVE DriveInv'
<1>1. Quiet \in Route /\ Quiet.pc = "idle"
  BY SwapAssumption DEF Quiet, Route, Threads
<1>2. request' = [request EXCEPT ![r] = Quiet] /\ registered' = request[r].thread
      /\ UNCHANGED <<swap, tokens, worker, heater, printing, faults>>
  BY DEF Registers, Answers
<1>3. registered' \in Threads
  BY <1>2, Typed DEF Route
<1>4. \A w \in Driving : w = registered'
  BY <1>2 DEF DriveInv, Known, Registers
<1>5. swap # NoSwap /\ Driving # {} => swap.phase \in RunningPhases /\ swap.mode = "legacy"
  BY DEF DriveInv, PhaseShows
<1> QED
  BY <1>1, <1>2, <1>3, <1>4, <1>5, Typed, RouteStep

LEMMA ConfirmLooksKeeps ==
  ASSUME DriveInv, OneClient, NEW r \in Request, ConfirmLooks(r) PROVE DriveInv'
<1>1. /\ At(r, "idle") /\ swap # NoSwap /\ swap.phase \notin RunningPhases
      /\ UNCHANGED <<tokens, worker, registered, printing, faults>>
  BY DEF ConfirmLooks
<1>2. Driving = {}
  BY <1>1 DEF DriveInv, PhaseShows
<1>3. CASE /\ swap' = NoSwap /\ UNCHANGED request
           /\ heater' = IF heater = "swap" THEN "user" ELSE heater
  <2>1. request[r] \in Route /\ request[r].pc = "idle" /\ request' = [request EXCEPT ![r] = request[r]]
    BY <1>1, <1>3, Typed DEF At
  <2>2. heater' \in {"off", "swap", "user", "left", "late"}
    BY <1>3, Typed
  <2> QED
    BY <1>1, <1>2, <1>3, <2>1, <2>2, Typed, RouteStep
<1>4. CASE swap.mode # "manual" /\ Goes(r, "confirming", swap.token, NoWorker) /\ UNCHANGED <<swap, heater>>
  <2> DEFINE d == [pc |-> "confirming", token |-> swap.token, thread |-> NoWorker]
  <2>1. d \in Route /\ d.pc = "confirming" /\ d.token = swap.token
    BY Typed DEF Swap, Route, Threads
  <2>2. request' = [request EXCEPT ![r] = d]
    BY <1>4 DEF Goes
  <2>3. swap.mode = "legacy" /\ swap.token = tokens /\ tokens # 0
    BY <1>1, <1>4, Typed DEF Modes
  <2> HIDE DEF d
  <2> QED
    BY <1>1, <1>2, <1>4, <2>1, <2>2, <2>3, Typed, RouteStep
<1> QED
  BY <1>3, <1>4 DEF ConfirmLooks

LEMMA ConfirmMarksKeeps ==
  ASSUME DriveInv, OneClient, NEW r \in Request, ConfirmMarks(r) PROVE DriveInv'
<1> DEFINE d == [pc |-> "confirmed", token |-> request[r].token, thread |-> NoWorker]
<1>1. /\ At(r, "confirming") /\ Mark(request[r].token, "heating_load")
      /\ request' = [request EXCEPT ![r] = d]
      /\ UNCHANGED <<tokens, worker, registered, heater, printing, faults>>
  BY DEF ConfirmMarks, Goes
<1>2. Setting(r)
  BY <1>1 DEF At, Setting
<1>3. Driving = {} /\ request[r].token = tokens /\ tokens # 0
  BY <1>2 DEF DriveInv, Known, OfLastSwap
<1>4. d \in Route /\ d.pc = "confirmed" /\ d.token = tokens
  BY <1>3, Typed DEF Route, Threads
<1>5. swap # NoSwap => swap.mode = "legacy" /\ Live(request[r].token)
  BY <1>1, <1>3, Typed DEF DriveInv, PhaseShows, Live
<1>6. swap = NoSwap => swap' = NoSwap
  BY <1>1, <1>3 DEF Mark, Live, NoSwap
<1>7. swap # NoSwap => /\ swap' \in Swap /\ swap'.mode = swap.mode /\ swap'.token = swap.token
                       /\ swap'.phase = "heating_load"
  <2> SUFFICES ASSUME swap # NoSwap
               PROVE  /\ swap' \in Swap /\ swap'.mode = swap.mode /\ swap'.token = swap.token
                      /\ swap'.phase = "heating_load"
    OBVIOUS
  <2>1. swap' = [swap EXCEPT !.phase = "heating_load"] /\ swap \in Swap
    BY <1>1, <1>5, Typed DEF Mark
  <2> QED
    BY <2>1 DEF Swap, RunningPhases
<1>8. "heating_load" \in RunningPhases
  BY DEF RunningPhases
<1>9. /\ swap' \in Swap /\ (swap'.mode = "manual" => swap'.phase = "await_manual_swap")
      /\ (swap' # NoSwap => /\ swap'.token = tokens /\ tokens # 0 /\ swap'.mode \in Modes
                            /\ swap'.mode = "legacy" /\ swap'.phase \in RunningPhases)
  BY <1>5, <1>6, <1>7, <1>8, Typed
<1> HIDE DEF d
<1> QED
  BY <1>1, <1>3, <1>4, <1>9, Typed, RouteStep

LEMMA CancelClearsKeeps ==
  ASSUME DriveInv, OneClient, NEW r \in Request, CancelClears(r) PROVE DriveInv'
<1> DEFINE d == [pc |-> "cancelling", token |-> swap.token, thread |-> registered]
<1>1. /\ At(r, "idle") /\ swap' = NoSwap /\ request' = [request EXCEPT ![r] = d]
      /\ UNCHANGED <<tokens, worker, registered, heater, printing, faults>>
  BY DEF CancelClears, Goes
<1>2. d \in Route /\ d.pc = "cancelling"
  BY Typed DEF Swap, Route
<1>3. \A w \in Driving : w = registered
  BY <1>1, DrivesRegistered DEF At
<1> HIDE DEF d
<1> QED
  BY <1>1, <1>2, <1>3, Typed, RouteStep

\* What a cancel writes down of the threads it waited for.
LEMMA JoinsLate ==
  ASSUME DriveInv, NEW r \in Request, CancelJoins(r)
  PROVE  /\ worker' \in [Worker -> Driver]
         /\ \A w \in Worker :
              /\ worker'[w].pc = worker[w].pc /\ worker'[w].token = worker[w].token
              /\ worker'[w].stage = worker[w].stage /\ worker'[w].step = worker[w].step
              /\ worker'[w].late <=> worker[w].late \/ (w = request[r].thread /\ worker[w].pc = "borrow")
<1>1. worker \in [Worker -> Driver]
  BY DEF DriveInv, TypeOK
<1>2. worker' = [w \in Worker |->
        IF w = request[r].thread /\ worker[w].pc = "borrow" THEN [worker[w] EXCEPT !.late = TRUE] ELSE worker[w]]
  BY DEF CancelJoins
<1>3. ASSUME NEW w \in Worker
      PROVE  /\ worker'[w] \in Driver
             /\ worker'[w].pc = worker[w].pc /\ worker'[w].token = worker[w].token
             /\ worker'[w].stage = worker[w].stage /\ worker'[w].step = worker[w].step
             /\ worker'[w].late <=> worker[w].late \/ (w = request[r].thread /\ worker[w].pc = "borrow")
  <2>1. worker[w] \in Driver
    BY <1>1
  <2>2. [worker[w] EXCEPT !.late = TRUE] \in Driver /\ [worker[w] EXCEPT !.late = TRUE].late
        /\ [worker[w] EXCEPT !.late = TRUE].pc = worker[w].pc
        /\ [worker[w] EXCEPT !.late = TRUE].token = worker[w].token
        /\ [worker[w] EXCEPT !.late = TRUE].stage = worker[w].stage
        /\ [worker[w] EXCEPT !.late = TRUE].step = worker[w].step
    BY <2>1 DEF Driver
  <2>3. CASE w = request[r].thread /\ worker[w].pc = "borrow"
    BY <1>2, <2>2, <2>3
  <2>4. CASE ~(w = request[r].thread /\ worker[w].pc = "borrow")
    <3>1. worker'[w] = worker[w]
      BY <1>2, <2>4
    <3> QED
      BY <3>1, <2>1, <2>4
  <2> QED
    BY <2>3, <2>4
<1> QED
  BY <1>2, <1>3

LEMMA CancelJoinsKeeps ==
  ASSUME DriveInv, OneClient, NEW r \in Request, CancelJoins(r) PROVE DriveInv'
<1> DEFINE d == [pc |-> "cooling", token |-> request[r].token, thread |-> NoWorker]
<1>1. /\ At(r, "cancelling") /\ request' = [request EXCEPT ![r] = d]
      /\ UNCHANGED <<swap, tokens, heater, printing, faults>>
      /\ registered' = registered \/ (registered' = NoWorker /\ ~Alive(registered))
  BY DEF CancelJoins, Goes
<1>2. d \in Route /\ d.pc = "cooling"
  BY Typed DEF Route, Threads
<1>3. registered' \in Threads
  BY <1>1, Typed DEF Threads
<1>4. \A w \in Driving : w = registered /\ Alive(w)
  BY <1>1, DrivesRegistered, SwapAssumption DEF At, Driving, Alive
<1>5. \A w \in Driving : w = registered'
  BY <1>1, <1>4
<1>6. swap # NoSwap /\ Driving # {} => swap.phase \in RunningPhases /\ swap.mode = "legacy"
  BY DEF DriveInv, PhaseShows
<1>7. /\ worker' \in [Worker -> Driver]
      /\ \A w \in Worker : /\ worker'[w].pc = worker[w].pc /\ worker'[w].token = worker[w].token
                          /\ worker'[w].stage = worker[w].stage /\ worker'[w].step = worker[w].step
  BY JoinsLate
<1> HIDE DEF d
<1> QED
  BY <1>1, <1>2, <1>3, <1>5, <1>6, <1>7, Typed, RouteLeaves

LEMMA CancelCoolsKeeps ==
  ASSUME DriveInv, OneClient, NEW r \in Request, CancelCools(r) PROVE DriveInv'
<1>1. Quiet \in Route /\ Quiet.pc = "idle"
  BY SwapAssumption DEF Quiet, Route, Threads
<1>2. /\ At(r, "cooling") /\ request' = [request EXCEPT ![r] = Quiet]
      /\ UNCHANGED <<swap, tokens, worker, registered, printing>>
  BY DEF CancelCools, Answers
<1>3. heater' \in {"off", "swap", "user", "left", "late"}
  BY SentType, Typed DEF CancelCools
<1>4. faults' \in 0..MaxFaults
  BY FaultType, Typed DEF CancelCools
<1>5. \A w \in Driving : w = registered'
  BY <1>2, DrivesRegistered DEF At
<1>6. swap # NoSwap /\ Driving # {} => swap.phase \in RunningPhases /\ swap.mode = "legacy"
  BY DEF DriveInv, PhaseShows
<1> QED
  BY <1>1, <1>2, <1>3, <1>4, <1>5, <1>6, Typed, RouteStep

LEMMA ElsewhereKeeps ==
  ASSUME DriveInv, UNCHANGED <<swap, tokens, worker, registered, request, faults>>,
         heater' \in {"off", "swap", "user", "left", "late"}, printing' \in BOOLEAN
  PROVE  DriveInv'
<1>1. Driving' = Driving /\ (\A r \in Request : Setting(r)' <=> Setting(r))
      /\ (\A r \in Request : \A pc : At(r, pc)' <=> At(r, pc))
  BY DEF Driving, Setting, At
<1>2. TypeOK'
  BY DEF DriveInv, TypeOK
<1>3. AtSteps' /\ OfLastSwap'
  BY <1>1 DEF DriveInv, AtSteps, OfLastSwap
<1>4. Known' /\ PhaseShows'
  BY <1>1 DEF DriveInv, Known, PhaseShows
<1> QED
  BY <1>2, <1>3, <1>4 DEF DriveInv

-----------------------------------------------------------------------------
LEMMA NextKeeps == ASSUME DriveInv, OneClient, [Next]_vars PROVE DriveInv'
<1>1. ASSUME NEW w \in Worker, WorkerSteps(w) PROVE DriveInv'
  BY <1>1, BeginsKeeps, IsServedKeeps, SendsKeeps, GoesOnKeeps, IsCancelledKeeps, CoolsKeeps, CrashedCoolsKeeps DEF WorkerSteps
<1>2. ASSUME NEW w \in Worker, WorkerFails(w) \/ WorkerCrashes(w) PROVE DriveInv'
  BY <1>2, FailsKeeps, CrashesKeeps
<1>3. ASSUME NEW r \in Request, NEW mode \in Modes, StartRegisters(r, mode) PROVE DriveInv'
  BY <1>3, StartRegistersKeeps
<1>4. ASSUME NEW r \in Request, ConfirmLooks(r) \/ CancelClears(r) \/ RouteRaises(r) PROVE DriveInv'
  BY <1>4, ConfirmLooksKeeps, CancelClearsKeeps, RouteRaisesKeeps
<1>5. ASSUME NEW r \in Request, RouteSteps(r) PROVE DriveInv'
  BY <1>5, StartGoesKeeps, StartRefusedKeeps, RegistersKeeps, ConfirmMarksKeeps, ConfirmGoesKeeps,
     ConfirmRefusedKeeps, CancelJoinsKeeps, CancelCoolsKeeps DEF RouteSteps
<1>6. CASE Preheat \/ PrintToggles
  <2>1. heater' \in {"off", "swap", "user", "left", "late"} /\ printing' \in BOOLEAN
    BY <1>6, Typed DEF Preheat, PrintToggles
  <2>2. UNCHANGED <<swap, tokens, worker, registered, request, faults>>
    BY <1>6 DEF Preheat, PrintToggles
  <2> QED
    BY <2>1, <2>2, ElsewhereKeeps
<1>7. CASE UNCHANGED vars
  <2>1. UNCHANGED <<swap, tokens, worker, registered, request, faults, heater, printing>>
    BY <1>7 DEF vars
  <2> QED
    BY <2>1, ElsewhereKeeps, Typed
<1> QED
  BY <1>1, <1>2, <1>3, <1>4, <1>5, <1>6, <1>7 DEF Next

-----------------------------------------------------------------------------
(* The heater: HeatInv, which needs DriveInv to tell whose swap it is, and LateInv. *)

\* A worker that goes on after its swap is over finds no swap at all: none has begun since.
LEMMA DeadMeansNone ==
  ASSUME DriveInv, NEW w \in Driving, ~Live(worker[w].token) PROVE swap = NoSwap
  BY DEF DriveInv, OfLastSwap, Live

LEMMA NoneMeansDead == ASSUME swap = NoSwap, NEW t PROVE ~Live(t)
  BY DEF Live, NoSwap

\* A step of a worker that turns the heater on for nobody who has no swap.
LEMMA WorkerHeat ==
  ASSUME HeatInv,
         \A v \in Worker : MayHeat(v)' => MayHeat(v),
         heater' = "swap" => \/ heater = "swap"
                            \/ /\ swap # NoSwap \/ \E r \in Request : At(r, "cancelling")
                               /\ \A r \in Request : ~Started(r),
         swap' = NoSwap <=> swap = NoSwap,
         UNCHANGED <<registered, request>>
  PROVE  HeatInv'
<1>1. heater' = "swap" => swap' # NoSwap \/ \E r \in Request : At(r, "cancelling")' \/ At(r, "cooling")'
  BY DEF HeatInv, At
<1>2. \A r \in Request : /\ Started(r)' => heater' # "swap"
                         /\ Setting(r)' => swap' # NoSwap
                         /\ At(r, "cancelling")' => request'[r].thread = registered' /\ swap' = NoSwap
  BY DEF HeatInv, At, Started, Setting
<1>3. \A v \in Worker : MayHeat(v)' /\ swap' = NoSwap => \E r \in Request : At(r, "cancelling")'
  BY DEF HeatInv, At
<1> QED
  BY <1>1, <1>2, <1>3 DEF HeatInv

\* Marks and clears of a worker.
LEMMA MarkKeepsSwap ==
  ASSUME DriveInv, NEW t, NEW phase, Mark(t, phase)
  PROVE  swap' = NoSwap <=> swap = NoSwap
<1>1. CASE Live(t)
  <2>1. swap \in Swap /\ swap' = [swap EXCEPT !.phase = phase] /\ swap.token # 0
    BY <1>1 DEF DriveInv, TypeOK, Mark, Live
  <2>2. swap'.token # 0
    BY <2>1 DEF Swap
  <2> QED
    BY <2>1, <2>2 DEF NoSwap
<1>2. CASE ~Live(t)
  BY <1>2 DEF Mark
<1> QED
  BY <1>1, <1>2

\* A worker that goes on does not become one that may heat.
LEMMA NoNewHeat ==
  ASSUME DriveInv, NEW w \in Worker, worker[w].pc \in {"begin", "borrow", "send", "wait"},
         \/ Ends(w) \/ \E pc : Becomes(w, pc)
         \/ \E pc, step : worker' = [worker EXCEPT ![w].pc = pc, ![w].step = step]
  PROVE  \A v \in Worker : MayHeat(v)' => MayHeat(v)
<1>1. worker[w] \in Driver /\ worker \in [Worker -> Driver] /\ Asleep.pc = "dead"
  BY DEF DriveInv, TypeOK, Asleep
<1>2. \A v \in Worker : v # w => worker'[v] = worker[v]
  BY <1>1 DEF Ends, Becomes
<1>3. worker'[w].pc = "dead" \/ worker'[w].late = worker[w].late
  <2>1. CASE Ends(w)
    BY <1>1, <2>1 DEF Ends
  <2>2. CASE \E pc : Becomes(w, pc)
    <3>1. PICK pc : worker'[w] = [worker[w] EXCEPT !.pc = pc]
      BY <1>1, <2>2 DEF Becomes
    <3> QED
      BY <1>1, <3>1 DEF Driver
  <2>3. CASE \E pc, step : worker' = [worker EXCEPT ![w].pc = pc, ![w].step = step]
    <3>1. PICK pc, step : worker'[w] = [worker[w] EXCEPT !.pc = pc, !.step = step]
      BY <1>1, <2>3
    <3> QED
      BY <1>1, <3>1 DEF Driver
  <2> QED
    BY <2>1, <2>2, <2>3
<1> QED
  BY <1>2, <1>3 DEF MayHeat

LEMMA WorkerStepsHeat ==
  ASSUME DriveInv, HeatInv, LateInv, OneClient, NEW w \in Worker,
         WorkerSteps(w) \/ WorkerFails(w) \/ WorkerCrashes(w)
  PROVE  HeatInv'
<1>0. /\ worker[w] \in Driver /\ worker \in [Worker -> Driver]
      /\ Asleep.pc = "dead"
  BY DEF DriveInv, TypeOK, Driver, Asleep
<1>2. CASE WorkerBegins(w)
  <2>1. UNCHANGED <<heater, registered, request>>
    BY <1>2 DEF WorkerBegins, WorkerElse
  <2>2. swap' = NoSwap <=> swap = NoSwap
    BY <1>2, MarkKeepsSwap DEF WorkerBegins
  <2>3. \A v \in Worker : MayHeat(v)' => MayHeat(v)
    BY <1>2, NoNewHeat DEF WorkerBegins
  <2> QED
    BY <2>1, <2>2, <2>3, WorkerHeat
<1>10. CASE WorkerIsServed(w)
  <2>1. UNCHANGED <<heater, registered, request>>
    BY <1>10 DEF WorkerIsServed, WorkerElse
  <2>2. swap' = NoSwap <=> swap = NoSwap
    BY <1>10, MarkKeepsSwap DEF WorkerIsServed
  <2>3. \A v \in Worker : MayHeat(v)' => MayHeat(v)
    BY <1>10, NoNewHeat DEF WorkerIsServed
  <2> QED
    BY <2>1, <2>2, <2>3, WorkerHeat
<1>3. CASE WorkerSends(w)
  <2>1. worker[w].pc = "send" /\ UNCHANGED <<registered, request>> /\ w \in Driving
    BY <1>3 DEF WorkerSends, WorkerElse, Driving
  <2>2. swap' = NoSwap <=> swap = NoSwap
    BY <1>3, MarkKeepsSwap DEF WorkerSends
  <2>3. \A v \in Worker : MayHeat(v)' => MayHeat(v)
    BY <1>3, NoNewHeat DEF WorkerSends
  <2>4. \A r \in Request : ~Started(r)
    BY <2>1 DEF DriveInv, Known, Setting, Started, Modes
  <2>5. heater' = "swap" => heater = "swap" \/ ~worker[w].late
    BY <1>3 DEF WorkerSends, Heats
  <2>6. swap = NoSwap /\ ~worker[w].late => \E r \in Request : At(r, "cancelling")
    BY <2>1 DEF HeatInv, MayHeat
  <2> QED
    BY <2>1, <2>2, <2>3, <2>4, <2>5, <2>6, WorkerHeat
<1>4. CASE WorkerGoesOn(w)
  <2>1. UNCHANGED <<heater, registered, request>>
    BY <1>4 DEF WorkerGoesOn, WorkerElse
  <2>2. swap' = NoSwap <=> swap = NoSwap
    BY <1>4, MarkKeepsSwap DEF WorkerGoesOn
  <2>3. \A v \in Worker : MayHeat(v)' => MayHeat(v)
    BY <1>4, NoNewHeat DEF WorkerGoesOn
  <2> QED
    BY <2>1, <2>2, <2>3, WorkerHeat
<1>5. CASE WorkerIsCancelled(w)
  <2>1. UNCHANGED <<heater, registered, request>>
    BY <1>5 DEF WorkerIsCancelled, WorkerElse
  <2>2. swap' = NoSwap <=> swap = NoSwap
    BY <1>5, MarkKeepsSwap DEF WorkerIsCancelled
  <2>3. \A v \in Worker : MayHeat(v)' => MayHeat(v)
    <3>1. worker[w].pc = "wait" /\ (Ends(w) \/ worker' = [worker EXCEPT ![w].pc = "delay", ![w].step = @ + 1])
      BY <1>5 DEF WorkerIsCancelled
    <3>2. CASE Ends(w)
      BY <3>1, <3>2, NoNewHeat
    <3>3. CASE worker' = [worker EXCEPT ![w].pc = "delay", ![w].step = worker[w].step + 1]
      BY <3>1, <3>3, NoNewHeat
    <3> QED
      BY <3>1, <3>2, <3>3
  <2> QED
    BY <2>1, <2>2, <2>3, WorkerHeat
<1>6. CASE WorkerCools(w)
  <2>1. w \in Driving /\ Sent("cool") /\ worker' = [worker EXCEPT ![w] = Asleep]
        /\ UNCHANGED <<registered, request>> /\ (swap' = swap \/ swap' = NoSwap)
    BY <1>6 DEF WorkerCools, WorkerElse, Driving, Ends, Clear
  <2>2. OneDriver /\ \A r \in Request : ~Setting(r)
    BY <2>1, Alone DEF DriveInv, Known
  <2>3. heater' # "swap"
    BY <2>1 DEF Sent, Heats
  <2>4. \A v \in Worker : ~MayHeat(v)'
    <3> SUFFICES ASSUME NEW v \in Worker, MayHeat(v)' PROVE FALSE
      OBVIOUS
    <3>1. v # w /\ worker'[v] = worker[v]
      BY <1>0, <2>1 DEF MayHeat
    <3>2. v \in Driving
      BY <3>1 DEF MayHeat, Driving
    <3> QED
      BY <2>1, <2>2, <3>1, <3>2 DEF OneDriver
  <2>5. \A r \in Request : At(r, "cancelling")' => request'[r].thread = registered' /\ swap' = NoSwap
    BY <2>1 DEF HeatInv, At
  <2> QED
    BY <2>1, <2>2, <2>3, <2>4, <2>5 DEF HeatInv, Setting, Started
<1>7. CASE CrashedCools(w)
  <2>1. worker' = [worker EXCEPT ![w] = Asleep] /\ UNCHANGED <<swap, registered, request>>
        /\ (Sent("cool") \/ heater' = heater)
    BY <1>7 DEF CrashedCools, WorkerElse, Ends
  <2>2. heater' = heater \/ heater' # "swap"
    BY <2>1 DEF Sent, Heats
  <2>3. \A v \in Worker : MayHeat(v)' => MayHeat(v)
    BY <1>0, <2>1 DEF MayHeat
  <2> QED
    BY <2>1, <2>2, <2>3, WorkerHeat
<1>8. CASE WorkerFails(w)
  <2>1. UNCHANGED <<heater, registered, request>>
    BY <1>8 DEF WorkerFails, WorkerElse
  <2>2. swap' = NoSwap <=> swap = NoSwap
    BY <1>8, MarkKeepsSwap DEF WorkerFails
  <2>3. \A v \in Worker : MayHeat(v)' => MayHeat(v)
    BY <1>0, <1>8 DEF WorkerFails, Ends, Becomes, MayHeat
  <2> QED
    BY <2>1, <2>2, <2>3, WorkerHeat
<1>9. CASE WorkerCrashes(w)
  <2>1. UNCHANGED <<heater, registered, request>>
    BY <1>9 DEF WorkerCrashes, WorkerElse
  <2>2. swap' = NoSwap <=> swap = NoSwap
    BY <1>9, MarkKeepsSwap DEF WorkerCrashes
  <2>3. \A v \in Worker : MayHeat(v)' => MayHeat(v)
    BY <1>0, <1>9 DEF WorkerCrashes, Ends, Becomes, MayHeat
  <2> QED
    BY <2>1, <2>2, <2>3, WorkerHeat
<1> QED
  BY <1>2, <1>3, <1>4, <1>5, <1>6, <1>7, <1>8, <1>9, <1>10 DEF WorkerSteps

\* A route that is being set up, or goes to register its thread, has no worker that drives.
LEMMA SettingFacts ==
  ASSUME DriveInv, HeatInv, NEW r \in Request, Setting(r)
  PROVE  /\ swap # NoSwap /\ request[r].token = tokens /\ tokens # 0 /\ Live(request[r].token)
         /\ \A w \in Worker : ~MayHeat(w)
<1>1. swap # NoSwap /\ request[r].token = tokens /\ tokens # 0
  BY DEF DriveInv, HeatInv, OfLastSwap
<1>2. Live(request[r].token)
  BY <1>1 DEF DriveInv, OfLastSwap, Live
<1>3. Driving = {}
  BY DEF DriveInv, Known
<1> QED
  BY <1>1, <1>2, <1>3 DEF Driving, MayHeat

\* The step of the one client's request to a place d: HeatInv is then about d alone.
LEMMA RouteHeat ==
  ASSUME DriveInv, OneClient, NEW r \in Request, NEW d, request' = [request EXCEPT ![r] = d],
         heater' = "swap" => swap' # NoSwap \/ d.pc \in {"cancelling", "cooling"},
         d.pc \in Modes => heater' # "swap",
         d.pc \in {"legacy", "manual", "confirming", "confirmed"} => swap' # NoSwap,
         d.pc = "cancelling" => d.thread = registered' /\ swap' = NoSwap,
         \A w \in Worker : MayHeat(w)' /\ swap' = NoSwap => d.pc = "cancelling"
  PROVE  HeatInv'
<1>1. \A q \in Request : q = r /\ request'[q] = d
  BY DEF DriveInv, TypeOK, OneClient
<1> QED
  BY <1>1 DEF HeatInv, At, Started, Setting

LEMMA GoesHeat ==
  ASSUME DriveInv, OneClient, NEW r \in Request, NEW pc \in {"register", "confirmed"}, NEW t, NEW w,
         Goes(r, pc, t, w), swap' # NoSwap
  PROVE  HeatInv'
<1> DEFINE d == [pc |-> pc, token |-> t, thread |-> w]
<1>1. request' = [request EXCEPT ![r] = d] /\ d.pc = pc
  BY DEF Goes
<1> HIDE DEF d
<1> QED
  BY <1>1, RouteHeat DEF Modes

LEMMA RouteStepsHeat ==
  ASSUME DriveInv, HeatInv, OneClient, NEW r \in Request,
         \/ \E mode \in Modes : StartRegisters(r, mode)
         \/ ConfirmLooks(r) \/ CancelClears(r) \/ RouteRaises(r) \/ RouteSteps(r)
  PROVE  HeatInv'
<1>0. \A q \in Request : q = r
  BY DEF OneClient
<1>1. ASSUME NEW mode \in Modes, StartRegisters(r, mode) PROVE HeatInv'
  <2> DEFINE d == [pc |-> mode, token |-> tokens + 1, thread |-> NoWorker]
  <2>1. /\ At(r, "idle") /\ swap = NoSwap /\ request' = [request EXCEPT ![r] = d]
        /\ heater' = heater /\ swap'.token = tokens + 1
    BY <1>1 DEF StartRegisters, Goes
  <2>2. heater # "swap"
    BY <1>0, <2>1 DEF HeatInv, At
  <2>3. tokens + 1 # 0
    BY DEF DriveInv, TypeOK
  <2>4. swap' # NoSwap
    BY <2>1, <2>3 DEF NoSwap
  <2>5. d.pc # "cancelling"
    BY DEF Modes
  <2> QED
    BY <2>1, <2>2, <2>4, <2>5, RouteHeat
<1>2. CASE StartGoes(r)
  <2>1. Setting(r) /\ swap # NoSwap /\ swap' = swap
    BY <1>2, SettingFacts DEF StartGoes, Started, Modes, Setting
  <2>2. CASE Answers(r)
    BY <2>1, <2>2, RouteHeat DEF Answers, Quiet, Modes
  <2>3. ASSUME NEW w \in Worker, Goes(r, "register", request[r].token, w) PROVE HeatInv'
    BY <2>1, <2>3, GoesHeat
  <2> QED
    BY <1>2, <2>2, <2>3 DEF StartGoes, Spawn
<1>3. CASE StartRefused(r)
  <2>1. /\ Setting(r) /\ heater # "swap" /\ heater' = heater /\ worker' = worker
        /\ request' = [request EXCEPT ![r] = Quiet] /\ Quiet.pc = "idle"
    BY <1>3 DEF StartRefused, Started, Modes, Setting, Answers, Quiet, HeatInv
  <2> QED
    BY <2>1, SettingFacts, RouteHeat DEF Modes, MayHeat
<1>4. CASE Registers(r)
  <2>1. /\ At(r, "register") /\ UNCHANGED <<swap, worker, heater>>
        /\ request' = [request EXCEPT ![r] = Quiet] /\ Quiet.pc = "idle"
    BY <1>4 DEF Registers, Answers, Quiet
  <2>2. heater = "swap" => swap # NoSwap
    BY <1>0, <2>1 DEF HeatInv, At
  <2>3. \A w \in Worker : MayHeat(w)' => swap # NoSwap
    BY <1>0, <2>1 DEF HeatInv, At, MayHeat
  <2> QED
    BY <2>1, <2>2, <2>3, RouteHeat DEF Modes
<1>5. CASE ConfirmLooks(r)
  <2>1. At(r, "idle") /\ worker' = worker /\ swap # NoSwap /\ swap.phase \notin RunningPhases
    BY <1>5 DEF ConfirmLooks
  <2>2. Driving = {}
    BY <2>1 DEF DriveInv, PhaseShows
  <2>3. \A w \in Worker : ~MayHeat(w)'
    BY <2>1, <2>2 DEF Driving, MayHeat
  <2>4. CASE /\ swap' = NoSwap /\ UNCHANGED request
             /\ heater' = IF heater = "swap" THEN "user" ELSE heater
    <3>1. heater' # "swap" /\ request' = [request EXCEPT ![r] = request[r]] /\ request[r].pc = "idle"
      BY <2>1, <2>4 DEF DriveInv, TypeOK, At
    <3> QED
      BY <2>3, <3>1, RouteHeat DEF Modes
  <2>5. CASE Goes(r, "confirming", swap.token, NoWorker) /\ UNCHANGED <<swap, heater>>
    <3> DEFINE d == [pc |-> "confirming", token |-> swap.token, thread |-> NoWorker]
    <3>1. request' = [request EXCEPT ![r] = d] /\ d.pc = "confirming"
      BY <2>5 DEF Goes
    <3> HIDE DEF d
    <3> QED
      BY <2>1, <2>3, <2>5, <3>1, RouteHeat DEF Modes
  <2> QED
    BY <1>5, <2>4, <2>5 DEF ConfirmLooks
<1>6. CASE ConfirmMarks(r)
  <2>1. Setting(r) /\ worker' = worker /\ heater' = heater /\ Mark(request[r].token, "heating_load")
    BY <1>6 DEF ConfirmMarks, Setting, At
  <2>2. swap' # NoSwap
    BY <2>1, SettingFacts, MarkKeepsSwap
  <2> QED
    BY <1>6, <2>1, <2>2, GoesHeat DEF ConfirmMarks
<1>7. CASE ConfirmGoes(r)
  <2>1. Setting(r) /\ swap' = swap /\ heater' = heater
    BY <1>7 DEF ConfirmGoes, Setting, At
  <2>2. PICK w \in Worker : Goes(r, "register", request[r].token, w)
    BY <1>7 DEF ConfirmGoes, Spawn
  <2> QED
    BY <2>1, <2>2, SettingFacts, GoesHeat
<1>8. CASE ConfirmRefused(r)
  <2>1. /\ Setting(r) /\ worker' = worker /\ heater' = heater /\ Mark(request[r].token, "error")
        /\ request' = [request EXCEPT ![r] = Quiet] /\ Quiet.pc = "idle"
    BY <1>8 DEF ConfirmRefused, Setting, At, Answers, Quiet
  <2>2. swap' # NoSwap
    BY <2>1, SettingFacts, MarkKeepsSwap
  <2> QED
    BY <2>1, <2>2, RouteHeat DEF Modes
<1>9. CASE RouteRaises(r)
  <2>1. /\ Setting(r) /\ UNCHANGED <<worker, heater, swap>>
        /\ request' = [request EXCEPT ![r] = Quiet] /\ Quiet.pc = "idle"
    BY <1>9 DEF RouteRaises, Started, Modes, Setting, At, Answers, Quiet
  <2> QED
    BY <2>1, SettingFacts, RouteHeat DEF Modes, MayHeat
<1>10. CASE CancelClears(r)
  <2> DEFINE d == [pc |-> "cancelling", token |-> swap.token, thread |-> registered]
  <2>1. request' = [request EXCEPT ![r] = d] /\ registered' = registered /\ d.pc = "cancelling"
        /\ d.thread = registered /\ swap' = NoSwap
    BY <1>10 DEF CancelClears, Goes
  <2> HIDE DEF d
  <2> QED
    BY <2>1, RouteHeat DEF Modes
<1>11. CASE CancelJoins(r)
  <2> DEFINE d == [pc |-> "cooling", token |-> request[r].token, thread |-> NoWorker]
  <2>1. /\ At(r, "cancelling") /\ request' = [request EXCEPT ![r] = d] /\ d.pc = "cooling"
        /\ UNCHANGED <<swap, heater>>
        /\ Alive(request[r].thread) => worker[request[r].thread].pc \in {"borrow", "delay", "crashed"}
    BY <1>11 DEF CancelJoins, Goes
  <2>2. request[r].thread = registered
    BY <2>1 DEF HeatInv
  <2>3. ASSUME NEW w \in Worker, MayHeat(w)' PROVE FALSE
    <3>1. /\ worker'[w].pc = worker[w].pc
          /\ worker'[w].late <=> worker[w].late \/ (w = request[r].thread /\ worker[w].pc = "borrow")
      BY <1>11, JoinsLate
    <3>2. MayHeat(w) /\ w \in Driving
      BY <2>3, <3>1 DEF MayHeat, Driving
    <3>3. w = registered
      BY <2>1, <3>2, DrivesRegistered DEF At
    <3>4. worker[w].pc = "borrow"
      BY <2>1, <2>2, <3>2, <3>3, SwapAssumption DEF Alive, MayHeat
    <3> QED
      BY <2>2, <2>3, <3>1, <3>3, <3>4 DEF MayHeat
  <2> HIDE DEF d
  <2> QED
    BY <2>1, <2>3, RouteHeat DEF Modes
<1>12. CASE CancelCools(r)
  <2>1. /\ At(r, "cooling") /\ request' = [request EXCEPT ![r] = Quiet] /\ Quiet.pc = "idle"
        /\ UNCHANGED <<swap, worker>>
    BY <1>12 DEF CancelCools, Answers, Quiet
  <2>2. heater' # "swap"
    BY <1>12 DEF CancelCools, Sent, Heats
  <2>3. \A w \in Worker : MayHeat(w)' => swap # NoSwap
    BY <1>0, <2>1 DEF HeatInv, At, MayHeat
  <2> QED
    BY <2>1, <2>2, <2>3, RouteHeat DEF Modes
<1> QED
  BY <1>1, <1>2, <1>3, <1>4, <1>5, <1>6, <1>7, <1>8, <1>9, <1>10, <1>11, <1>12 DEF RouteSteps

LEMMA InitHeat == Init => HeatInv
  BY DEF Init, HeatInv, MayHeat, Asleep, Quiet, At, Started, Setting, Modes

LEMMA NextHeat == ASSUME DriveInv, HeatInv, LateInv, OneClient, [Next]_vars PROVE HeatInv'
<1>1. CASE Preheat
  BY <1>1 DEF Preheat, HeatInv, At, Started, Setting, MayHeat
<1>2. CASE PrintToggles \/ UNCHANGED vars
  BY <1>2 DEF PrintToggles, vars, HeatInv, At, Started, Setting, MayHeat
<1> QED
  BY <1>1, <1>2, WorkerStepsHeat, RouteStepsHeat DEF Next

-----------------------------------------------------------------------------
(* Who is late: LateInv. *)

\* Whoever is late has no swap, which a start waits for and no other step brings back.
LEMMA LateStep ==
  ASSUME LateInv, swap = NoSwap => swap' = NoSwap,
         \A v \in Worker : worker'[v].late =>
           \/ worker[v].late /\ worker'[v].pc = "crashed"
           \/ /\ worker[v].late /\ worker'[v].pc = worker[v].pc
              /\ worker'[v].stage = worker[v].stage /\ worker'[v].step = worker[v].step
           \/ /\ swap' = NoSwap /\ worker'[v].pc \in {"send", "wait"}
              /\ worker'[v].stage = "unload" /\ worker'[v].step = 1
           \/ swap' = NoSwap /\ worker'[v].pc = "borrow"
  PROVE  LateInv'
  BY DEF LateInv

LEMMA FirstHeats == Program["unload"][1].sends = "heat" /\ Program["unload"][1].phase = "heating_unload"
<1>1. Program["unload"] = Program.unload
  BY DEF Program
<1>2. Program.unload[1].sends = "heat" /\ Program.unload[1].phase = "heating_unload"
  BY DEF Program, Step
<1> QED
  BY <1>1, <1>2

LEMMA WorkerStepsLate ==
  ASSUME DriveInv, LateInv, NEW w \in Worker, WorkerSteps(w) \/ WorkerFails(w) \/ WorkerCrashes(w)
  PROVE  LateInv'
<1>0. /\ worker \in [Worker -> Driver] /\ ~Asleep.late
      /\ worker[w].pc = "send" => w \in Driving
  BY DEF DriveInv, TypeOK, Asleep, Driving
<1>1. swap = NoSwap => swap' = NoSwap
  <2>1. WorkerCools(w) \/ \E phase : Mark(worker[w].token, phase) \/ UNCHANGED swap
    BY DEF WorkerSteps, WorkerBegins, WorkerIsServed, WorkerSends, WorkerGoesOn, WorkerIsCancelled, CrashedCools,
           WorkerFails, WorkerCrashes
  <2> QED
    BY <2>1, NoneMeansDead DEF WorkerCools, Mark, Clear
<1>2. CASE WorkerBegins(w)
  <2>1. ~worker[w].late
    BY <1>2 DEF WorkerBegins, LateInv
  <2>2. \A v \in Worker : worker'[v].late => worker'[v] = worker[v]
    BY <1>0, <1>2, <2>1 DEF WorkerBegins, Ends, Becomes, Driver
  <2> QED
    BY <1>1, <2>2, LateStep
<1>3. CASE WorkerIsServed(w)
  <2>1. \A v \in Worker \ {w} : worker'[v] = worker[v]
    BY <1>0, <1>3 DEF WorkerIsServed, Ends
  <2>2. ASSUME worker'[w].late
        PROVE  /\ swap' = NoSwap /\ worker'[w].pc \in {"send", "wait"}
               /\ worker'[w].stage = "unload" /\ worker'[w].step = 1
    <3>1. worker' = [worker EXCEPT ![w].pc = "send", ![w].step = 1]
      BY <1>0, <1>3, <2>2 DEF WorkerIsServed, Ends
    <3>2. worker'[w] = [worker[w] EXCEPT !.pc = "send", !.step = 1] /\ worker[w] \in Driver
      BY <1>0, <3>1
    <3>3. worker'[w].pc = "send" /\ worker'[w].step = 1 /\ worker'[w].stage = worker[w].stage
          /\ worker'[w].late = worker[w].late
      BY <3>2 DEF Driver
    <3>4. swap = NoSwap /\ w \in Driving
      BY <1>3, <2>2, <3>3 DEF WorkerIsServed, LateInv, Driving
    <3>5. ~Live(worker[w].token) /\ worker[w].stage \in {"unload", "load"}
      BY <3>4, NoneMeansDead, Stages DEF DriveInv, AtSteps
    <3>6. worker[w].stage # "load"
      BY <1>0, <1>3, <2>2, <3>5 DEF WorkerIsServed, Ends
    <3> QED
      BY <1>1, <3>3, <3>4, <3>5, <3>6
  <2> QED
    BY <1>1, <2>1, <2>2, LateStep
<1>4. CASE WorkerSends(w)
  <2>1. \A v \in Worker \ {w} : worker'[v] = worker[v]
    BY <1>0, <1>4 DEF WorkerSends, Becomes
  <2>2. ASSUME worker'[w].late
        PROVE  /\ swap' = NoSwap /\ worker'[w].pc \in {"send", "wait"}
               /\ worker'[w].stage = "unload" /\ worker'[w].step = 1
    <3>1. PICK pc \in {"delay", "wait"} :
            worker' = [worker EXCEPT ![w].pc = pc] /\ (Current(w).sends # "cool" => pc = "wait")
      BY <1>4 DEF WorkerSends, Becomes
    <3>2. worker'[w] = [worker[w] EXCEPT !.pc = pc] /\ worker[w] \in Driver
      BY <1>0, <3>1
    <3>3. worker'[w].pc = pc /\ worker'[w].step = worker[w].step /\ worker'[w].stage = worker[w].stage
          /\ worker'[w].late = worker[w].late
      BY <3>2 DEF Driver
    <3>4. swap = NoSwap /\ worker[w].stage = "unload" /\ worker[w].step = 1
      BY <1>4, <2>2, <3>3 DEF WorkerSends, LateInv
    <3>5. pc = "wait"
      BY <3>1, <3>4, FirstHeats DEF Current
    <3> QED
      BY <1>1, <3>3, <3>4, <3>5
  <2> QED
    BY <1>1, <2>1, <2>2, LateStep
<1>5. CASE WorkerGoesOn(w)
  <2>1. ~worker[w].late
    BY <1>5, NoneMeansDead DEF WorkerGoesOn, LateInv
  <2>2. \A v \in Worker : worker'[v].late => worker'[v] = worker[v]
    BY <1>0, <1>5, <2>1 DEF WorkerGoesOn, Ends, Driver
  <2> QED
    BY <1>1, <2>2, LateStep
<1>6. CASE WorkerIsCancelled(w)
  <2>1. worker[w].late => Current(w).phase # "loading"
    BY <1>6, FirstHeats DEF WorkerIsCancelled, LateInv, Current
  <2>2. \A v \in Worker : worker'[v].late => worker'[v] = worker[v]
    BY <1>0, <1>6, <2>1 DEF WorkerIsCancelled, Ends, Driver
  <2> QED
    BY <1>1, <2>2, LateStep
<1>7. CASE WorkerCools(w) \/ CrashedCools(w) \/ WorkerFails(w)
  <2>1. \A v \in Worker : worker'[v].late => worker'[v] = worker[v]
    BY <1>0, <1>7 DEF WorkerCools, CrashedCools, WorkerFails, Ends
  <2> QED
    BY <1>1, <2>1, LateStep
<1>8. CASE WorkerCrashes(w)
  <2>1. \A v \in Worker \ {w} : worker'[v] = worker[v]
    BY <1>0, <1>8 DEF WorkerCrashes, Becomes
  <2>2. worker'[w] = [worker[w] EXCEPT !.pc = "crashed"] /\ worker[w] \in Driver
    BY <1>0, <1>8 DEF WorkerCrashes, Becomes
  <2>3. worker'[w].pc = "crashed" /\ worker'[w].late = worker[w].late
    BY <2>2 DEF Driver
  <2> QED
    BY <1>1, <2>1, <2>3, LateStep
<1> QED
  BY <1>2, <1>3, <1>4, <1>5, <1>6, <1>7, <1>8 DEF WorkerSteps

LEMMA RouteStepsLate ==
  ASSUME DriveInv, HeatInv, LateInv, OneClient, NEW r \in Request,
         \/ \E mode \in Modes : StartRegisters(r, mode)
         \/ ConfirmLooks(r) \/ CancelClears(r) \/ RouteRaises(r) \/ RouteSteps(r)
  PROVE  LateInv'
<1>0. worker \in [Worker -> Driver]
  BY DEF DriveInv, TypeOK
<1>1. ASSUME NEW mode \in Modes, StartRegisters(r, mode) PROVE LateInv'
  <2>1. At(r, "idle") /\ ~Alive(registered) /\ worker' = worker
    BY <1>1 DEF StartRegisters
  <2>2. ASSUME NEW w \in Worker, worker[w].late PROVE worker[w].pc = "crashed"
    <3>1. worker[w].pc # "crashed" => w \in Driving
      BY <2>2 DEF LateInv, Driving
    <3>2. w \in Driving => w = registered
      BY <2>1, DrivesRegistered DEF At
    <3> QED
      BY <2>1, <3>1, <3>2, SwapAssumption DEF Alive, Driving
  <2> QED
    BY <2>1, <2>2 DEF LateInv
<1>2. CASE CancelJoins(r)
  <2>1. swap = NoSwap /\ swap' = swap
    BY <1>2 DEF CancelJoins, HeatInv
  <2>2. \A w \in Worker :
          /\ worker'[w].pc = worker[w].pc
          /\ worker'[w].stage = worker[w].stage /\ worker'[w].step = worker[w].step
          /\ worker'[w].late <=> worker[w].late \/ (w = request[r].thread /\ worker[w].pc = "borrow")
    BY <1>2, JoinsLate
  <2> QED
    BY <2>1, <2>2, LateStep
<1>3. CASE StartGoes(r) \/ ConfirmGoes(r)
  <2>1. swap' = swap
    BY <1>3 DEF StartGoes, ConfirmGoes
  <2>2. \A w \in Worker : worker'[w].late => worker'[w] = worker[w]
    BY <1>0, <1>3 DEF StartGoes, ConfirmGoes, Spawn
  <2> QED
    BY <2>1, <2>2, LateStep
<1>4. CASE \/ StartRefused(r) \/ Registers(r) \/ ConfirmLooks(r) \/ ConfirmMarks(r) \/ ConfirmRefused(r)
           \/ RouteRaises(r) \/ CancelClears(r) \/ CancelCools(r)
  <2>1. worker' = worker
    BY <1>4 DEF StartRefused, Registers, ConfirmLooks, ConfirmMarks, ConfirmRefused, RouteRaises, CancelClears,
                CancelCools
  <2>2. \/ \E t : Clear(t) \/ \E phase : Mark(t, phase)
        \/ swap' = swap \/ swap' = NoSwap
    BY <1>4 DEF StartRefused, Registers, ConfirmLooks, ConfirmMarks, ConfirmRefused, RouteRaises, CancelClears,
                CancelCools
  <2>3. swap = NoSwap => swap' = NoSwap
    BY <2>2, NoneMeansDead DEF Clear, Mark
  <2> QED
    BY <2>1, <2>3, LateStep
<1> QED
  BY <1>1, <1>2, <1>3, <1>4 DEF RouteSteps

LEMMA NextLate == ASSUME DriveInv, HeatInv, LateInv, OneClient, [Next]_vars PROVE LateInv'
<1>1. CASE Preheat \/ PrintToggles \/ UNCHANGED vars
  BY <1>1 DEF Preheat, PrintToggles, vars, LateInv
<1> QED
  BY <1>1, WorkerStepsLate, RouteStepsLate DEF Next

-----------------------------------------------------------------------------
\* While requests do not overlap, IInv holds in every state: types, who drives and for which swap,
\* what the phase shows of it (the phases the routes look at, web/__init__.py 1107, 5307), who is
\* left to turn the heater off, and who may turn it on late.
LEMMA Invariant == ASSUME OneClient PROVE Spec => []IInv
<1>1. Init => IInv
  BY InitInv, InitHeat DEF IInv, Init, LateInv, Asleep
<1>2. IInv /\ [Next]_vars => IInv'
  BY NextKeeps, NextHeat, NextLate DEF IInv
<1> QED
  BY <1>1, <1>2, PTL DEF Spec

\* Type correctness; and no worker drives a manual swap, which stays where it awaits the user.
THEOREM SwapTypeCorrect == ASSUME OneClient PROVE Spec => []TypeOK
<1>1. IInv => TypeOK
  BY DEF IInv, DriveInv
<1> QED
  BY <1>1, Invariant, PTL

\* The heater is not left on behind a swap that is over and answered for, whatever fails, is
\* cancelled or is refused on the way: a cancel cools, and says so when it could not.  Only a worker
\* that waited in borrow_mqtt() (web/__init__.py 1944) for longer than the cancel's join() may turn
\* it on again.
THEOREM HeaterSeenTo == ASSUME OneClient PROVE Spec => []NoHeatLeftUnlessLate
<1>1. IInv => NoHeatLeftUnlessLate
  BY DEF IInv, HeatInv, NoHeatLeftUnlessLate, At
<1> QED
  BY <1>1, Invariant, PTL

\* A thread whose swap was cancelled sends nothing any more but the cooldown, once the cancel's
\* join() is over: it is the thread that the cancel joined.  If it waited for the service all that
\* time, it sends the first command of an unload, and nothing after that.
THEOREM CancelStops == ASSUME OneClient PROVE Spec => CancelStopsUnlessLate
<1>1. ASSUME IInv, [Next]_vars
      PROVE  [\A w \in Worker :
                WorkerSends(w) /\ ~Live(worker[w].token) /\ (\A r \in Request : ~At(r, "cancelling"))
                  => \/ Current(w).sends = "cool"
                     \/ worker[w].late /\ worker[w].stage = "unload" /\ worker[w].step = 1]_vars
  <2> SUFFICES ASSUME NEW w \in Worker, WorkerSends(w), ~Live(worker[w].token),
                      \A r \in Request : ~At(r, "cancelling")
               PROVE  worker[w].late /\ worker[w].stage = "unload" /\ worker[w].step = 1
    OBVIOUS
  <2>1. worker[w].pc = "send" /\ w \in Driving
    BY DEF WorkerSends, Driving
  <2>2. swap = NoSwap
    BY <1>1, <2>1, DeadMeansNone DEF IInv
  <2>3. worker[w].late
    BY <1>1, <2>1, <2>2 DEF IInv, HeatInv, MayHeat
  <2> QED
    BY <1>1, <2>1, <2>3 DEF IInv, LateInv
<1> QED
  BY Invariant, <1>1, PTL DEF Spec, CancelStopsUnlessLate

\* Two swap threads never drive the printer together, however many swaps are started, cancelled
\* and confirmed one after the other and whatever fails in them.
THEOREM OneThreadDrives == ASSUME OneClient PROVE Spec => []OneDriver
<1>1. IInv => OneDriver
  BY Alone DEF IInv
<1> QED
  BY Invariant, <1>1, PTL

\* No command of a swap's thread is sent after a later swap has begun: the start waits for the
\* registered thread to have ended (_filament_swap_state_set_if_absent()).
THEOREM CommandsInOrder == ASSUME OneClient PROVE Spec => SwapsInOrder
<1>1. ASSUME IInv, [Next]_vars
      PROVE  [\A w \in Worker : WorkerSends(w) \/ WorkerCools(w) => worker[w].token = tokens]_vars
  <2> SUFFICES ASSUME NEW w \in Worker, WorkerSends(w) \/ WorkerCools(w)
               PROVE  worker[w].token = tokens
    OBVIOUS
  <2>1. w \in Driving
    BY DEF WorkerSends, WorkerCools, Driving
  <2> QED
    BY <1>1, <2>1 DEF IInv, DriveInv, OfLastSwap
<1> QED
  BY Invariant, <1>1, PTL DEF Spec, SwapsInOrder
=============================================================================
