---------------------------- MODULE ServiceManager ----------------------------
(***************************************************************************)
(* ServiceManager of web/lib/service.py for one service name: borrowers     *)
(* that get() and put() it (HTTP handlers, websockets, other services),     *)
(* restart() and restart_all(), and replace_service(), which puts a new     *)
(* Service object under the name.  refs and svcs are only touched under     *)
(* _lock; start(), stop() and the waits of one caller interleave with the   *)
(* service thread and with every other caller.                              *)
(***************************************************************************)
EXTENDS Service, Integers

CONSTANTS Borrowers,   \* threads that get() and put()
          Restarters,  \* threads that call Service.restart()
          Reloaders,   \* threads that call restart_all() (server reload)
          Replacers,   \* threads that call replace_service() (the video watchdog)
          Persistent,  \* the Service objects with `persistent` set: put() leaves them running
          ReadyArgs,   \* the values of get()'s ready argument in use
          NoThread     \* the owner of a lock nobody holds

Thread == Borrowers \cup Restarters \cup Reloaders \cup Replacers

ASSUME ManagerAssumption ==
  /\ IsFiniteSet(Borrowers)
  /\ NoThread \notin Thread
  /\ Borrowers \cap (Restarters \cup Reloaders \cup Replacers) = {}
  /\ Persistent \subseteq Svc
  /\ ReadyArgs \subseteq BOOLEAN /\ ReadyArgs # {}

VARIABLES
  cur,    \* svcs[name]
  refs,   \* refs[name]
  lock,   \* who is inside `with self._lock`
  rlock,  \* who is inside `with self._restart_lock` of the service
  cpc,    \* what each thread does next
  mine,   \* the Service object a thread works on (its local variable svc, or old)
  snap    \* restart()'s and restart_all()'s snapshot of svc.wanted

mgrVars == <<cur, refs, lock, rlock, cpc, mine, snap>>
vars == <<svcVars, mgrVars>>

ClientPc == {"idle", "getAwait", "getDecide", "getStart", "await", "awaitWait", "held",
             "getFailed", "putStop", "putAsserted",
             "stopCheck", "stopSet", "awaitStop", "startCheck", "startSet", "awaitUp",
             "replWait", "replKill", "replInstall"}

TypeOK ==
  /\ SvcTypeOK
  /\ cur   \in Svc
  /\ refs  \in Int
  /\ lock  \in Borrowers \cup {NoThread}
  /\ rlock \in Restarters \cup {NoThread}
  /\ cpc   \in [Thread -> ClientPc]
  /\ mine  \in [Thread -> Svc]
  /\ snap  \in [Thread -> BOOLEAN]

Init ==
  /\ SvcInit
  /\ cur \in Svc
  /\ refs = 0
  /\ lock = NoThread
  /\ rlock = NoThread
  /\ cpc = [c \in Thread |-> "idle"]
  /\ mine = [c \in Thread |-> cur]
  /\ snap = [c \in Thread |-> FALSE]

-----------------------------------------------------------------------------
At(c, pc)      == cpc[c] = pc
Step(c, pc)    == cpc' = [cpc EXCEPT ![c] = pc]
Use(c, s)      == mine' = [mine EXCEPT ![c] = s]
Request(s, w)  == wanted' = [wanted EXCEPT ![s] = w]
SvcUnchangedBut_wanted == UNCHANGED <<state, running, readyEvt, stoppedEvt, worker, tpc>>

\* await_stopped() returns: somebody wants the service again, or it has stopped.
AwaitStoppedReturns(s) == wanted[s] \/ stoppedEvt[s] \/ state[s] = "Stopped"

(* get(name, ready) *)

\* First block under _lock: count the reference, and see whether a stop is under way.
GetAcquire(c) ==
  /\ At(c, "idle") /\ lock = NoThread
  /\ refs' = refs + 1
  /\ Use(c, cur)
  /\ Step(c, IF state[cur] = "Stopping" THEN "getAwait" ELSE "getDecide")
  /\ UNCHANGED <<svcVars, cur, lock, rlock, snap>>

GetAwaitStopped(c) ==
  /\ At(c, "getAwait") /\ AwaitStoppedReturns(mine[c])
  /\ Step(c, "getDecide")
  /\ UNCHANGED <<svcVars, cur, refs, lock, rlock, mine, snap>>

\* After the second block: wait for the service unless the caller said ready=False.
AfterDecide(c) == \E ready \in ReadyArgs : Step(c, IF ready THEN "await" ELSE "held")

\* Second block under _lock: start the service if this is the only reference or it is
\* stopped.  start() tests its early return and then sets `wanted`.
GetDecide(c) ==
  /\ At(c, "getDecide") /\ lock = NoThread
  /\ Use(c, cur)
  /\ IF (refs = 1 \/ state[cur] = "Stopped") /\ ~StartIsNoop(cur)
       THEN Step(c, "getStart") /\ lock' = c
       ELSE AfterDecide(c) /\ UNCHANGED lock
  /\ UNCHANGED <<svcVars, cur, refs, rlock, snap>>

GetStart(c) ==
  /\ At(c, "getStart")
  /\ Request(mine[c], TRUE)
  /\ lock' = NoThread
  /\ AfterDecide(c)
  /\ SvcUnchangedBut_wanted
  /\ UNCHANGED <<cur, refs, rlock, mine, snap>>

\* Mutant: await_ready() waits although nobody wants the service.
AwaitReadyCheck_Always(c) ==
  /\ At(c, "await")
  /\ Step(c, "awaitWait")
  /\ UNCHANGED <<svcVars, cur, refs, lock, rlock, mine, snap>>

\* await_ready(): give up when nobody wants the service, otherwise wait on the event.
AwaitReadyCheck(c) ==
  /\ At(c, "await")
  /\ Step(c, IF running[mine[c]] /\ wanted[mine[c]] THEN "awaitWait" ELSE "getFailed")
  /\ UNCHANGED <<svcVars, cur, refs, lock, rlock, mine, snap>>

AwaitReadyReturn(c) ==
  /\ At(c, "awaitWait") /\ (readyEvt[mine[c]] \/ state[mine[c]] = "Running")
  /\ Step(c, "held")
  /\ UNCHANGED <<svcVars, cur, refs, lock, rlock, mine, snap>>

AwaitReadyTimeout(c) ==
  /\ At(c, "awaitWait") /\ ~readyEvt[mine[c]]
  /\ Step(c, "await")
  /\ UNCHANGED <<svcVars, cur, refs, lock, rlock, mine, snap>>

(* put(name): also the `except ServiceError` path of get() *)

\* Mutant: a get() that fails keeps its reference.
Put_FailedKeepsReference(c) ==
  /\ cpc[c] \in {"held", "getFailed"} /\ lock = NoThread
  /\ refs > 0
  /\ refs' = IF At(c, "held") THEN refs - 1 ELSE refs
  /\ Use(c, cur)
  /\ IF refs' = 0 /\ cur \notin Persistent /\ ~StopIsNoop(cur)
       THEN Step(c, "putStop") /\ lock' = c
       ELSE Step(c, "idle") /\ UNCHANGED lock
  /\ UNCHANGED <<svcVars, cur, rlock, snap>>

\* Mutant: every put() stops the service.
Put_AlwaysStops(c) ==
  /\ cpc[c] \in {"held", "getFailed"} /\ lock = NoThread
  /\ refs > 0
  /\ refs' = refs - 1
  /\ Use(c, cur)
  /\ IF ~StopIsNoop(cur)
       THEN Step(c, "putStop") /\ lock' = c
       ELSE Step(c, "idle") /\ UNCHANGED lock
  /\ UNCHANGED <<svcVars, cur, rlock, snap>>

Put(c) ==
  /\ cpc[c] \in {"held", "getFailed"} /\ lock = NoThread
  /\ refs > 0
  /\ refs' = refs - 1
  /\ Use(c, cur)
  /\ IF refs = 1 /\ cur \notin Persistent /\ ~StopIsNoop(cur)
       THEN Step(c, "putStop") /\ lock' = c
       ELSE Step(c, "idle") /\ UNCHANGED lock
  /\ UNCHANGED <<svcVars, cur, rlock, snap>>

\* put() of a name that has no references: its assertion fails.
PutAsserts(c) ==
  /\ cpc[c] \in {"held", "getFailed"} /\ lock = NoThread
  /\ refs = 0
  /\ Step(c, "putAsserted")
  /\ UNCHANGED <<svcVars, cur, refs, lock, rlock, mine, snap>>

PutStop(c) ==
  /\ At(c, "putStop")
  /\ Request(mine[c], FALSE)
  /\ lock' = NoThread
  /\ Step(c, "idle")
  /\ SvcUnchangedBut_wanted
  /\ UNCHANGED <<cur, refs, rlock, mine, snap>>

BorrowerStep(c) ==
  \/ GetAcquire(c) \/ GetAwaitStopped(c) \/ GetDecide(c) \/ GetStart(c)
  \/ AwaitReadyCheck(c) \/ AwaitReadyReturn(c) \/ AwaitReadyTimeout(c)
  \/ Put(c) \/ PutAsserts(c) \/ PutStop(c)

-----------------------------------------------------------------------------
(* restart(), under _restart_lock, and restart_all(await_ready=False), which has no lock. *)

\* Mutant: the snapshot is of the service itself.
RestartBegin_SnapshotsService(c) ==
  /\ At(c, "idle") /\ Use(c, cur)
  /\ \/ c \in Restarters /\ rlock = NoThread /\ rlock' = c
     \/ c \in Reloaders /\ UNCHANGED rlock
  /\ snap' = [snap EXCEPT ![c] = cur]
  /\ Step(c, "stopCheck")
  /\ UNCHANGED <<svcVars, cur, refs, lock>>

RestartBegin(c) ==
  /\ At(c, "idle") /\ Use(c, cur)
  /\ \/ c \in Restarters /\ rlock = NoThread /\ rlock' = c
     \/ c \in Reloaders /\ UNCHANGED rlock
  /\ snap' = [snap EXCEPT ![c] = wanted[cur]]
  /\ Step(c, "stopCheck")
  /\ UNCHANGED <<svcVars, cur, refs, lock>>

StopCheck(c) ==
  /\ At(c, "stopCheck")
  /\ Step(c, IF StopIsNoop(mine[c]) THEN "awaitStop" ELSE "stopSet")
  /\ UNCHANGED <<svcVars, cur, refs, lock, rlock, mine, snap>>

StopSet(c) ==
  /\ At(c, "stopSet")
  /\ Request(mine[c], FALSE)
  /\ Step(c, "awaitStop")
  /\ SvcUnchangedBut_wanted
  /\ UNCHANGED <<cur, refs, lock, rlock, mine, snap>>

\* The operation is over: restart() leaves its lock.
RestartEnd(c) == Step(c, "idle") /\ rlock' = IF rlock = c THEN NoThread ELSE rlock

AwaitStopped(c) ==
  /\ At(c, "awaitStop") /\ AwaitStoppedReturns(mine[c])
  /\ IF snap[c] THEN Step(c, "startCheck") /\ UNCHANGED rlock ELSE RestartEnd(c)
  /\ UNCHANGED <<svcVars, cur, refs, lock, mine, snap>>

\* Where start() leads: restart() waits for the service, a reload does not.
AfterStart(c) ==
  IF c \in Restarters THEN Step(c, "awaitUp") /\ UNCHANGED rlock ELSE RestartEnd(c)

StartCheck(c) ==
  /\ At(c, "startCheck")
  /\ IF StartIsNoop(mine[c]) THEN AfterStart(c) ELSE Step(c, "startSet") /\ UNCHANGED rlock
  /\ UNCHANGED <<svcVars, cur, refs, lock, mine, snap>>

StartSet(c) ==
  /\ At(c, "startSet")
  /\ Request(mine[c], TRUE)
  /\ AfterStart(c)
  /\ SvcUnchangedBut_wanted
  /\ UNCHANGED <<cur, refs, lock, mine, snap>>

\* await_ready() inside restart(): returns, or raises ServiceStoppedError; the lock is left.
AwaitUp(c) ==
  /\ At(c, "awaitUp")
  /\ LET s == mine[c] IN readyEvt[s] \/ state[s] = "Running" \/ ~(running[s] /\ wanted[s])
  /\ RestartEnd(c)
  /\ UNCHANGED <<svcVars, cur, refs, lock, mine, snap>>

RestarterStep(c) ==
  \/ RestartBegin(c) \/ StopCheck(c) \/ StopSet(c) \/ AwaitStopped(c)
  \/ StartCheck(c) \/ StartSet(c) \/ AwaitUp(c)

-----------------------------------------------------------------------------
(* replace_service(name, svc): stop the old object, wait for it at most
   _REPLACE_SERVICE_STOP_TIMEOUT_SECONDS, end its thread, put the new object in place.  *)

ReplaceStop(c) ==
  /\ At(c, "idle") /\ \E s \in Svc : s # cur /\ running[s]
  /\ Use(c, cur)
  /\ Request(cur, FALSE)
  /\ Step(c, IF state[cur] = "Stopped" THEN "replKill" ELSE "replWait")
  /\ SvcUnchangedBut_wanted
  /\ UNCHANGED <<cur, refs, lock, rlock, snap>>

\* await_stopped(timeout) returned, with the service stopped, wanted again or the time over.
ReplaceWaited(c) ==
  /\ At(c, "replWait")
  /\ Step(c, "replKill")
  /\ UNCHANGED <<svcVars, cur, refs, lock, rlock, mine, snap>>

ReplaceKill(c) ==
  /\ At(c, "replKill")
  /\ running' = [running EXCEPT ![mine[c]] = FALSE]
  /\ Step(c, "replInstall")
  /\ UNCHANGED <<state, wanted, readyEvt, stoppedEvt, worker, tpc>>
  /\ UNCHANGED <<cur, refs, lock, rlock, mine, snap>>

\* After join(timeout), whether or not the thread has ended: swap under _lock.
ReplaceInstall(c) ==
  /\ At(c, "replInstall") /\ lock = NoThread
  /\ \E s \in Svc : s # cur /\ running[s] /\ cur' = s
  /\ refs' = 0
  /\ Step(c, "idle")
  /\ UNCHANGED <<svcVars, lock, rlock, mine, snap>>

ReplacerStep(c) ==
  ReplaceStop(c) \/ ReplaceWaited(c) \/ ReplaceKill(c) \/ ReplaceInstall(c)

-----------------------------------------------------------------------------
SvcStep(s) == ThreadStep(s) /\ UNCHANGED mgrVars
StartSucceeds(s) == WorkerStarted(s) /\ UNCHANGED mgrVars

Next ==
  \/ \E s \in Svc : SvcStep(s)
  \/ \E c \in Borrowers : BorrowerStep(c)
  \/ \E c \in Restarters \cup Reloaders : RestarterStep(c)
  \/ \E c \in Replacers : ReplacerStep(c)

Spec == Init /\ [][Next]_vars

\* The service threads are scheduled; a start that is retried for ever succeeds in the
\* end; a caller that is inside an operation goes on.  Nobody has to begin one, nor to give
\* back a service it holds.
Fairness ==
  /\ \A s \in Svc : WF_vars(SvcStep(s)) /\ SF_vars(StartSucceeds(s))
  /\ \A c \in Borrowers :
       /\ WF_vars(GetAwaitStopped(c)) /\ SF_vars(GetDecide(c)) /\ WF_vars(GetStart(c))
       /\ WF_vars(AwaitReadyCheck(c)) /\ SF_vars(AwaitReadyReturn(c))
       /\ WF_vars(AwaitReadyTimeout(c)) /\ WF_vars(PutStop(c))
       /\ SF_vars(At(c, "getFailed") /\ Put(c))

-----------------------------------------------------------------------------
(* What the services promise. *)

\* A service that announces it has stopped - by state or by the event await_stopped()
\* waits for - holds nothing of its worker any more: callers open their own session to
\* the printer on that announcement.
StoppedMeansReleased ==
  \A s \in Svc : stoppedEvt[s] \/ state[s] = "Stopped" => ~worker[s]

\* The threads between their get() and the end of their put().
HoldsReference == {c \in Borrowers : cpc[c] \notin {"idle", "putStop"}}

\* refs[name] is the number of borrowers that still have to put() the service.
RefsCounted == refs = Cardinality(HoldsReference)

\* A borrower that got the service ready never finds it switched off by another's put().
HeldMeansWanted == \A c \in Borrowers : At(c, "held") => wanted[mine[c]]

\* get() comes back: with the service, or by raising (which puts the reference back), unless
\* the worker goes on failing for ever.
FailsForEver == []<><<\E s \in Svc : WorkerRunFailed(s)>>_vars
GetReturns ==
  FailsForEver \/ \A c \in Borrowers : At(c, "getDecide") ~> cpc[c] \in {"held", "idle"}

\* A worker that fails while it is borrowed is brought back for as long as it is held.
HeldRecovers ==
  \A c \in Borrowers : At(c, "held") ~> ~At(c, "held") \/ state[mine[c]] = "Running"

-----------------------------------------------------------------------------
(* The inductive strengthenings of StoppedMeansReleased, RefsCounted and HeldMeansWanted. *)

\* Where each write of the thread finds the service, and when the stopped event is set.
ThreadInv ==
  \A s \in Svc :
    /\ tpc[s] = "starting" => state[s] = "Starting"
    /\ tpc[s] = "setReady" => state[s] = "Running"
    /\ tpc[s] \in {"clearReady", "setStopped"} => state[s] = "Stopped"
    /\ tpc[s] = "clearStopped" => state[s] \in {"Starting", "Running"}
    /\ stoppedEvt[s] => state[s] = "Stopped" \/ (state[s] = "Starting" /\ tpc[s] = "clearStopped")
    /\ state[s] \in {"Stopped", "Starting"} => ~worker[s]

\* Whoever is between the test and the write of a start or stop holds _lock; the put()
\* that stops the service has left no reference behind.
LockInv ==
  /\ \A c \in Borrowers : cpc[c] \in {"getStart", "putStop"} <=> lock = c
  /\ \A c \in Borrowers : At(c, "putStop") => refs = 0

\* What a borrower works on is the registered object; from its check on it is wanted.
BorrowInv ==
  \A c \in Borrowers :
    /\ ~At(c, "idle") => mine[c] = cur
    /\ cpc[c] \in {"awaitWait", "held"} => wanted[mine[c]]
=============================================================================
