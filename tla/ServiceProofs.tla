----------------------------- MODULE ServiceProofs -----------------------------
(***************************************************************************)
(* Theorems about ServiceManager, for any number of Service objects and of  *)
(* threads, and about PPPPSession, for any number of borrowers and uploads. *)
(***************************************************************************)
EXTENDS PPPPSession, FiniteSetTheorems, TLAPS

-----------------------------------------------------------------------------
(* ServiceManager: type correctness. *)

\* Every variable of the manager and of its service threads keeps its type.
THEOREM TypeCorrect == Spec => []TypeOK
<1>1. Init => TypeOK
  BY DEF Init, SvcInit, TypeOK, SvcTypeOK, RunState, ThreadPc, ClientPc
<1>2. TypeOK /\ [Next]_vars => TypeOK'
  <2> SUFFICES ASSUME TypeOK, [Next]_vars PROVE TypeOK'
    OBVIOUS
  <2> USE DEF TypeOK, SvcTypeOK, svcVars, mgrVars, Step, Use, Request, Goto, Become,
              SvcUnchangedBut_wanted
  <2>1. CASE \E s \in Svc : SvcStep(s)
    <3> PICK s \in Svc : SvcStep(s)
      BY <2>1
    <3> QED
      BY DEF SvcStep, ThreadStep, BeginStart, ClearStopped, CancelStart, ClearReady,
             SetStopped, CallWorkerStart, WorkerStarted, SetReady, WorkerStartFailed,
             WorkerRunFailed, BeginStop, WorkerStopped, ThreadExit, RunState, ThreadPc
  <2>2. ASSUME NEW c \in Borrowers, BorrowerStep(c) PROVE TypeOK'
    <3> c \in Thread
      BY DEF Thread
    <3>1. CASE GetAcquire(c)
      BY <3>1 DEF GetAcquire, ClientPc
    <3>2. CASE GetAwaitStopped(c)
      BY <3>2 DEF GetAwaitStopped, ClientPc
    <3>3. CASE GetDecide(c)
      BY <3>3 DEF GetDecide, AfterDecide, ClientPc
    <3>4. CASE GetStart(c)
      BY <3>4 DEF GetStart, AfterDecide, ClientPc
    <3>5. CASE AwaitReadyCheck(c)
      BY <3>5 DEF AwaitReadyCheck, ClientPc
    <3>6. CASE AwaitReadyReturn(c) \/ AwaitReadyTimeout(c)
      BY <3>6 DEF AwaitReadyReturn, AwaitReadyTimeout, ClientPc
    <3>7. CASE Put(c)
      BY <3>7 DEF Put, ClientPc
    <3>8. CASE PutAsserts(c) \/ PutStop(c)
      BY <3>8 DEF PutAsserts, PutStop, ClientPc
    <3> QED
      BY <2>2, <3>1, <3>2, <3>3, <3>4, <3>5, <3>6, <3>7, <3>8 DEF BorrowerStep
  <2>3. ASSUME NEW c \in Restarters \cup Reloaders, RestarterStep(c) PROVE TypeOK'
    <3> c \in Thread
      BY DEF Thread
    <3>1. CASE RestartBegin(c)
      BY <3>1 DEF RestartBegin, ClientPc
    <3>2. CASE StopCheck(c) \/ StopSet(c)
      BY <3>2 DEF StopCheck, StopSet, ClientPc
    <3>3. CASE AwaitStopped(c)
      BY <3>3 DEF AwaitStopped, RestartEnd, ClientPc
    <3>4. CASE StartCheck(c)
      BY <3>4 DEF StartCheck, AfterStart, RestartEnd, ClientPc
    <3>5. CASE StartSet(c)
      BY <3>5 DEF StartSet, AfterStart, RestartEnd, ClientPc
    <3>6. CASE AwaitUp(c)
      BY <3>6 DEF AwaitUp, RestartEnd, ClientPc
    <3> QED
      BY <2>3, <3>1, <3>2, <3>3, <3>4, <3>5, <3>6 DEF RestarterStep
  <2>4. ASSUME NEW c \in Replacers, ReplacerStep(c) PROVE TypeOK'
    <3> c \in Thread
      BY DEF Thread
    <3>1. CASE ReplaceStop(c)
      BY <3>1 DEF ReplaceStop, ClientPc
    <3>2. CASE ReplaceWaited(c) \/ ReplaceKill(c)
      BY <3>2 DEF ReplaceWaited, ReplaceKill, ClientPc
    <3>3. CASE ReplaceInstall(c)
      BY <3>3 DEF ReplaceInstall, ClientPc
    <3> QED
      BY <2>4, <3>1, <3>2, <3>3 DEF ReplacerStep
  <2>5. CASE UNCHANGED vars
    BY <2>5 DEF vars
  <2> QED
    BY <2>1, <2>2, <2>3, <2>4, <2>5 DEF Next
<1> QED
  BY <1>1, <1>2, PTL DEF Spec

-----------------------------------------------------------------------------
(* A stopped service holds nothing. *)

LEMMA ThreadInvInductive ==
  ASSUME TypeOK, ThreadInv, [Next]_vars
  PROVE  ThreadInv'
<1> USE DEF TypeOK, SvcTypeOK, ThreadInv
<1>1. ASSUME NEW s \in Svc, SvcStep(s) PROVE ThreadInv'
  <2> USE DEF AtLoop, Goto, Become
  <2>1. CASE BeginStart(s) \/ ClearStopped(s) \/ CancelStart(s)
    BY <2>1 DEF BeginStart, ClearStopped, CancelStart
  <2>2. CASE ClearReady(s) \/ SetStopped(s) \/ CallWorkerStart(s)
    BY <2>2 DEF ClearReady, SetStopped, CallWorkerStart
  <2>3. CASE WorkerStarted(s) \/ SetReady(s) \/ WorkerStartFailed(s)
    BY <2>3 DEF WorkerStarted, SetReady, WorkerStartFailed
  <2>4. CASE WorkerRunFailed(s) \/ BeginStop(s) \/ WorkerStopped(s) \/ ThreadExit(s)
    BY <2>4 DEF WorkerRunFailed, BeginStop, WorkerStopped, ThreadExit
  <2> QED
    BY <1>1, <2>1, <2>2, <2>3, <2>4 DEF SvcStep, ThreadStep
<1>2. ASSUME UNCHANGED <<state, stoppedEvt, worker, tpc>> PROVE ThreadInv'
  BY <1>2
<1>3. ASSUME NEW c \in Thread, BorrowerStep(c) \/ RestarterStep(c) \/ ReplacerStep(c)
      PROVE  UNCHANGED <<state, stoppedEvt, worker, tpc>>
  BY <1>3 DEF BorrowerStep, GetAcquire, GetAwaitStopped, GetDecide, GetStart,
       AwaitReadyCheck, AwaitReadyReturn, AwaitReadyTimeout, Put, PutAsserts, PutStop,
       RestarterStep, RestartBegin, StopCheck, StopSet, AwaitStopped, StartCheck, StartSet,
       AwaitUp, ReplacerStep, ReplaceStop, ReplaceWaited, ReplaceKill, ReplaceInstall,
       SvcUnchangedBut_wanted, svcVars
<1>4. CASE UNCHANGED vars
  BY <1>2, <1>4 DEF vars, svcVars
<1> QED
  BY <1>1, <1>2, <1>3, <1>4 DEF Next, Thread

\* Whenever a service looks stopped to await_stopped(), its worker has been released,
\* for any mix of borrowers, restarts, reloads and replacements.
THEOREM StoppedIsReleased == Spec => []StoppedMeansReleased
<1>1. Init => ThreadInv
  BY DEF Init, SvcInit, ThreadInv
<1>2. TypeOK /\ ThreadInv /\ [Next]_vars => ThreadInv'
  BY ThreadInvInductive
<1>3. ThreadInv => StoppedMeansReleased
  BY DEF ThreadInv, StoppedMeansReleased
<1> QED
  BY <1>1, <1>2, <1>3, TypeCorrect, PTL DEF Spec

-----------------------------------------------------------------------------
(* Reference counting, as long as nobody replaces the service. *)

LEMMA HoldersFinite == IsFiniteSet(HoldsReference)
  BY ManagerAssumption, FS_Subset DEF HoldsReference

\* How a borrower's step changes the set of those who owe a put().
LEMMA HoldersStep ==
  ASSUME TypeOK, NEW c \in Borrowers, NEW pc, cpc' = [cpc EXCEPT ![c] = pc]
  PROVE  /\ pc \in {"idle", "putStop"} => HoldsReference' = HoldsReference \ {c}
         /\ pc \notin {"idle", "putStop"} => HoldsReference' = HoldsReference \cup {c}
<1>1. c \in Thread
  BY DEF Thread
<1>2. \A b \in Borrowers : cpc'[b] = IF b = c THEN pc ELSE cpc[b]
  BY <1>1 DEF TypeOK, Thread
<1>3. ASSUME pc \in {"idle", "putStop"} PROVE HoldsReference' = HoldsReference \ {c}
  <2>1. \A b \in Borrowers : b \in HoldsReference' <=> b \in HoldsReference /\ b # c
    BY <1>2, <1>3 DEF HoldsReference
  <2> QED
    BY <2>1 DEF HoldsReference
<1>4. ASSUME pc \notin {"idle", "putStop"} PROVE HoldsReference' = HoldsReference \cup {c}
  <2>1. \A b \in Borrowers : b \in HoldsReference' <=> b \in HoldsReference \/ b = c
    BY <1>2, <1>4 DEF HoldsReference
  <2> QED
    BY <2>1 DEF HoldsReference
<1> QED
  BY <1>3, <1>4

\* A step inside get() keeps the reference; a put() that failed its assertion still owes it.
LEMMA HoldersKept ==
  ASSUME TypeOK, NEW c \in Borrowers, NEW pc, cpc' = [cpc EXCEPT ![c] = pc],
         cpc[c] \in {"idle", "putStop"} <=> pc \in {"idle", "putStop"}
  PROVE  HoldsReference' = HoldsReference
<1>1. c \in HoldsReference <=> cpc[c] \notin {"idle", "putStop"}
  BY DEF HoldsReference
<1>2. CASE pc \in {"idle", "putStop"}
  <2>1. c \notin HoldsReference /\ HoldsReference' = HoldsReference \ {c}
    BY <1>1, <1>2, HoldersStep
  <2> QED
    BY <2>1
<1>3. CASE pc \notin {"idle", "putStop"}
  <2>1. c \in HoldsReference /\ HoldsReference' = HoldsReference \cup {c}
    BY <1>1, <1>3, HoldersStep
  <2> QED
    BY <2>1
<1> QED
  BY <1>2, <1>3

\* refs is the number of borrowers that still owe a put(), in every state of a system
\* without replace_service(): no reference is lost or counted twice by any interleaving.
THEOREM ReferencesCounted ==
  ASSUME Replacers = {}
  PROVE  Spec => []RefsCounted
<1>1. Init => RefsCounted
  <2> SUFFICES ASSUME Init PROVE RefsCounted
    OBVIOUS
  <2>1. HoldsReference = {}
    BY DEF Init, HoldsReference, Thread
  <2> QED
    BY <2>1, FS_EmptySet DEF Init, RefsCounted
<1>2. TypeOK /\ RefsCounted /\ [Next]_vars => RefsCounted'
  <2> SUFFICES ASSUME TypeOK, RefsCounted, [Next]_vars PROVE RefsCounted'
    OBVIOUS
  <2> USE DEF TypeOK, RefsCounted
  <2>1. ASSUME HoldsReference' = HoldsReference, refs' = refs PROVE RefsCounted'
    BY <2>1
  <2>2. ASSUME NEW c \in Borrowers, BorrowerStep(c) PROVE RefsCounted'
    <3> c \in Thread
      BY DEF Thread
    <3>1. CASE GetAcquire(c)
      <4>1. c \notin HoldsReference
        BY <3>1 DEF GetAcquire, HoldsReference, At
      <4>2. \E pc : Step(c, pc) /\ pc \notin {"idle", "putStop"}
        BY <3>1 DEF GetAcquire
      <4>3. HoldsReference' = HoldsReference \cup {c}
        BY <4>2, HoldersStep DEF Step
      <4>4. Cardinality(HoldsReference') = Cardinality(HoldsReference) + 1
        BY <4>1, <4>3, HoldersFinite, FS_AddElement
      <4> QED
        BY <3>1, <4>4 DEF GetAcquire
    <3>2. CASE Put(c)
      <4>1. c \in HoldsReference
        BY <3>2 DEF Put, HoldsReference
      <4>2. \E pc \in {"idle", "putStop"} : Step(c, pc)
        BY <3>2 DEF Put
      <4>3. HoldsReference' = HoldsReference \ {c}
        BY <4>2, HoldersStep DEF Step
      <4>4. Cardinality(HoldsReference') = Cardinality(HoldsReference) - 1
        BY <4>1, <4>3, HoldersFinite, FS_RemoveElement
      <4> QED
        BY <3>2, <4>4 DEF Put
    <3>3. ASSUME NEW pc, Step(c, pc), refs' = refs,
                 cpc[c] \in {"idle", "putStop"} <=> pc \in {"idle", "putStop"}
          PROVE  RefsCounted'
      BY <2>1, <3>3, HoldersKept DEF Step
    <3>4. CASE GetAwaitStopped(c)
      BY <3>3, <3>4 DEF GetAwaitStopped, At
    <3>5. CASE GetDecide(c)
      BY <3>3, <3>5 DEF GetDecide, AfterDecide, At
    <3>6. CASE GetStart(c)
      BY <3>3, <3>6 DEF GetStart, AfterDecide, At
    <3>7. CASE AwaitReadyCheck(c) \/ AwaitReadyReturn(c) \/ AwaitReadyTimeout(c)
      BY <3>3, <3>7 DEF AwaitReadyCheck, AwaitReadyReturn, AwaitReadyTimeout, At
    <3>8. CASE PutAsserts(c) \/ PutStop(c)
      BY <3>3, <3>8 DEF PutAsserts, PutStop, At
    <3> QED
      BY <2>2, <3>1, <3>2, <3>4, <3>5, <3>6, <3>7, <3>8 DEF BorrowerStep
  <2>3. ASSUME NEW c \in Restarters \cup Reloaders, RestarterStep(c) PROVE RefsCounted'
    <3>1. c \in Thread /\ c \notin Borrowers
      BY ManagerAssumption DEF Thread
    <3>2. refs' = refs /\ \E pc : Step(c, pc)
      BY <2>3 DEF RestarterStep, RestartBegin, StopCheck, StopSet, AwaitStopped,
         StartCheck, StartSet, AwaitUp, AfterStart, RestartEnd
    <3>3. \A b \in Borrowers : cpc'[b] = cpc[b]
      BY <3>1, <3>2 DEF Step, Thread
    <3>4. HoldsReference' = HoldsReference
      BY <3>3 DEF HoldsReference
    <3> QED
      BY <2>1, <3>2, <3>4
  <2>4. CASE \E s \in Svc : SvcStep(s)
    BY <2>1, <2>4 DEF SvcStep, mgrVars, HoldsReference
  <2>5. CASE UNCHANGED vars
    BY <2>1, <2>5 DEF vars, mgrVars, HoldsReference
  <2> QED
    BY <2>2, <2>3, <2>4, <2>5 DEF Next
<1> QED
  BY <1>1, <1>2, TypeCorrect, PTL DEF Spec

-----------------------------------------------------------------------------
(* What a borrower may rely on, when the service is only borrowed. *)

LEMMA LockInvInductive ==
  ASSUME Restarters = {}, Reloaders = {}, Replacers = {},
         TypeOK, RefsCounted, LockInv, [Next]_vars
  PROVE  LockInv'
<1> USE DEF LockInv, At
<1>1. ASSUME NEW c \in Borrowers, BorrowerStep(c) PROVE LockInv'
  <2> c \in Thread /\ c # NoThread /\ NoThread \notin Borrowers
    BY ManagerAssumption DEF Thread
  <2>1. \A pc : Step(c, pc) => /\ cpc'[c] = pc
                              /\ \A b \in Borrowers \ {c} : cpc'[b] = cpc[b]
    BY DEF Step, TypeOK, Thread
  <2>2. CASE GetAcquire(c)
    <3>1. \A b \in Borrowers : ~At(b, "putStop")
      BY <2>2 DEF GetAcquire
    <3> QED
      BY <2>1, <2>2, <3>1 DEF GetAcquire
  <2>3. CASE GetAwaitStopped(c)
    BY <2>1, <2>3 DEF GetAwaitStopped
  <2>4. CASE GetDecide(c)
    BY <2>1, <2>4 DEF GetDecide, AfterDecide
  <2>5. CASE GetStart(c)
    BY <2>1, <2>5 DEF GetStart, AfterDecide
  <2>6. CASE AwaitReadyCheck(c) \/ AwaitReadyReturn(c) \/ AwaitReadyTimeout(c)
    BY <2>1, <2>6 DEF AwaitReadyCheck, AwaitReadyReturn, AwaitReadyTimeout
  <2>7. CASE Put(c)
    BY <2>1, <2>7 DEF Put, TypeOK
  <2>8. CASE PutAsserts(c)
    BY <2>1, <2>8 DEF PutAsserts
  <2>9. CASE PutStop(c)
    BY <2>1, <2>9 DEF PutStop
  <2> QED
    BY <1>1, <2>2, <2>3, <2>4, <2>5, <2>6, <2>7, <2>8, <2>9 DEF BorrowerStep
<1>2. CASE \E s \in Svc : SvcStep(s)
  BY <1>2 DEF SvcStep, mgrVars
<1>3. CASE UNCHANGED vars
  BY <1>3 DEF vars, mgrVars
<1> QED
  BY <1>1, <1>2, <1>3 DEF Next

\* The put() that switches the service off is alone: a borrower at or past its check
\* would be counted, and the count is zero.
LEMMA BorrowInvInductive ==
  ASSUME Restarters = {}, Reloaders = {}, Replacers = {},
         TypeOK, RefsCounted, LockInv, BorrowInv, ReadyArgs = {TRUE}, [Next]_vars
  PROVE  BorrowInv'
<1> USE DEF BorrowInv, At
<1>1. ASSUME NEW c \in Borrowers, BorrowerStep(c) PROVE BorrowInv'
  <2> c \in Thread
    BY DEF Thread
  <2>1. \A pc : Step(c, pc) => /\ cpc'[c] = pc
                              /\ \A b \in Borrowers \ {c} : cpc'[b] = cpc[b]
    BY DEF Step, TypeOK, Thread
  <2>2. \A s : Use(c, s) => mine'[c] = s /\ \A b \in Borrowers \ {c} : mine'[b] = mine[b]
    BY DEF Use, TypeOK, Thread
  <2>3. CASE GetAcquire(c)
    BY <2>1, <2>2, <2>3 DEF GetAcquire, svcVars
  <2>4. CASE GetAwaitStopped(c)
    BY <2>1, <2>4 DEF GetAwaitStopped, svcVars
  <2>5. CASE GetDecide(c)
    BY <2>1, <2>2, <2>5 DEF GetDecide, AfterDecide, svcVars
  <2>6. CASE GetStart(c)
    <3>1. wanted' = [wanted EXCEPT ![mine[c]] = TRUE] /\ Step(c, "await")
          /\ mine' = mine /\ cur' = cur
      BY <2>6 DEF GetStart, AfterDecide, Request
    <3>2. \A s \in Svc : wanted[s] => wanted'[s]
      BY <3>1 DEF TypeOK, SvcTypeOK
    <3> QED
      BY <2>1, <2>6, <3>1, <3>2 DEF GetStart, TypeOK, Thread
  <2>7. CASE AwaitReadyCheck(c) \/ AwaitReadyReturn(c) \/ AwaitReadyTimeout(c)
    BY <2>1, <2>7 DEF AwaitReadyCheck, AwaitReadyReturn, AwaitReadyTimeout, svcVars
  <2>8. CASE Put(c)
    BY <2>1, <2>2, <2>8 DEF Put, svcVars
  <2>9. CASE PutAsserts(c)
    BY <2>1, <2>9 DEF PutAsserts, svcVars
  <2>10. CASE PutStop(c)
    <3>1. refs = 0
      BY <2>10 DEF PutStop, LockInv
    <3>2. HoldsReference = {}
      BY <3>1, HoldersFinite, FS_EmptySet DEF RefsCounted
    <3>3. \A b \in Borrowers : cpc'[b] \notin {"awaitWait", "held"}
      BY <2>1, <2>10, <3>2 DEF PutStop, HoldsReference
    <3> QED
      BY <2>1, <2>10, <3>3 DEF PutStop
  <2> QED
    BY <1>1, <2>3, <2>4, <2>5, <2>6, <2>7, <2>8, <2>9, <2>10 DEF BorrowerStep
<1>2. CASE \E s \in Svc : SvcStep(s)
  <2>1. wanted' = wanted /\ UNCHANGED mgrVars
    BY <1>2 DEF SvcStep, ThreadStep, BeginStart, ClearStopped, CancelStart, ClearReady,
       SetStopped, CallWorkerStart, WorkerStarted, SetReady, WorkerStartFailed,
       WorkerRunFailed, BeginStop, WorkerStopped, ThreadExit
  <2> QED
    BY <2>1 DEF mgrVars
<1>3. CASE UNCHANGED vars
  BY <1>3 DEF vars, mgrVars, svcVars
<1> QED
  BY <1>1, <1>2, <1>3 DEF Next

\* Nobody's put() switches the service off under another borrower that got it ready.
THEOREM HeldIsWanted ==
  ASSUME Restarters = {}, Reloaders = {}, Replacers = {}, ReadyArgs = {TRUE}
  PROVE  Spec => []HeldMeansWanted
<1>1. Init => LockInv /\ BorrowInv
  BY ManagerAssumption DEF Init, LockInv, BorrowInv, At, Thread
<1>2. TypeOK /\ RefsCounted /\ LockInv /\ [Next]_vars => LockInv'
  BY LockInvInductive
<1>3. TypeOK /\ RefsCounted /\ LockInv /\ BorrowInv /\ [Next]_vars => BorrowInv'
  BY BorrowInvInductive
<1>4. BorrowInv => HeldMeansWanted
  BY DEF BorrowInv, HeldMeansWanted, At
<1>5. Spec => []RefsCounted
  BY ReferencesCounted
<1> QED
  BY <1>1, <1>2, <1>3, <1>4, <1>5, TypeCorrect, PTL DEF Spec

-----------------------------------------------------------------------------
(* PPPPSession: type correctness. *)

\* What the session's steps do to the service thread and to the borrowers keeps their types.
LEMMA ThreadStepType ==
  ASSUME TypeOK, NEW s \in Svc, UNCHANGED mgrVars,
         ThreadStep(s) \/ UNCHANGED svcVars
  PROVE  TypeOK'
<1> USE DEF TypeOK, SvcTypeOK, svcVars, mgrVars
<1>1. CASE UNCHANGED svcVars
  BY <1>1
<1>2. CASE ThreadStep(s)
  BY <1>2 DEF ThreadStep, BeginStart, ClearStopped, CancelStart, ClearReady, SetStopped,
       CallWorkerStart, WorkerStarted, SetReady, WorkerStartFailed, WorkerRunFailed, BeginStop,
       WorkerStopped, ThreadExit, RunState, ThreadPc, Goto, Become
<1> QED
  BY <1>1, <1>2

LEMMA BorrowerStepType ==
  ASSUME TypeOK, NEW c \in Borrowers, BorrowerStep(c)
  PROVE  TypeOK'
<1> USE DEF TypeOK, SvcTypeOK, svcVars, Step, Use, Request, SvcUnchangedBut_wanted
<1> c \in Thread
  BY DEF Thread
<1>1. CASE GetAcquire(c)
  BY <1>1 DEF GetAcquire, ClientPc
<1>2. CASE GetAwaitStopped(c)
  BY <1>2 DEF GetAwaitStopped, ClientPc
<1>3. CASE GetDecide(c)
  BY <1>3 DEF GetDecide, AfterDecide, ClientPc
<1>4. CASE GetStart(c)
  BY <1>4 DEF GetStart, AfterDecide, ClientPc
<1>5. CASE AwaitReadyCheck(c)
  BY <1>5 DEF AwaitReadyCheck, ClientPc
<1>6. CASE AwaitReadyReturn(c) \/ AwaitReadyTimeout(c)
  BY <1>6 DEF AwaitReadyReturn, AwaitReadyTimeout, ClientPc
<1>7. CASE Put(c)
  BY <1>7 DEF Put, ClientPc
<1>8. CASE PutAsserts(c) \/ PutStop(c)
  BY <1>8 DEF PutAsserts, PutStop, ClientPc
<1> QED
  BY <1>1, <1>2, <1>3, <1>4, <1>5, <1>6, <1>7, <1>8 DEF BorrowerStep

\* Each step of the session is, for the manager's variables, a step of the service thread, a step
\* of a borrower, a change of `wanted` by an upload, or nothing.
LEMMA SessionStepKinds ==
  ASSUME [SessionNext]_sessionVars
  PROVE  \/ \E s \in Svc : UNCHANGED mgrVars /\ (ThreadStep(s) \/ UNCHANGED svcVars)
         \/ \E c \in Borrowers : BorrowerStep(c)
         \/ /\ UNCHANGED mgrVars /\ SvcUnchangedBut_wanted
            /\ \E b \in BOOLEAN : wanted' = [wanted EXCEPT ![cur] = b] \/ wanted' = wanted
<1>1. CASE PrinterForgets \/ PrinterDrops
  BY <1>1 DEF PrinterForgets, PrinterDrops, vars, svcVars, SvcUnchangedBut_wanted
<1>2. ASSUME NEW s \in Svc, WorkerStep(s)
      PROVE  UNCHANGED mgrVars /\ (ThreadStep(s) \/ UNCHANGED svcVars)
  BY <1>2 DEF WorkerStep, Bookkeeping, EnterWorkerStart, StartFails, ProbeLock, Handshake, KeepApi,
       PollsClose, ApiMissing, StopWorker, ThreadStep
<1>3. ASSUME NEW c \in Borrowers, BorrowStep(c) PROVE BorrowerStep(c)
  BY <1>3 DEF BorrowStep, Borrow, Release, ReleaseStop, BorrowerStep
<1>4. ASSUME NEW u \in Uploads, UploadStep(u)
      PROVE  /\ UNCHANGED mgrVars /\ SvcUnchangedBut_wanted
             /\ \E b \in BOOLEAN : wanted' = [wanted EXCEPT ![cur] = b] \/ wanted' = wanted
  <2>1. CASE Reserve(u) \/ AwaitStop(u) \/ Connect(u) \/ ConnectFails(u) \/ TransferEnds(u)
    BY <2>1 DEF Reserve, AwaitStop, Connect, ConnectFails, TransferEnds, Leave, vars, svcVars,
         SvcUnchangedBut_wanted
  <2>2. CASE StopService(u)
    <3>1. StopIsNoop(cur) \in BOOLEAN
      BY DEF StopIsNoop
    <3> QED
      BY <2>2, <3>1 DEF StopService
  <2>3. CASE Restart(u)
    <3>1. (wanted[cur] \/ ~StartIsNoop(cur)) \in BOOLEAN
      OBVIOUS
    <3>2. wanted' = [wanted EXCEPT ![cur] = wanted[cur] \/ ~StartIsNoop(cur)]
      BY <2>3 DEF Restart
    <3> QED
      BY <2>3, <3>1, <3>2 DEF Restart
  <2> QED
    BY <1>4, <2>1, <2>2, <2>3 DEF UploadStep
<1>5. CASE UNCHANGED sessionVars
  BY <1>5 DEF sessionVars, vars, svcVars, SvcUnchangedBut_wanted
<1> QED
  BY <1>1, <1>2, <1>3, <1>4, <1>5 DEF SessionNext

LEMMA ManagerTypeInductive ==
  ASSUME TypeOK, [SessionNext]_sessionVars
  PROVE  TypeOK'
<1>1. ASSUME UNCHANGED mgrVars, SvcUnchangedBut_wanted, NEW b \in BOOLEAN,
             wanted' = [wanted EXCEPT ![cur] = b] \/ wanted' = wanted
      PROVE  TypeOK'
  BY <1>1 DEF TypeOK, SvcTypeOK, mgrVars, SvcUnchangedBut_wanted
<1> QED
  BY <1>1, SessionStepKinds, ThreadStepType, BorrowerStepType

\* The types of all variables: the manager's, the connection's and the uploads'.
THEOREM SessionTypeCorrect == SessionSpec => []SessionTypeOK
<1>1. SessionInit => SessionTypeOK
  <2> SUFFICES ASSUME SessionInit PROVE SessionTypeOK
    OBVIOUS
  <2>1. TypeOK
    BY DEF SessionInit, Init, SvcInit, TypeOK, SvcTypeOK, RunState, ThreadPc, ClientPc
  <2>2. api \in BOOLEAN /\ closeMsg \in BOOLEAN
    BY DEF SessionInit
  <2>3. drops \in 0 .. MaxDrops
    BY SessionAssumption DEF SessionInit
  <2> QED
    BY <2>1, <2>2, <2>3 DEF SessionInit, SessionTypeOK
<1>2. SessionTypeOK /\ [SessionNext]_sessionVars => SessionTypeOK'
  <2> SUFFICES ASSUME SessionTypeOK, [SessionNext]_sessionVars PROVE SessionTypeOK'
    OBVIOUS
  <2>1. TypeOK'
    BY ManagerTypeInductive DEF SessionTypeOK
  <2> USE <2>1, SessionAssumption DEF SessionTypeOK, connVars, uploadVars, Close, ForceCloseApi
  <2>2. CASE PrinterForgets \/ PrinterDrops
    <3>1. CASE PrinterForgets
      BY <3>1 DEF PrinterForgets
    <3>2. CASE PrinterDrops
      <4>1. (closeMsg \/ slot = "service") \in BOOLEAN
        OBVIOUS
      <4>2. closeMsg' \in BOOLEAN
        BY <3>2, <4>1 DEF PrinterDrops
      <4> QED
        BY <3>2, <4>2 DEF PrinterDrops
    <3> QED
      BY <2>2, <3>1, <3>2
  <2>3. ASSUME NEW s \in Svc, WorkerStep(s) PROVE SessionTypeOK'
    BY <2>3 DEF WorkerStep, Bookkeeping, EnterWorkerStart, StartFails, ProbeLock, Handshake,
         KeepApi, PollsClose, ApiMissing, StopWorker
  <2>4. ASSUME NEW c \in Borrowers, BorrowStep(c) PROVE SessionTypeOK'
    BY <2>4 DEF BorrowStep, Borrow, Release, ReleaseStop
  <2>5. ASSUME NEW u \in Uploads, UploadStep(u) PROVE SessionTypeOK'
    <3> USE DEF Goes, Leave
    <3>1. CASE Reserve(u)
      BY <3>1, wanted[cur] \in BOOLEAN DEF Reserve, TypeOK, SvcTypeOK
    <3>2. CASE StopService(u) \/ AwaitStop(u)
      BY <3>2 DEF StopService, AwaitStop
    <3>3. CASE Connect(u) \/ ConnectFails(u)
      BY <3>3 DEF Connect, ConnectFails
    <3>4. CASE TransferEnds(u) \/ Restart(u)
      BY <3>4 DEF TransferEnds, Restart
    <3> QED
      BY <2>5, <3>1, <3>2, <3>3, <3>4 DEF UploadStep
  <2>6. CASE UNCHANGED sessionVars
    BY <2>6 DEF sessionVars
  <2> QED
    BY <2>2, <2>3, <2>4, <2>5, <2>6 DEF SessionNext
<1> QED
  BY <1>1, <1>2, PTL DEF SessionSpec

-----------------------------------------------------------------------------
(* A stopped service has let go of the printer. *)

LEMMA SessionThreadInv ==
  ASSUME TypeOK, ThreadInv, [SessionNext]_sessionVars
  PROVE  ThreadInv'
<1> USE DEF TypeOK, SvcTypeOK, ThreadInv
<1>1. ASSUME NEW s \in Svc, ThreadStep(s) PROVE ThreadInv'
  <2> USE DEF AtLoop, Goto, Become
  <2>1. CASE BeginStart(s) \/ ClearStopped(s) \/ CancelStart(s)
    BY <2>1 DEF BeginStart, ClearStopped, CancelStart
  <2>2. CASE ClearReady(s) \/ SetStopped(s) \/ CallWorkerStart(s)
    BY <2>2 DEF ClearReady, SetStopped, CallWorkerStart
  <2>3. CASE WorkerStarted(s) \/ SetReady(s) \/ WorkerStartFailed(s)
    BY <2>3 DEF WorkerStarted, SetReady, WorkerStartFailed
  <2>4. CASE WorkerRunFailed(s) \/ BeginStop(s) \/ WorkerStopped(s) \/ ThreadExit(s)
    BY <2>4 DEF WorkerRunFailed, BeginStop, WorkerStopped, ThreadExit
  <2> QED
    BY <1>1, <2>1, <2>2, <2>3, <2>4 DEF ThreadStep
<1>2. ASSUME UNCHANGED <<state, stoppedEvt, worker, tpc>> PROVE ThreadInv'
  BY <1>2
<1>3. ASSUME NEW c \in Borrowers, BorrowerStep(c)
      PROVE  UNCHANGED <<state, stoppedEvt, worker, tpc>>
  BY <1>3 DEF BorrowerStep, GetAcquire, GetAwaitStopped, GetDecide, GetStart, AwaitReadyCheck,
       AwaitReadyReturn, AwaitReadyTimeout, Put, PutAsserts, PutStop, SvcUnchangedBut_wanted, svcVars
<1> QED
  BY <1>1, <1>2, <1>3, SessionStepKinds DEF svcVars, SvcUnchangedBut_wanted

LEMMA ConnInvInductive ==
  ASSUME OnePrinter, TypeOK, SessionTypeOK, ThreadInv, ConnInv, [SessionNext]_sessionVars
  PROVE  ConnInv'
<1> PICK p \in Svc : Svc = {p}
  BY DEF OnePrinter
<1> USE DEF TypeOK, SvcTypeOK, ConnInv, connVars, svcVars
<1>1. CASE PrinterForgets \/ PrinterDrops
  BY <1>1 DEF PrinterForgets, PrinterDrops, vars
<1>2. ASSUME NEW s \in Svc, WorkerStep(s) PROVE ConnInv'
  <2> s = p
    OBVIOUS
  <2> USE DEF AtLoop, Goto, Become, Close, ForceCloseApi, StartFails
  <2>1. CASE Bookkeeping(s)
    BY <2>1 DEF Bookkeeping, BeginStart, ClearStopped, CancelStart, ClearReady, SetStopped, SetReady,
         BeginStop
  <2>2. CASE EnterWorkerStart(s) \/ ProbeLock(s)
    BY <2>2 DEF EnterWorkerStart, ProbeLock, CallWorkerStart, WorkerStartFailed
  <2>3. CASE Handshake(s)
    BY <2>3 DEF Handshake, WorkerStartFailed
  <2>4. CASE KeepApi(s)
    BY <2>4 DEF KeepApi, WorkerStarted
  <2>5. CASE PollsClose(s) \/ ApiMissing(s)
    BY <2>5 DEF PollsClose, ApiMissing, WorkerRunFailed
  <2>6. CASE StopWorker(s)
    BY <2>6 DEF StopWorker, WorkerStopped
  <2> QED
    BY <1>2, <2>1, <2>2, <2>3, <2>4, <2>5, <2>6 DEF WorkerStep
<1>3. ASSUME NEW c \in Borrowers, BorrowStep(c) PROVE ConnInv'
  <2>1. BorrowerStep(c)
    BY <1>3 DEF BorrowStep, Borrow, Release, ReleaseStop, BorrowerStep
  <2>2. UNCHANGED <<tpc, worker>>
    BY <2>1 DEF BorrowerStep, GetAcquire, GetAwaitStopped, GetDecide, GetStart, AwaitReadyCheck,
         AwaitReadyReturn, AwaitReadyTimeout, Put, PutAsserts, PutStop, SvcUnchangedBut_wanted
  <2>3. ForceCloseApi \/ UNCHANGED connVars
    BY <1>3 DEF BorrowStep, Borrow, Release, ReleaseStop
  <2> QED
    BY <2>2, <2>3 DEF ForceCloseApi, Close
<1>4. ASSUME NEW u \in Uploads, UploadStep(u) PROVE ConnInv'
  <2> USE DEF Close, ForceCloseApi, Leave, vars, SvcUnchangedBut_wanted
  <2>1. CASE Reserve(u) \/ AwaitStop(u) \/ Connect(u)
    BY <2>1 DEF Reserve, AwaitStop, Connect
  <2>2. CASE StopService(u)
    BY <2>2 DEF StopService
  <2>3. CASE ConnectFails(u) \/ TransferEnds(u) \/ Restart(u)
    BY <2>3 DEF ConnectFails, TransferEnds, Restart
  <2> QED
    BY <1>4, <2>1, <2>2, <2>3 DEF UploadStep
<1>5. CASE UNCHANGED sessionVars
  BY <1>5 DEF sessionVars, vars
<1> QED
  BY <1>1, <1>2, <1>3, <1>4, <1>5 DEF SessionNext

\* When the service says it has stopped, it has neither a connection nor the printer's session,
\* whoever stopped it: its last borrower, an upload or a failure.
THEOREM StoppedIsClosed ==
  ASSUME OnePrinter
  PROVE  SessionSpec => []StoppedMeansClosed
<1>1. SessionInit => ThreadInv /\ ConnInv
  BY DEF SessionInit, Init, SvcInit, ThreadInv, ConnInv
<1>2. /\ SessionTypeOK /\ ThreadInv /\ ConnInv /\ [SessionNext]_sessionVars
      => ThreadInv' /\ ConnInv'
  BY SessionThreadInv, ConnInvInductive DEF SessionTypeOK
<1>3. ThreadInv /\ ConnInv => StoppedMeansClosed
  BY DEF ThreadInv, ConnInv, StoppedMeansClosed
<1> QED
  BY <1>1, <1>2, <1>3, SessionTypeCorrect, PTL DEF SessionSpec
=============================================================================
