---------------------------- MODULE MCBorrowing ----------------------------
(* ServiceManager with borrowers only, and whether the last of them stopped the service. *)
EXTENDS MCServiceManager

VARIABLE lost  \* the put() that left no reference found a worker that had failed, and its
               \* stop() did nothing

\* stop() returns at once in Stopping and Stopped, also when a restart is due.
Tracks ==
  lost' = CASE refs' > 0 -> FALSE
            [] refs' = 0 /\ refs > 0 -> wanted[cur] /\ state[cur] \in {"Stopping", "Stopped"}
            [] OTHER -> lost

BorrowingInit == Init /\ lost = FALSE

BorrowingSpec ==
  /\ BorrowingInit
  /\ [][Next /\ Tracks]_<<vars, lost>>
  /\ Fairness

\* A service nobody has borrowed any more is stopped, whatever its worker was doing when the last
\* put() came: starting, retrying, running or failing; and when get() and put() had come in any
\* order before.  The exception is the put() whose stop() returns early although the service is
\* about to be started again: its worker has failed and is being stopped, and the service then
\* runs for nobody.
UnheldStopsUnlessStopLost ==
  refs = 0 /\ ~lost ~> refs > 0 \/ (state[cur] = "Stopped" /\ ~wanted[cur] /\ ~worker[cur])
=============================================================================
