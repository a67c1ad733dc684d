-------------------------- MODULE MCServiceManager --------------------------
(* ServiceManager for TLC. *)
EXTENDS ServiceManager

CONSTANTS s1, s2, b1, b2, r1, l1, v1

\* s1 is registered first; only replace_service() brings s2, so that the run need not repeat
\* every behaviour with the two names exchanged.
FirstInit == Init /\ cur = s1
FirstSpec == FirstInit /\ [][Next]_vars
=============================================================================
