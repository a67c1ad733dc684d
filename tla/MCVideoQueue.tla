--------------------------- MODULE MCVideoQueue ---------------------------
(* Model values for VideoQueue. *)
EXTENDS VideoQueue
CONSTANTS v1, v2, s1, s2
=============================================================================
