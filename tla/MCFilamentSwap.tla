--------------------------- MODULE MCFilamentSwap ---------------------------
(* Model values for FilamentSwap. *)
EXTENDS FilamentSwap
CONSTANTS r1, r2, w1, w2, w3, none
=============================================================================
