---------------------------- MODULE MCPPPPSession ----------------------------
(* PPPPSession for TLC: one printer, video clients and uploads. *)
EXTENDS PPPPSession

CONSTANTS s1, b1, b2, u1, u2

ASSUME SessionOfOnePrinter == OnePrinter
=============================================================================
