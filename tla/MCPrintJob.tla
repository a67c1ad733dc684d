---------------------------- MODULE MCPrintJob ----------------------------
(* Model values for PrintJob. *)
EXTENDS PrintJob
CONSTANTS f1, f2, me, him
=============================================================================
