--------------------------- MODULE MCPyTransport ---------------------------
(***************************************************************************)
(* Two application threads for PyTransport.                                *)
(***************************************************************************)
EXTENDS PyTransport

CONSTANTS t1, t2
=============================================================================
