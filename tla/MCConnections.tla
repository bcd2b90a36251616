--------------------------- MODULE MCConnections ---------------------------
(***************************************************************************)
(* Connections with three threads: each a process of its own, or two of    *)
(* them serving the API.                                                   *)
(***************************************************************************)
EXTENDS Connections

CONSTANTS t1, t2, t3
=============================================================================
