--------------------------- MODULE MCRunService ---------------------------
(***************************************************************************)
(* RunService on small instances: one request at a time with crashes, or   *)
(* two requests at once.                                                   *)
(***************************************************************************)
EXTENDS RunService

CONSTANTS d1, d2
=============================================================================
