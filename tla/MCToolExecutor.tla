-------------------------- MODULE MCToolExecutor --------------------------
(***************************************************************************)
(* ToolExecutor on a small instance: two drivers, two steps.               *)
(***************************************************************************)
EXTENDS ToolExecutor

CONSTANTS d1, d2, flaky, mute
=============================================================================
