---------------------------- MODULE MCTracedRun ----------------------------
(***************************************************************************)
(* TracedRun on a small instance: an employee with two systems, and one    *)
(* more that the model can invent.                                         *)
(***************************************************************************)
EXTENDS TracedRun

CONSTANTS d1, d2, s1, s2, s3
=============================================================================
