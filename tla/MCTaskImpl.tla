------------------------------ MODULE MCTaskImpl ------------------------------
(***************************************************************************)
(* TaskImpl with enough wake-ups for one that is lost, one that runs while *)
(* the manager looks on, and one that meets the interruption.              *)
(***************************************************************************)
EXTENDS TaskImpl
=============================================================================
