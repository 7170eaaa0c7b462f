------------------------------- MODULE MCWorker -------------------------------
(***************************************************************************)
(* Model checking of Worker and PhpTimer.                                  *)
(***************************************************************************)
EXTENDS Worker
=============================================================================
