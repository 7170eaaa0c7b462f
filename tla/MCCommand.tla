------------------------------- MODULE MCCommand -------------------------------
(***************************************************************************)
(* Model checking of Command.                                              *)
(***************************************************************************)
EXTENDS Command
=============================================================================
