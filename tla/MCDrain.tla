------------------------------- MODULE MCDrain -------------------------------
(***************************************************************************)
(* Small instances of Drain for TLC.                                       *)
(***************************************************************************)
EXTENDS Drain

CONSTANTS web, job, daemon   \* pods
=============================================================================
