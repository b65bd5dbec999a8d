----------------------------- MODULE ProgressMC -----------------------------
(***************************************************************************)
(* Two fetch goroutines beside the caller and the rotor, six things to     *)
(* tell, a line of one to three columns.                                   *)
(***************************************************************************)
EXTENDS Progress
=============================================================================
