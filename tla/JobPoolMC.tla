----------------------------- MODULE JobPoolMC -----------------------------
(***************************************************************************)
(* Three jobs through two slots: one goroutine always waits for a slot     *)
(* that a success, a refusal or a cancellation has to free.                *)
(***************************************************************************)
EXTENDS JobPool
=============================================================================
