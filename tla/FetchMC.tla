------------------------------ MODULE FetchMC ------------------------------
(***************************************************************************)
(* Two listings, so that a failed one comes before or after a good one,    *)
(* and two jobs, so that one is read and one is cut off.                   *)
(***************************************************************************)
EXTENDS Fetch
=============================================================================
