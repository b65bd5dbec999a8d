----------------------------- MODULE RequestMC -----------------------------
(***************************************************************************)
(* A call with the two retries and the five redirects of the code, and two *)
(* final statuses: which one it is does not matter to the client.          *)
(***************************************************************************)
EXTENDS Request

MCRefusals == {"401", "404"}
=============================================================================
