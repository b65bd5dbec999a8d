----------------------------- MODULE VerdictMC -----------------------------
(***************************************************************************)
(* A control about the controller, one about jobs and one that no API can  *)
(* answer; two jobs; up to two of four exceptions, one of them lapsed.     *)
(***************************************************************************)
EXTENDS Verdict

CONSTANTS plugins, script, review, j1, j2

MCSeverity == plugins :> "medium" @@ script :> "high" @@ review :> "low"

MCException ==
  {[control |-> script, resources |-> {j1}, lapsed |-> FALSE],
   [control |-> script, resources |-> {j1, j2}, lapsed |-> FALSE],
   [control |-> plugins, resources |-> {"controller"}, lapsed |-> FALSE],
   [control |-> script, resources |-> {j2}, lapsed |-> TRUE]}

(* Each threshold off, at its ends and between them.                       *)
MCOptions ==
  [failOn: {"high", "medium", "none"}, failUnder: {0, 50, 100},
   maxManual: {-1, 0, 50}, allowIncomplete: {FALSE}]
  \cup [failOn: {"low"}, failUnder: {0}, maxManual: {-1, 50, 100}, allowIncomplete: {TRUE}]
=============================================================================
