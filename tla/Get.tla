-------------------------------- MODULE Get --------------------------------
(***************************************************************************)
(* What one GET of the client promises its caller, however many attempts,  *)
(* waits and redirect hops it takes: GetJSON, GetRaw and ProbeAnonymous of *)
(* internal/ci/jenkins/client.go as the fetcher sees them.                 *)
(***************************************************************************)
CONSTANTS
  Refusals   \* the answers that are neither a success nor worth a retry

VARIABLES
  ctx,     \* "live" or "dead"
  late,    \* the context was dead before the call
  result   \* "pending", then what the call returned

vars == <<ctx, late, result>>

(* "broken" is a failure with no answer behind it: the error of the last   *)
(* attempt, a refused redirect or certificate, a body past the limit.      *)
Outcomes == {"ok", "broken", "cancelled"} \cup Refusals

TypeOK ==
  /\ ctx \in {"live", "dead"}
  /\ late \in BOOLEAN
  /\ result \in {"pending"} \cup Outcomes

Init ==
  /\ ctx \in {"live", "dead"}
  /\ late = (ctx = "dead")
  /\ result = "pending"

Expire ==
  /\ ctx = "live" /\ result = "pending"
  /\ ctx' = "dead"
  /\ UNCHANGED <<late, result>>

(* A call that begins with a dead context gets no answer.                  *)
Answer ==
  /\ result = "pending" /\ ~late
  /\ result' \in {"ok", "broken"} \cup Refusals
  /\ UNCHANGED <<ctx, late>>

Cancel ==
  /\ result = "pending" /\ ctx = "dead"
  /\ result' = "cancelled"
  /\ UNCHANGED <<ctx, late>>

Next == Expire \/ Answer \/ Cancel

Spec == Init /\ [][Next]_vars /\ WF_vars(Answer \/ Cancel)

=============================================================================
