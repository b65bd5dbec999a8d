------------------------------ MODULE Request ------------------------------
(***************************************************************************)
(* One call of raw in internal/ci/jenkins/client.go: attempts, exponential *)
(* backoff, Retry-After, the redirects net/http follows under              *)
(* checkRedirect, and what of a response counts as an answer.  The server  *)
(* and the network answer anything at any attempt, and the context can die *)
(* at any moment, in a wait or in flight.                                  *)
(***************************************************************************)
EXTENDS Naturals

CONSTANTS
  MaxRetries,     \* Options.MaxRetries
  MaxRedirects,   \* maxRedirects
  Refusals        \* statuses that are final: 401, 403, 404 and the rest

ASSUME LimitAssumption ==
  /\ MaxRetries \in Nat
  /\ MaxRedirects \in Nat \ {0}
  /\ Refusals \cap {"ok", "broken", "cancelled", "pending"} = {}

VARIABLES
  ctx,       \* "live" or "dead"
  late,      \* history: the context was dead before the call
  authenticate,  \* the credential is attached, and redirects may be followed
  pc,        \* "head", "backoff", "send", "flight", "body", "pause" or "returned"
  attempt,   \* the loop's counter
  waited,    \* a Retry-After already paced this retry
  via,       \* requests of this attempt already answered by a followed redirect
  to,        \* the origin the request in flight goes to
  status,    \* the status of the response whose body is being read
  result,    \* "pending", then what raw returned
  waits,     \* history: waits since the last attempt
  last       \* history: how the last attempt ended

vars == <<ctx, late, authenticate, pc, attempt, waited, via, to, status, result, waits, last>>

(* A 429 or 5xx, without a Retry-After or with one that retryAfter takes.  *)
Busy == {"busy", "paced"}
Statuses == {"ok"} \cup Busy \cup Refusals
Endings == {"none", "broken", "final", "ok"} \cup Busy

TypeOK ==
  /\ ctx \in {"live", "dead"}
  /\ late \in BOOLEAN
  /\ authenticate \in BOOLEAN
  /\ pc \in {"head", "backoff", "send", "flight", "body", "pause", "returned"}
  /\ attempt \in 0 .. MaxRetries + 1
  /\ waited \in BOOLEAN
  /\ via \in 0 .. MaxRedirects - 1
  /\ to \in {"home", "elsewhere"}
  /\ status \in {"none"} \cup Statuses
  /\ result \in {"pending", "ok", "broken", "cancelled"} \cup Refusals
  /\ waits \in 0 .. 2
  /\ last \in Endings

Init ==
  /\ ctx \in {"live", "dead"}
  /\ late = (ctx = "dead")
  /\ authenticate \in BOOLEAN
  /\ pc = "head"
  /\ attempt = 0
  /\ waited = FALSE
  /\ via = 0
  /\ to = "home"
  /\ status = "none"
  /\ result = "pending"
  /\ waits = 0
  /\ last = "none"

Expire ==
  /\ ctx = "live" /\ pc # "returned"
  /\ ctx' = "dead"
  /\ UNCHANGED <<late, authenticate, pc, attempt, waited, via, to, status, result, waits, last>>

ReturnWith(r) == pc' = "returned" /\ result' = r

(* continue: the attempt ended with something worth another one.           *)
TryAgain(ending) ==
  /\ pc' = "head"
  /\ attempt' = attempt + 1
  /\ last' = ending

-----------------------------------------------------------------------------
(* The head of the loop *)

GiveUp ==
  /\ pc = "head" /\ attempt > MaxRetries
  /\ ReturnWith("broken")
  /\ UNCHANGED <<ctx, late, authenticate, attempt, waited, via, to, status, waits, last>>

StartBackoff ==
  /\ pc = "head" /\ attempt \in 1 .. MaxRetries /\ ~waited
  /\ pc' = "backoff"
  /\ UNCHANGED <<ctx, late, authenticate, attempt, waited, via, to, status, result, waits, last>>

GoAhead ==
  /\ pc = "head" /\ attempt <= MaxRetries
  /\ attempt = 0 \/ waited
  /\ pc' = "send"
  /\ waited' = FALSE
  /\ UNCHANGED <<ctx, late, authenticate, attempt, via, to, status, result, waits, last>>

(* The two waits end with their timer, or with the context.                *)
Slept ==
  /\ pc = "backoff"
  /\ pc' = "send"
  /\ waits' = waits + 1
  /\ UNCHANGED <<ctx, late, authenticate, attempt, waited, via, to, status, result, last>>

(* Mutant: a Retry-After that was honoured does not spare the backoff.      *)
MutantPaused ==
  /\ pc = "pause"
  /\ waits' = waits + 1
  /\ TryAgain("paced")
  /\ UNCHANGED <<ctx, late, authenticate, waited, via, to, status, result>>

Paused ==
  /\ pc = "pause"
  /\ waited' = TRUE
  /\ waits' = waits + 1
  /\ TryAgain("paced")
  /\ UNCHANGED <<ctx, late, authenticate, via, to, status, result>>

WaitCancelled ==
  /\ pc \in {"backoff", "pause"} /\ ctx = "dead"
  /\ ReturnWith("cancelled")
  /\ UNCHANGED <<ctx, late, authenticate, attempt, waited, via, to, status, waits, last>>

-----------------------------------------------------------------------------
(* client.Do: net/http sends nothing on a dead context.                    *)

Send ==
  /\ pc = "send" /\ ctx = "live"
  /\ pc' = "flight"
  /\ via' = 0
  /\ to' = "home"
  /\ waits' = 0
  /\ UNCHANGED <<ctx, late, authenticate, attempt, waited, status, result, last>>

(* Mutant: the error of a dead context is retried like any other.           *)
MutantDoCancelled ==
  /\ pc \in {"send", "flight"} /\ ctx = "dead"
  /\ TryAgain("broken")
  /\ UNCHANGED <<ctx, late, authenticate, waited, via, to, status, result, waits>>

DoCancelled ==
  /\ pc \in {"send", "flight"} /\ ctx = "dead"
  /\ ReturnWith("cancelled")
  /\ UNCHANGED <<ctx, late, authenticate, attempt, waited, via, to, status, waits, last>>

(* Connection refused, DNS, the client's own timeout ...                   *)
TransportFailed ==
  /\ pc = "flight" /\ ctx = "live"
  /\ TryAgain("broken")
  /\ UNCHANGED <<ctx, late, authenticate, waited, via, to, status, result, waits>>

(* ... and a certificate nobody vouches for, which no retry repairs.       *)
(* Mutant: it is retried all the same.                                      *)
MutantCertificateRetried ==
  /\ pc = "flight" /\ ctx = "live"
  /\ TryAgain("final")
  /\ UNCHANGED <<ctx, late, authenticate, waited, via, to, status, result, waits>>

CertificateRefused ==
  /\ pc = "flight" /\ ctx = "live"
  /\ ReturnWith("broken")
  /\ last' = "final"
  /\ UNCHANGED <<ctx, late, authenticate, attempt, waited, via, to, status, waits>>

(* checkRedirect: within the origin, and a bounded number of times.        *)
MayFollow(target, requests) == target = "home" /\ requests < MaxRedirects

RedirectFollowed(target) ==
  /\ pc = "flight" /\ ctx = "live" /\ authenticate
  /\ MayFollow(target, via + 1)
  /\ via' = via + 1
  /\ to' = target
  /\ UNCHANGED <<ctx, late, authenticate, pc, attempt, waited, status, result, waits, last>>

RedirectRefused(target) ==
  /\ pc = "flight" /\ ctx = "live" /\ authenticate
  /\ ~MayFollow(target, via + 1)
  /\ ReturnWith("broken")
  /\ last' = "final"
  /\ UNCHANGED <<ctx, late, authenticate, attempt, waited, via, to, status, waits>>

(* A response's header arrives; the probe gets a redirect as an answer.    *)
Headers ==
  /\ pc = "flight"
  /\ pc' = "body"
  /\ status' \in Statuses
  /\ UNCHANGED <<ctx, late, authenticate, attempt, waited, via, to, result, waits, last>>

-----------------------------------------------------------------------------
(* The body, and what the response amounts to *)

BodyTooLarge ==
  /\ pc = "body"
  /\ ReturnWith("broken")
  /\ last' = "final"
  /\ UNCHANGED <<ctx, late, authenticate, attempt, waited, via, to, status, waits>>

BodyCutShort ==
  /\ pc = "body"
  /\ TryAgain("broken")
  /\ UNCHANGED <<ctx, late, authenticate, waited, via, to, status, result, waits>>

Success ==
  /\ pc = "body" /\ status = "ok"
  /\ ReturnWith("ok")
  /\ last' = "ok"
  /\ UNCHANGED <<ctx, late, authenticate, attempt, waited, via, to, status, waits>>

Refused ==
  /\ pc = "body" /\ status \in Refusals
  /\ ReturnWith(status)
  /\ last' = "final"
  /\ UNCHANGED <<ctx, late, authenticate, attempt, waited, via, to, status, waits>>

(* A Retry-After is honoured where another attempt follows.                *)
Pause ==
  /\ pc = "body" /\ status = "paced" /\ attempt < MaxRetries
  /\ pc' = "pause"
  /\ last' = "paced"
  /\ UNCHANGED <<ctx, late, authenticate, attempt, waited, via, to, status, result, waits>>

Throttled ==
  /\ pc = "body"
  /\ status = "busy" \/ (status = "paced" /\ attempt = MaxRetries)
  /\ TryAgain(status)
  /\ UNCHANGED <<ctx, late, authenticate, waited, via, to, status, result, waits>>

-----------------------------------------------------------------------------
Step ==
  \/ GiveUp \/ StartBackoff \/ GoAhead \/ Slept \/ Paused \/ WaitCancelled
  \/ Send \/ DoCancelled \/ TransportFailed \/ CertificateRefused
  \/ \E target \in {"home", "elsewhere"} : RedirectFollowed(target) \/ RedirectRefused(target)
  \/ Headers \/ BodyTooLarge \/ BodyCutShort \/ Success \/ Refused \/ Pause \/ Throttled

Next == Expire \/ Step

(* Timers fire, and net/http ends every request: Options.Timeout bounds it.*)
Spec == Init /\ [][Next]_vars /\ WF_vars(Step)

-----------------------------------------------------------------------------
(* Properties *)

(* Two attempts are separated by one wait: the backoff, or the pace the    *)
(* server named, never both and never neither.  And a call that returns,   *)
(* other than because the context died, has not waited since its last      *)
(* attempt: every wait was for an attempt that followed.                   *)
OneWaitPerRetry ==
  /\ pc = "send" => waits = IF attempt = 0 THEN 0 ELSE 1
  /\ pc = "returned" /\ result # "cancelled" => waits = 0

(* An answer that a retry would only repeat is returned at once: after a   *)
(* final answer no request goes out.                                       *)
FinalIsFinal == last \in {"final", "ok"} => pc = "returned"

(* What is returned is what the last attempt met.                          *)
ResultIsLast ==
  /\ result = "ok" <=> last = "ok"
  /\ result \in Refusals => last = "final" /\ status = result
  /\ result = "broken" => last \in {"broken", "final"} \cup Busy
  /\ result = "cancelled" => ctx = "dead"

(* One call is one Get: attempts and hops do not show.                     *)
Abstract == INSTANCE Get
  WITH Refusals <- Refusals, ctx <- ctx, late <- late, result <- result
ImplementsGet == Abstract!Spec

=============================================================================
