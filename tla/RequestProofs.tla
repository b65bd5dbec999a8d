--------------------------- MODULE RequestProofs ---------------------------
(***************************************************************************)
(* One call of raw, for any limits on retries and redirects and any set of *)
(* final statuses: its safety properties, and that it implements the one   *)
(* answer or cancellation that module Get promises.  That it returns at    *)
(* all is liveness, which TLC checks.                                      *)
(***************************************************************************)
EXTENDS Request, TLAPS

(* A wait is owed before every attempt but the first, and paid once.       *)
Paced ==
  /\ pc \in {"head", "backoff", "send"} =>
       waits = IF waited \/ (pc = "send" /\ attempt > 0) THEN 1 ELSE 0
  /\ waited => pc = "head" /\ attempt > 0
  /\ pc \in {"flight", "body", "pause"} => waits = 0
  /\ pc = "returned" /\ result # "cancelled" => waits = 0

Attempts ==
  /\ pc \in {"backoff", "send", "flight", "body"} => attempt <= MaxRetries
  /\ pc = "backoff" => attempt > 0
  /\ pc = "pause" => attempt < MaxRetries
  /\ waited => attempt <= MaxRetries

(* Until the call returns, every attempt ended with something to retry.    *)
Pending ==
  pc # "returned" =>
    /\ result = "pending"
    /\ last \in {"none", "broken"} \cup Busy
    /\ attempt > 0 => last # "none"

Settled == pc = "returned" => result # "pending"

(* A call on a dead context gets no further than net/http.                 *)
Late ==
  late =>
    /\ ctx = "dead"
    /\ \/ pc \in {"head", "send"} /\ attempt = 0
       \/ pc = "returned" /\ result = "cancelled"

IInv ==
  /\ TypeOK
  /\ Paced
  /\ Attempts
  /\ Pending
  /\ Settled
  /\ Late
  /\ ResultIsLast

LEMMA RefusalsApart == \A r \in Refusals : r \notin {"ok", "broken", "cancelled", "pending"}
  BY LimitAssumption

LEMMA InitInv == Init => IInv
  <1> SUFFICES ASSUME Init PROVE IInv
    OBVIOUS
  <1> USE DEF Init
  <1>1. TypeOK
    <2>1. late \in BOOLEAN
      OBVIOUS
    <2>2. attempt \in 0 .. MaxRetries + 1 /\ via \in 0 .. MaxRedirects - 1 /\ waits \in 0 .. 2
      BY LimitAssumption
    <2> QED
      BY <2>1, <2>2 DEF TypeOK, Endings
  <1>2. Paced /\ Attempts /\ Pending /\ Settled
    BY LimitAssumption DEF Paced, Attempts, Pending, Settled
  <1>l. Late
    BY DEF Late
  <1>3. ResultIsLast
    BY RefusalsApart DEF ResultIsLast
  <1> QED
    BY <1>1, <1>2, <1>l, <1>3 DEF IInv

LEMMA StepInv == IInv /\ [Next]_vars => IInv'
  <1> SUFFICES ASSUME IInv, [Next]_vars PROVE IInv'
    OBVIOUS
  <1> USE LimitAssumption, RefusalsApart DEF IInv
  <1>1. CASE GiveUp
    <2> USE DEF GiveUp, TryAgain, ReturnWith
    <2>1. TypeOK'
      BY <1>1 DEF TypeOK, Attempts, Statuses, Endings, Busy, Paced
    <2>2. Paced'
      BY <1>1 DEF TypeOK, Paced, Attempts
    <2>3. Attempts'
      BY <1>1 DEF TypeOK, Attempts, Statuses, Busy
    <2>4. Pending' /\ Settled'
      BY <1>1 DEF TypeOK, Pending, Settled
    <2>5. Late'
      BY <1>1 DEF TypeOK, Late
    <2>6. ResultIsLast'
      BY <1>1 DEF TypeOK, Pending, ResultIsLast, Busy
    <2> QED
      BY <2>1, <2>2, <2>3, <2>4, <2>5, <2>6
  <1>2. CASE StartBackoff
    BY <1>2 DEF StartBackoff, TypeOK, Paced, Attempts, Pending, Settled, Late, ResultIsLast,
        Statuses, Endings, Busy, TryAgain, ReturnWith
  <1>3. CASE GoAhead
    <2> USE DEF GoAhead, TryAgain, ReturnWith
    <2>1. TypeOK'
      BY <1>3 DEF TypeOK, Attempts, Statuses, Endings, Busy, Paced
    <2>2. Paced'
      BY <1>3 DEF TypeOK, Paced, Attempts
    <2>3. Attempts'
      BY <1>3 DEF TypeOK, Attempts, Statuses, Busy
    <2>4. Pending' /\ Settled'
      BY <1>3 DEF TypeOK, Pending, Settled
    <2>5. Late'
      BY <1>3 DEF TypeOK, Late
    <2>6. ResultIsLast'
      BY <1>3 DEF TypeOK, Pending, ResultIsLast, Busy
    <2> QED
      BY <2>1, <2>2, <2>3, <2>4, <2>5, <2>6
  <1>4. CASE Slept
    BY <1>4 DEF Slept, TypeOK, Paced, Attempts, Pending, Settled, Late, ResultIsLast,
        Statuses, Endings, Busy, TryAgain, ReturnWith
  <1>5. CASE Paused
    BY <1>5 DEF Paused, TypeOK, Paced, Attempts, Pending, Settled, Late, ResultIsLast,
        Statuses, Endings, Busy, TryAgain, ReturnWith
  <1>6. CASE WaitCancelled
    BY <1>6 DEF WaitCancelled, TypeOK, Paced, Attempts, Pending, Settled, Late, ResultIsLast,
        Statuses, Endings, Busy, TryAgain, ReturnWith
  <1>7. CASE Send
    BY <1>7 DEF Send, TypeOK, Paced, Attempts, Pending, Settled, Late, ResultIsLast,
        Statuses, Endings, Busy, TryAgain, ReturnWith
  <1>8. CASE DoCancelled
    BY <1>8 DEF DoCancelled, TypeOK, Paced, Attempts, Pending, Settled, Late, ResultIsLast,
        Statuses, Endings, Busy, TryAgain, ReturnWith
  <1>9. CASE TransportFailed
    BY <1>9 DEF TransportFailed, TypeOK, Paced, Attempts, Pending, Settled, Late, ResultIsLast,
        Statuses, Endings, Busy, TryAgain, ReturnWith
  <1>10. CASE CertificateRefused
    BY <1>10 DEF CertificateRefused, TypeOK, Paced, Attempts, Pending, Settled, Late, ResultIsLast,
        Statuses, Endings, Busy, TryAgain, ReturnWith
  <1>11. CASE \E target \in {"home", "elsewhere"} : RedirectFollowed(target)
    BY <1>11 DEF RedirectFollowed, MayFollow, TypeOK, Paced, Attempts, Pending, Settled, Late, ResultIsLast,
        Statuses, Endings, Busy, TryAgain, ReturnWith
  <1>12. CASE \E target \in {"home", "elsewhere"} : RedirectRefused(target)
    BY <1>12 DEF RedirectRefused, TypeOK, Paced, Attempts, Pending, Settled, Late, ResultIsLast,
        Statuses, Endings, Busy, TryAgain, ReturnWith
  <1>13. CASE Headers
    <2> USE DEF Headers, TryAgain, ReturnWith
    <2>1. TypeOK'
      BY <1>13 DEF TypeOK, Attempts, Statuses, Endings, Busy, Paced
    <2>2. Paced'
      BY <1>13 DEF TypeOK, Paced, Attempts
    <2>3. Attempts'
      BY <1>13 DEF TypeOK, Attempts, Statuses, Busy
    <2>4. Pending' /\ Settled'
      BY <1>13 DEF TypeOK, Pending, Settled
    <2>5. Late'
      BY <1>13 DEF TypeOK, Late
    <2>6. ResultIsLast'
      BY <1>13 DEF TypeOK, Pending, ResultIsLast, Busy
    <2> QED
      BY <2>1, <2>2, <2>3, <2>4, <2>5, <2>6
  <1>14. CASE BodyTooLarge
    BY <1>14 DEF BodyTooLarge, TypeOK, Paced, Attempts, Pending, Settled, Late, ResultIsLast,
        Statuses, Endings, Busy, TryAgain, ReturnWith
  <1>15. CASE BodyCutShort
    BY <1>15 DEF BodyCutShort, TypeOK, Paced, Attempts, Pending, Settled, Late, ResultIsLast,
        Statuses, Endings, Busy, TryAgain, ReturnWith
  <1>16. CASE Success
    BY <1>16 DEF Success, TypeOK, Paced, Attempts, Pending, Settled, Late, ResultIsLast,
        Statuses, Endings, Busy, TryAgain, ReturnWith
  <1>17. CASE Refused
    BY <1>17 DEF Refused, TypeOK, Paced, Attempts, Pending, Settled, Late, ResultIsLast,
        Statuses, Endings, Busy, TryAgain, ReturnWith
  <1>18. CASE Pause
    BY <1>18 DEF Pause, TypeOK, Paced, Attempts, Pending, Settled, Late, ResultIsLast,
        Statuses, Endings, Busy, TryAgain, ReturnWith
  <1>19. CASE Throttled
    BY <1>19 DEF Throttled, TypeOK, Paced, Attempts, Pending, Settled, Late, ResultIsLast,
        Statuses, Endings, Busy, TryAgain, ReturnWith
  <1>20. CASE Expire
    BY <1>20 DEF Expire, TypeOK, Paced, Attempts, Pending, Settled, Late, ResultIsLast,
        Statuses, Endings, Busy, TryAgain, ReturnWith
  <1>21. CASE UNCHANGED vars
    BY <1>21 DEF vars, TypeOK, Paced, Attempts, Pending, Settled, Late, ResultIsLast,
        Statuses, Endings, Busy, TryAgain, ReturnWith
  <1> QED
    BY <1>1, <1>2, <1>3, <1>4, <1>5, <1>6, <1>7, <1>8, <1>9, <1>10, <1>11, <1>12, <1>13, <1>14, <1>15, <1>16, <1>17, <1>18, <1>19, <1>20, <1>21 DEF Next, Step

-----------------------------------------------------------------------------
(* What follows                                                            *)

(* Every reachable state of a call satisfies the strengthened invariant.  *)
THEOREM Invariance == Spec => []IInv
  BY InitInv, StepInv, PTL DEF Spec

(* The attempt counter, the hops and the statuses stay within their limits.*)
THEOREM TypeCorrect == Spec => []TypeOK
  <1>1. IInv => TypeOK
    BY DEF IInv
  <1> QED
    BY Invariance, <1>1, PTL

(* Each retry follows exactly one wait, a backoff or the server's own pace, *)
(* and each wait is followed by an attempt, unless the context dies.       *)
THEOREM EachRetryWaitsOnce == Spec => []OneWaitPerRetry
  <1>1. IInv => OneWaitPerRetry
    BY DEF IInv, TypeOK, Paced, OneWaitPerRetry
  <1> QED
    BY Invariance, <1>1, PTL

(* An answer, a refused certificate or a refused redirect is not retried.  *)
THEOREM FinalAnswersEndCalls == Spec => []FinalIsFinal
  <1>1. IInv => FinalIsFinal
    BY DEF IInv, Pending, Busy, FinalIsFinal
  <1> QED
    BY Invariance, <1>1, PTL

(* The caller is told what the last attempt met.                           *)
THEOREM LastAttemptDecides == Spec => []ResultIsLast
  <1>1. IInv => ResultIsLast
    BY DEF IInv
  <1> QED
    BY Invariance, <1>1, PTL

-----------------------------------------------------------------------------
(* Request implements Get                                                  *)

LEMMA InitRefines == Init => Abstract!Init
  BY DEF Init, Abstract!Init

(* Only the steps that return, and the death of the context, show.         *)
LEMMA StepRefines == IInv /\ [Next]_vars => [Abstract!Next]_(Abstract!vars)
  <1> SUFFICES ASSUME IInv, [Next]_vars PROVE [Abstract!Next]_(Abstract!vars)
    OBVIOUS
  <1> USE RefusalsApart DEF IInv, TypeOK, Pending, Late, Abstract!vars, ReturnWith, TryAgain
  <1>1. CASE GiveUp \/ CertificateRefused \/ BodyTooLarge \/ Success \/ Refused
             \/ \E target \in {"home", "elsewhere"} : RedirectRefused(target)
    <2> USE DEF GiveUp, CertificateRefused, BodyTooLarge, Success, Refused, RedirectRefused
    <2>1. ~late
      BY <1>1, LimitAssumption
    <2>2. result = "pending" /\ result' \in {"ok", "broken"} \cup Refusals
      BY <1>1
    <2>3. UNCHANGED <<ctx, late>>
      BY <1>1
    <2> QED
      BY <2>1, <2>2, <2>3 DEF Abstract!Next, Abstract!Answer
  <1>2. CASE WaitCancelled \/ DoCancelled
    <2>1. Abstract!Cancel
      BY <1>2 DEF WaitCancelled, DoCancelled, Abstract!Cancel
    <2> QED
      BY <2>1 DEF Abstract!Next
  <1>3. CASE Expire
    <2>1. Abstract!Expire
      BY <1>3 DEF Expire, Abstract!Expire
    <2> QED
      BY <2>1 DEF Abstract!Next
  <1>4. CASE \/ StartBackoff \/ GoAhead \/ Slept \/ Paused \/ Send \/ TransportFailed \/ Headers
             \/ BodyCutShort \/ Pause \/ Throttled
             \/ \E target \in {"home", "elsewhere"} : RedirectFollowed(target)
    BY <1>4 DEF StartBackoff, GoAhead, Slept, Paused, Send, TransportFailed, Headers, BodyCutShort,
                Pause, Throttled, RedirectFollowed
  <1>5. CASE UNCHANGED vars
    BY <1>5 DEF vars
  <1> QED
    BY <1>1, <1>2, <1>3, <1>4, <1>5 DEF Next, Step

(* Every call of raw is an answer or a cancellation, and a call that began *)
(* with a dead context is never answered, however many attempts, waits and *)
(* hops the limits allow: the safety part of ImplementsGet.                *)
THEOREM SafelyImplementsGet == Spec => Abstract!Init /\ [][Abstract!Next]_(Abstract!vars)
  BY Invariance, InitRefines, StepRefines, PTL DEF Spec

=============================================================================
