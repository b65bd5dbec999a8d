--------------------------- MODULE VerdictProofs ---------------------------
(***************************************************************************)
(* The exit code, for any controls, jobs, exceptions and thresholds: 0 and *)
(* 1 mean that the scan looked, accepting findings never hurts, and a run  *)
(* that fails for its failures names one.                                  *)
(***************************************************************************)
EXTENDS Verdict, FiniteSetTheorems, TLAPS

(* The findings are those of some jobs, and what is accepted are findings. *)
Findings ==
  /\ DOMAIN report = {"status", "errors", "accepted", "score"}
  /\ DOMAIN report.status \subseteq Cells(Job)
  /\ options \in Options
  /\ next # 0 => report.score = Compute(report.status)

(* The gates are asked once the exceptions are applied, each after those   *)
(* before it have passed, and the exit code is the last one's answer.      *)
Asked ==
  /\ gate \in 0 .. Len(Gates) + 1 /\ exit \in -1 .. 2
  /\ gate # 0 => next = Len(exceptions) + 1 /\ next # 0
  /\ gate = 0 => exit = -1
  /\ \A k \in DOMAIN Gates : k < gate => ~Fires(Gates[k], report)
  /\ exit = 0 => gate = Len(Gates) + 1
  /\ exit \in {1, 2} =>
       gate \in DOMAIN Gates /\ Fires(Gates[gate], report) /\ exit = Code(Gates[gate])

IInv == Findings /\ exceptions \in Seq(Exception) /\ next \in Nat /\ Asked

LEMMA SixGates == Len(Gates) = 6 /\ DOMAIN Gates = 1 .. 6
  BY DEF Gates

LEMMA InitInv == Init => IInv
  <1> SUFFICES ASSUME Init PROVE IInv
    OBVIOUS
  <1>1. exceptions \in Seq(Exception)
    <2>1. PICK m \in 0 .. MaxExceptions : exceptions \in [1 .. m -> Exception]
      BY DEF Init, SeqOf
    <2>2. m \in Nat
      BY VerdictAssumption
    <2> QED
      BY <2>1, <2>2
  <1>2. Findings
    <2>1. PICK jobs \in SUBSET Job : \E status \in StatusesOf(jobs) : report.status = status
      BY DEF Init
    <2>2. DOMAIN report.status = Cells(jobs)
      BY <2>1 DEF StatusesOf
    <2>3. Cells(jobs) \subseteq Cells(Job)
      BY DEF Cells
    <2> QED
      BY <2>2, <2>3 DEF Init, Findings
  <1>3. Asked
    BY SixGates DEF Init, Asked
  <1> QED
    BY <1>1, <1>2, <1>3 DEF Init, IInv

LEMMA NextInv == IInv /\ [Next]_vars => IInv'
  <1> SUFFICES ASSUME IInv, [Next]_vars PROVE IInv'
    OBVIOUS
  <1> USE SixGates DEF IInv
  <1>1. CASE Score \/ Apply
    <2>1. gate = 0 /\ gate' = 0 /\ exit' = -1
      <3>1. next # Len(exceptions) + 1 \/ next = 0
        BY <1>1 DEF Score, Apply
      <3> QED
        BY <1>1, <3>1 DEF Score, Apply, Asked
    <2>2. report'.status = report.status /\ options' = options
      BY <1>1 DEF Score, Apply, Findings
    <2>3. next' # 0 => report'.score = Compute(report'.status)
      BY <1>1 DEF Score, Apply, Findings
    <2>4. Findings'
      BY <1>1, <2>2, <2>3 DEF Score, Apply, Findings
    <2>5. Asked'
      BY <2>1 DEF Asked
    <2> QED
      BY <1>1, <2>4, <2>5 DEF Score, Apply
  <1>2. CASE AskFirst
    <2>1. next = Len(exceptions) + 1 /\ next # 0
      BY <1>2 DEF AskFirst
    <2> QED
      BY <1>2, <2>1 DEF AskFirst, Findings, Asked
  <1>3. CASE Pass
    BY <1>3 DEF Pass, Asking, Findings, Asked, Fires, TooManyManual, HasFailureAtOrAbove
  <1>4. CASE Stop
    BY <1>4 DEF Stop, Asking, Findings, Asked, Code, Fires, TooManyManual, HasFailureAtOrAbove
  <1>5. CASE UNCHANGED vars
    BY <1>5 DEF vars, Findings, Asked, Fires, TooManyManual, HasFailureAtOrAbove
  <1> QED
    BY <1>1, <1>2, <1>3, <1>4, <1>5 DEF Next

(* The gates are asked in their order, all of them before an exit with 0.  *)
THEOREM Invariance == Spec => []IInv
  <1> QED
    BY InitInv, NextInv, PTL DEF Spec

-----------------------------------------------------------------------------
LEMMA TypeInit == Init => TypeOK
  <1> SUFFICES ASSUME Init PROVE TypeOK
    OBVIOUS
  <1>1. exceptions \in Seq(Exception) /\ Len(exceptions) <= MaxExceptions
    <2>1. PICK m \in 0 .. MaxExceptions : exceptions \in [1 .. m -> Exception]
      BY DEF Init, SeqOf
    <2>2. m \in Nat /\ m <= MaxExceptions
      BY VerdictAssumption
    <2>3. exceptions \in Seq(Exception) /\ Len(exceptions) = m
      BY <2>1, <2>2
    <2> QED
      BY <2>2, <2>3
  <1>2. \E jobs \in SUBSET Job : report.status \in StatusesOf(jobs)
    BY DEF Init
  <1>3. /\ report.errors \subseteq With("MANUAL", report.status)
        /\ report.accepted \subseteq DOMAIN report.status
        /\ report.score = -1
    BY DEF Init
  <1>4. next \in 0 .. MaxExceptions + 1 /\ gate \in 0 .. Len(Gates) + 1
    BY SixGates, VerdictAssumption DEF Init
  <1> QED
    BY <1>1, <1>2, <1>3, <1>4 DEF Init, TypeOK

LEMMA TypeNext == TypeOK /\ IInv /\ [Next]_vars => TypeOK'
  <1> SUFFICES ASSUME TypeOK, IInv, [Next]_vars PROVE TypeOK'
    OBVIOUS
  <1>g. gate' \in 0 .. Len(Gates) + 1 /\ exit' \in -1 .. 2
    BY NextInv DEF IInv, Asked
  <1>1. CASE Score
    BY <1>1, <1>g, VerdictAssumption DEF Score, TypeOK, IInv, Findings
  <1>2. CASE Apply
    <2>1. /\ report'.status = report.status /\ report'.errors = report.errors
          /\ report'.score = report.score
          /\ report'.accepted = report.accepted \cup Matches(exceptions[next], report.status)
      BY <1>2 DEF Apply, IInv, Findings
    <2>2. Matches(exceptions[next], report.status) \subseteq DOMAIN report.status
      BY DEF Matches, With
    <2>3. next \in 1 .. Len(exceptions) /\ Len(exceptions) \in Nat /\ next' = next + 1
      BY <1>2 DEF Apply, TypeOK
    <2>4. next' \in 0 .. MaxExceptions + 1 /\ next' # 0 /\ next # 0
      BY <2>3, VerdictAssumption DEF TypeOK
    <2>5. warned' \subseteq DOMAIN exceptions
      BY <1>2 DEF Apply, TypeOK
    <2>6. /\ UNCHANGED <<complete, exceptions, options>>
          /\ \E jobs \in SUBSET Job : report'.status \in StatusesOf(jobs)
      BY <1>2, <2>1 DEF Apply, TypeOK
    <2> QED
      BY <1>g, <2>1, <2>2, <2>4, <2>5, <2>6 DEF TypeOK
  <1>3. CASE AskFirst \/ Pass \/ Stop \/ UNCHANGED vars
    <2>1. UNCHANGED <<complete, exceptions, options, report, next, warned>>
      BY <1>3 DEF AskFirst, Pass, Stop, vars
    <2> QED
      BY <1>g, <2>1 DEF TypeOK
  <1> QED
    BY <1>1, <1>2, <1>3 DEF Next

(* Every variable of the verdict keeps its type, and the score is that of  *)
(* the findings, whatever has been accepted since.                         *)
THEOREM TypeCorrect == Spec => []TypeOK
  <1> QED
    BY TypeInit, TypeNext, Invariance, PTL DEF Spec

-----------------------------------------------------------------------------
(* An exit with 0 or 1 has passed the three gates that exit with 2: every  *)
(* policy ran, the job list was complete or need not be, jobs were judged. *)
THEOREM LookedAtSomething == Spec => []VerdictMeansLooked
  <1>1. IInv => VerdictMeansLooked
    <2> SUFFICES ASSUME IInv, exit \in {0, 1} PROVE
          ~Fires("errors", report) /\ ~Fires("incomplete", report) /\ ~Fires("noJobs", report)
      BY DEF VerdictMeansLooked, Fires, NoJobsAudited
    <2>1. gate > 3
      <3>1. CASE exit = 0
        BY <3>1, SixGates DEF IInv, Asked
      <3>2. CASE exit = 1
        <4>1. Code(Gates[gate]) = 1 /\ gate \in 1 .. 6
          BY <3>2, SixGates DEF IInv, Asked
        <4> QED
          BY <4>1 DEF Code, Gates
      <3> QED
        BY <3>1, <3>2
    <2>2. Gates[1] = "errors" /\ Gates[2] = "incomplete" /\ Gates[3] = "noJobs"
      BY DEF Gates
    <2>3. \A k \in 1 .. 3 : ~Fires(Gates[k], report)
      BY <2>1, SixGates DEF IInv, Asked
    <2> QED
      BY <2>2, <2>3
  <1> QED
    BY <1>1, Invariance, PTL

-----------------------------------------------------------------------------
(* By weight or by rank, severities compare alike.                         *)
LEMMA SameOrder ==
  ASSUME NEW a \in {"low", "medium", "high"}, NEW b \in {"low", "medium", "high"},
         Weight(a) >= Weight(b)
  PROVE  SeverityAtOrAbove(a, b)
  BY DEF Weight, SeverityAtOrAbove

(* The message of the failOn gate counts at least one control.             *)
THEOREM SomeControlIsNamed == Spec => []FailureIsNamed
  <1>1. IInv => FailureIsNamed
    <2> SUFFICES ASSUME IInv, exit = 1, Gates[gate] = "failOn"
                 PROVE  Summarised(report, options.failOn) # {}
      BY DEF FailureIsNamed
    <2>1. Fires("failOn", report)
      BY DEF IInv, Asked
    <2>2. options.failOn \in {"low", "medium", "high"}
      BY <2>1, VerdictAssumption DEF Fires, IInv, Findings
    <2>3. PICK x \in With("FAIL", report.status) \ report.accepted :
            Weight(Severity[x[1]]) >= Weight(options.failOn)
      BY <2>1 DEF Fires, HasFailureAtOrAbove
    <2>4. x[1] \in Control
      <3>1. x \in Cells(Job)
        BY <2>3 DEF With, IInv, Findings
      <3> QED
        BY <3>1, VerdictAssumption DEF Cells
    <2>5. Severity[x[1]] \in {"low", "medium", "high"}
      BY <2>4, VerdictAssumption
    <2>6. SeverityAtOrAbove(Severity[x[1]], options.failOn)
      BY <2>2, <2>3, <2>5, SameOrder
    <2> QED
      BY <2>3, <2>4, <2>6 DEF Summarised
  <1> QED
    BY <1>1, Invariance, PTL

-----------------------------------------------------------------------------
(* A part that shrinks together with its whole is a smaller share of it.   *)
LEMMA SmallerShare ==
  ASSUME NEW m \in 0 .. 100, NEW d \in Nat, NEW u \in Nat, NEW v \in Nat, u <= v,
         v * 100 <= m * (d + v)
  PROVE  u * 100 <= m * (d + u)
  <1>1. m * (d + v) = m * d + m * v /\ m * (d + u) = m * d + m * u
    OBVIOUS
  <1>2. v * 100 = m * v + (100 - m) * v /\ u * 100 = m * u + (100 - m) * u
    OBVIOUS
  <1>3. (100 - m) * u <= (100 - m) * v
    OBVIOUS
  <1> QED
    BY <1>1, <1>2, <1>3

(* A gate that does not fire when nothing is accepted does not fire.       *)
LEMMA AcceptingDisarms ==
  ASSUME IInv, next # 0, NEW r, r.status = report.status, r.errors = report.errors,
         r.accepted = {}, r.score = Compute(report.status),
         NEW g \in {"errors", "incomplete", "noJobs", "maxManual", "failUnder", "failOn"},
         Fires(g, report)
  PROVE  Fires(g, r)
  <1>1. report.score = r.score
    BY DEF IInv, Findings
  <1>2. CASE g \in {"errors", "incomplete", "noJobs", "failUnder"}
    BY <1>1, <1>2 DEF Fires, NoJobsAudited
  <1>3. CASE g = "failOn"
    BY <1>3 DEF Fires, HasFailureAtOrAbove
  <1>4. CASE g = "maxManual"
    <2> DEFINE u == Cardinality(Unread(report))
               v == Cardinality(Unread(r))
               d == Cardinality(Decided(r))
               m == options.maxManual
    <2>1. m >= 0 /\ d + u > 0 /\ u * 100 > m * (d + u)
      BY <1>4 DEF Fires, TooManyManual, Decided
    <2>2. m \in 0 .. 100
      BY <2>1, VerdictAssumption DEF IInv, Findings
    <2>3. IsFiniteSet(DOMAIN report.status)
      <3>1. IsFiniteSet(Control \X Job) /\ IsFiniteSet(Control \X {"controller"})
        BY VerdictAssumption, FS_Product, FS_Singleton
      <3>2. IsFiniteSet((Control \X Job) \cup (Control \X {"controller"}))
        BY <3>1, FS_Union
      <3>3. DOMAIN report.status \subseteq (Control \X Job) \cup (Control \X {"controller"})
        BY VerdictAssumption DEF IInv, Findings, Cells
      <3> QED
        BY <3>2, <3>3, FS_Subset
    <2>4. Unread(report) \subseteq Unread(r)
      BY DEF Unread
    <2>5. Unread(r) \subseteq DOMAIN report.status /\ Decided(r) \subseteq DOMAIN report.status
      BY DEF Unread, Decided, With
    <2>6. IsFiniteSet(Unread(r)) /\ IsFiniteSet(Decided(r))
      BY <2>3, <2>5, FS_Subset
    <2>7. u <= v /\ u \in Nat /\ v \in Nat /\ d \in Nat
      BY <2>4, <2>6, FS_Subset, FS_CardinalityType
    <2> HIDE DEF u, v, d, m
    <2>8. v * 100 > m * (d + v)
      BY <2>1, <2>2, <2>7, SmallerShare
    <2>9. d + v > 0
      BY <2>1, <2>7
    <2> QED
      BY <1>4, <2>1, <2>8, <2>9 DEF Fires, TooManyManual, u, v, d, m
  <1> QED
    BY <1>2, <1>3, <1>4

(* Whatever is accepted, a run that would pass without it passes.          *)
THEOREM AcceptingIsSafe == Spec => []AcceptingNeverHurts
  <1>1. IInv => AcceptingNeverHurts
    <2> DEFINE r == [status |-> report.status, errors |-> report.errors, accepted |-> {},
                     score |-> Compute(report.status)]
    <2> SUFFICES ASSUME IInv, exit # -1, ExitWith(report.status, report.errors, {}) = 0,
                        exit \in {1, 2}
                 PROVE  FALSE
      BY DEF AcceptingNeverHurts, Ended, IInv, Asked
    <2>1. gate \in DOMAIN Gates /\ Fires(Gates[gate], report) /\ next # 0
      BY DEF IInv, Asked
    <2>2. Gates[gate] \in {"errors", "incomplete", "noJobs", "maxManual", "failUnder", "failOn"}
      BY <2>1, SixGates DEF Gates
    <2>3. Fires(Gates[gate], r)
      BY <2>1, <2>2, AcceptingDisarms
    <2>4. {k \in DOMAIN Gates : Fires(Gates[k], r)} = {}
      BY DEF ExitWith, Code
    <2> QED
      BY <2>1, <2>3, <2>4
  <1> QED
    BY <1>1, Invariance, PTL

-----------------------------------------------------------------------------
(* What is accepted is what the exceptions applied so far accept together, *)
(* and whatever is warned about accepts nothing.                           *)
Applied ==
  /\ next \in Nat
  /\ next # 0 => report.accepted = UNION {Matches(exceptions[k], report.status) : k \in 1 .. next - 1}
  /\ next = 0 => report.accepted = {}
  /\ \A k \in warned : k \in DOMAIN exceptions /\ Matches(exceptions[k], report.status) = {}

LEMMA AppliedNext == IInv /\ Applied /\ [Next]_vars => Applied'
  <1> SUFFICES ASSUME IInv, Applied, [Next]_vars PROVE Applied'
    OBVIOUS
  <1>1. CASE Score
    <2>1. report'.accepted = {} /\ report'.status = report.status /\ next' = 1
          /\ exceptions' = exceptions /\ warned' = warned
      BY <1>1 DEF Score, Applied, IInv, Findings
    <2> QED
      BY <2>1 DEF Applied, Matches
  <1>2. CASE Apply
    <2> DEFINE e == exceptions[next]
    <2>1. /\ report'.status = report.status
          /\ report'.accepted = report.accepted \cup Matches(e, report.status)
          /\ next' = next + 1 /\ exceptions' = exceptions
      BY <1>2 DEF Apply, IInv, Findings
    <2>2. next \in DOMAIN exceptions /\ next \in Nat /\ next # 0
      BY <1>2 DEF Apply, IInv
    <2>3. {Matches(exceptions[k], report.status) : k \in 1 .. next}
            = {Matches(exceptions[k], report.status) : k \in 1 .. next - 1}
                \cup {Matches(e, report.status)}
      <3>1. 1 .. next = (1 .. next - 1) \cup {next}
        BY <2>2
      <3> QED
        BY <3>1
    <2>4. report'.accepted = UNION {Matches(exceptions[k], report.status) : k \in 1 .. next}
      BY <2>1, <2>2, <2>3 DEF Applied
    <2>5. DeservesWarning(e, report.status) => Matches(e, report.status) = {}
      BY DEF DeservesWarning, Matches
    <2>6. \A k \in warned' : k \in DOMAIN exceptions /\ Matches(exceptions[k], report.status) = {}
      BY <1>2, <2>2, <2>5 DEF Apply, Applied
    <2>7. next' - 1 = next /\ next' \in Nat /\ next' # 0
      BY <2>1, <2>2
    <2> QED
      BY <2>1, <2>4, <2>6, <2>7 DEF Applied, Matches
  <1>3. CASE AskFirst \/ Pass \/ Stop \/ UNCHANGED vars
    <2>1. UNCHANGED <<exceptions, report, next, warned>>
      BY <1>3 DEF AskFirst, Pass, Stop, vars
    <2> QED
      BY <2>1 DEF Applied, Matches
  <1> QED
    BY <1>1, <1>2, <1>3 DEF Next

(* A sequence without one of its elements has the others.                  *)
LEMMA RemoveAtElements ==
  ASSUME NEW S, NEW list \in Seq(S), NEW k \in DOMAIN list
  PROVE  /\ \A j \in DOMAIN RemoveAt(list, k) :
              \E i \in DOMAIN list : RemoveAt(list, k)[j] = list[i]
         /\ \A i \in DOMAIN list : i # k =>
              \E j \in DOMAIN RemoveAt(list, k) : RemoveAt(list, k)[j] = list[i]
  <1> DEFINE n == Len(list)
             a == SubSeq(list, 1, k - 1)
             b == SubSeq(list, k + 1, n)
             c == a \o b
  <1>1. n \in Nat /\ k \in 1 .. n /\ DOMAIN list = 1 .. n
    OBVIOUS
  <1>2. a \in Seq(S) /\ Len(a) = k - 1 /\ \A j \in 1 .. k - 1 : a[j] = list[j]
    BY <1>1
  <1>3. b \in Seq(S) /\ Len(b) = n - k /\ \A j \in 1 .. n - k : b[j] = list[k + j]
    BY <1>1
  <1> HIDE DEF n, a, b
  <1>4. c \in Seq(S) /\ DOMAIN c = 1 .. n - 1
    BY <1>1, <1>2, <1>3
  <1>5. /\ \A j \in 1 .. k - 1 : c[j] = list[j]
        /\ \A j \in k .. n - 1 : c[j] = list[j + 1]
    <2>1. \A j \in 1 .. k - 1 : c[j] = a[j]
      BY <1>1, <1>2, <1>3
    <2>2. \A j \in k .. n - 1 : c[j] = b[j - (k - 1)]
      BY <1>1, <1>2, <1>3
    <2>3. \A j \in k .. n - 1 : j - (k - 1) \in 1 .. n - k /\ k + (j - (k - 1)) = j + 1
      BY <1>1
    <2> QED
      BY <1>2, <1>3, <2>1, <2>2, <2>3
  <1> HIDE DEF c
  <1>6. \A j \in 1 .. n - 1 : \E i \in 1 .. n : c[j] = list[i]
    <2> SUFFICES ASSUME NEW j \in 1 .. n - 1 PROVE \E i \in 1 .. n : c[j] = list[i]
      OBVIOUS
    <2>1. CASE j < k
      BY <1>1, <1>5, <2>1
    <2>2. CASE j >= k
      <3>1. c[j] = list[j + 1] /\ j + 1 \in 1 .. n
        BY <1>1, <1>5, <2>2
      <3> QED
        BY <3>1
    <2> QED
      BY <1>1, <2>1, <2>2
  <1>7. \A i \in 1 .. n : i # k => \E j \in 1 .. n - 1 : c[j] = list[i]
    <2> SUFFICES ASSUME NEW i \in 1 .. n, i # k PROVE \E j \in 1 .. n - 1 : c[j] = list[i]
      OBVIOUS
    <2>1. CASE i < k
      <3>1. c[i] = list[i] /\ i \in 1 .. n - 1
        BY <1>1, <1>5, <2>1
      <3> QED
        BY <3>1
    <2>2. CASE i > k
      <3>1. i - 1 \in k .. n - 1 /\ i - 1 \in 1 .. n - 1 /\ (i - 1) + 1 = i
        BY <1>1, <2>2
      <3>2. c[i - 1] = list[i]
        BY <1>5, <3>1
      <3> QED
        BY <3>1, <3>2
    <2> QED
      BY <1>1, <2>1, <2>2
  <1>8. RemoveAt(list, k) = c
    BY DEF RemoveAt, a, b, c, n
  <1> QED
    BY <1>1, <1>4, <1>6, <1>7, <1>8

(* The exit code is that of the first gate that fires.                     *)
LEMMA ExitIsFirst ==
  ASSUME IInv, exit # -1
  PROVE  ExitWith(report.status, report.errors, report.accepted) = exit
  <1> DEFINE r == [status |-> report.status, errors |-> report.errors,
                   accepted |-> report.accepted, score |-> Compute(report.status)]
             firing == {k \in DOMAIN Gates : Fires(Gates[k], report)}
  <1>1. next # 0
    BY DEF IInv, Asked
  <1>2. r.score = report.score
    BY <1>1 DEF IInv, Findings
  <1>3. \A g \in {Gates[k] : k \in DOMAIN Gates} : Fires(g, r) <=> Fires(g, report)
    BY <1>2 DEF Fires, NoJobsAudited, TooManyManual, Unread, Decided, HasFailureAtOrAbove
  <1>4. {k \in DOMAIN Gates : Fires(Gates[k], r)} = firing
    BY <1>3
  <1>5. CASE exit = 0
    <2>1. firing = {}
      BY <1>5, SixGates DEF IInv, Asked
    <2> QED
      BY <1>4, <1>5, <2>1 DEF ExitWith
  <1>6. CASE exit \in {1, 2}
    <2>1. gate \in firing /\ exit = Code(Gates[gate]) /\ \A k \in firing : gate <= k
      BY <1>6, SixGates DEF IInv, Asked
    <2>2. Min(firing) = gate
      BY <2>1, SixGates DEF Min
    <2> QED
      BY <1>4, <2>1, <2>2 DEF ExitWith
  <1> QED
    BY <1>5, <1>6 DEF IInv, Asked

(* What a warning says can be removed can be, whatever else is accepted    *)
(* and in whatever order.                                                  *)
THEOREM WarningsAreSafe == Spec => []WarnedCanGo
  <1>1. Init => Applied
    BY DEF Init, Applied
  <1>2. IInv /\ Applied => WarnedCanGo
    <2> SUFFICES ASSUME IInv, Applied, exit # -1, NEW k \in warned
                 PROVE  /\ AcceptedBy(RemoveAt(exceptions, k), report.status) = report.accepted
                        /\ ExitWith(report.status, report.errors,
                             AcceptedBy(RemoveAt(exceptions, k), report.status)) = exit
      BY DEF WarnedCanGo, Ended
    <2> DEFINE rest == RemoveAt(exceptions, k)
    <2>1. next # 0 /\ next - 1 = Len(exceptions) /\ DOMAIN exceptions = 1 .. Len(exceptions)
      BY DEF IInv, Asked
    <2>2. report.accepted = AcceptedBy(exceptions, report.status)
      BY <2>1 DEF Applied, AcceptedBy
    <2>3. k \in DOMAIN exceptions /\ Matches(exceptions[k], report.status) = {}
      BY DEF Applied
    <2>4. /\ \A j \in DOMAIN rest : \E i \in DOMAIN exceptions : rest[j] = exceptions[i]
          /\ \A i \in DOMAIN exceptions : i # k => \E j \in DOMAIN rest : rest[j] = exceptions[i]
      BY <2>3, RemoveAtElements DEF IInv
    <2> HIDE DEF rest
    <2>5. AcceptedBy(rest, report.status) = AcceptedBy(exceptions, report.status)
      <3>1. \A x : x \in AcceptedBy(rest, report.status)
                     => x \in AcceptedBy(exceptions, report.status)
        BY <2>4 DEF AcceptedBy
      <3>2. \A x : x \in AcceptedBy(exceptions, report.status)
                     => x \in AcceptedBy(rest, report.status)
        BY <2>3, <2>4 DEF AcceptedBy
      <3> QED
        BY <3>1, <3>2
    <2> QED
      BY <2>2, <2>5, ExitIsFirst DEF rest
  <1> QED
    BY <1>1, <1>2, AppliedNext, Invariance, PTL DEF Spec

-----------------------------------------------------------------------------
(* The findings of some jobs are finitely many, each of a control whose    *)
(* severity has a weight.                                                  *)
LEMMA FiniteCells ==
  IsFiniteSet(Cells(Job)) /\ \A x \in Cells(Job) : Severity[x[1]] \in {"low", "medium", "high"}
  <1>1. IsFiniteSet(Control \X Job) /\ IsFiniteSet(Control \X {"controller"})
    BY VerdictAssumption, FS_Product, FS_Singleton
  <1>2. IsFiniteSet((Control \X Job) \cup (Control \X {"controller"}))
    BY <1>1, FS_Union
  <1>3. Cells(Job) \subseteq (Control \X Job) \cup (Control \X {"controller"})
    BY VerdictAssumption DEF Cells
  <1>4. IsFiniteSet(Cells(Job))
    BY <1>2, <1>3, FS_Subset
  <1>5. \A x \in Cells(Job) : x[1] \in Control
    BY VerdictAssumption DEF Cells
  <1> QED
    BY <1>4, <1>5, VerdictAssumption

(* One more finding adds its own weight.                                   *)
LEMMA WeightAdds ==
  ASSUME NEW cells \in SUBSET Cells(Job), NEW x \in Cells(Job) \ cells
  PROVE  /\ WeightOf(cells) \in Nat
         /\ Weight(Severity[x[1]]) \in 1 .. 3
         /\ WeightOf(cells \cup {x}) = WeightOf(cells) + Weight(Severity[x[1]])
  <1> DEFINE Of(S, s) == {y \in S : Severity[y[1]] = s}
             N(S, s) == Cardinality(Of(S, s))
             added == cells \cup {x}
             sev == Severity[x[1]]
  <1>1. IsFiniteSet(cells) /\ sev \in {"low", "medium", "high"}
    BY FiniteCells, FS_Subset
  <1>2. \A s : IsFiniteSet(Of(cells, s))
    BY <1>1, FS_Subset
  <1>3. \A s : N(cells, s) \in Nat
    BY <1>2, FS_CardinalityType
  <1>4. \A s : s # sev => Of(added, s) = Of(cells, s)
    OBVIOUS
  <1>5. Of(added, sev) = Of(cells, sev) \cup {x} /\ x \notin Of(cells, sev)
    OBVIOUS
  <1>6. WeightOf(cells) = 3 * N(cells, "high") + 2 * N(cells, "medium") + 1 * N(cells, "low")
    BY DEF WeightOf, Weight
  <1>7. WeightOf(added) = 3 * N(added, "high") + 2 * N(added, "medium") + 1 * N(added, "low")
    BY DEF WeightOf, Weight
  <1> HIDE DEF Of
  <1>8. \A s : s # sev => N(added, s) = N(cells, s)
    BY <1>4
  <1>9. N(added, sev) = N(cells, sev) + 1
    BY <1>2, <1>5, FS_AddElement
  <1> HIDE DEF N, sev, added
  <1>10. N(cells, "high") \in Nat /\ N(cells, "medium") \in Nat /\ N(cells, "low") \in Nat
    BY <1>3
  <1>11. Weight(sev) = IF sev = "high" THEN 3 ELSE IF sev = "medium" THEN 2 ELSE 1
    BY <1>1 DEF Weight
  <1>12. CASE sev = "high"
    <2>1. N(added, "medium") = N(cells, "medium") /\ N(added, "low") = N(cells, "low")
      BY <1>8, <1>12
    <2> QED
      BY <1>6, <1>7, <1>9, <1>10, <1>11, <1>12, <2>1 DEF sev, added
  <1>13. CASE sev = "medium"
    <2>1. N(added, "high") = N(cells, "high") /\ N(added, "low") = N(cells, "low")
      BY <1>8, <1>13
    <2> QED
      BY <1>6, <1>7, <1>9, <1>10, <1>11, <1>13, <2>1 DEF sev, added
  <1>14. CASE sev = "low"
    <2>1. N(added, "high") = N(cells, "high") /\ N(added, "medium") = N(cells, "medium")
      BY <1>8, <1>14
    <2> QED
      BY <1>6, <1>7, <1>9, <1>10, <1>11, <1>14, <2>1 DEF sev, added
  <1> QED
    BY <1>1, <1>12, <1>13, <1>14

(* A whole number is the most that goes into a share, rounded down.        *)
LEMMA Floored ==
  ASSUME NEW a \in Nat, NEW b \in Nat \ {0}
  PROVE  /\ a \div b \in Nat /\ (a \div b) * b <= a
         /\ \A q \in Nat : q * b <= a => q <= a \div b
  <1>1. a \div b \in Nat /\ (a \div b) * b <= a /\ a < (a \div b) * b + b
    OBVIOUS
  <1>2. ASSUME NEW q \in Nat, q * b <= a, q > a \div b PROVE FALSE
    <2>1. q >= (a \div b) + 1
      BY <1>1, <1>2
    <2>2. PICK p \in Nat : p = a \div b
      BY <1>1
    <2>3. q * b >= (p + 1) * b
      BY <2>1, <2>2
    <2>4. (p + 1) * b = p * b + b
      BY <2>2
    <2> QED
      BY <1>1, <1>2, <2>2, <2>3, <2>4
  <1> QED
    BY <1>1, <1>2

(* A share in hundredths, rounded down, does not shrink when the part      *)
(* grows by w and the whole by no more.                                    *)
LEMMA LargerShare ==
  ASSUME NEW e \in Nat, NEW t \in Nat \ {0}, NEW w \in Nat, NEW u \in 0 .. w, e <= t
  PROVE  (e * 100) \div t <= ((e + w) * 100) \div (t + u)
  <1> DEFINE p == (e * 100) \div t
  <1>1. p \in Nat /\ p * t <= e * 100
    BY Floored
  <1> HIDE DEF p
  <1>2. p <= 100
    <2>1. p * t <= 100 * t
      BY <1>1
    <2> QED
      BY <1>1, <2>1
  <1>3. p * u <= 100 * u /\ 100 * u <= 100 * w
    BY <1>1, <1>2
  <1>4. p * (t + u) = p * t + p * u
    BY <1>1
  <1>5. p * (t + u) <= (e + w) * 100
    BY <1>1, <1>3, <1>4
  <1>6. p <= ((e + w) * 100) \div (t + u)
    BY <1>1, <1>5, Floored
  <1> QED
    BY <1>6 DEF p


(* A finding that is repaired moves to those that pass.                    *)
LEMMA Repaired ==
  ASSUME NEW C, NEW status \in [C -> Statuses],
         NEW x \in With("FAIL", status) \cup With("MANUAL", status),
         NEW fixed, fixed = [status EXCEPT ![x] = "PASS"]
  PROVE  /\ DOMAIN fixed = DOMAIN status /\ x \notin With("PASS", status)
         /\ With("PASS", fixed) = With("PASS", status) \cup {x}
         /\ With("FAIL", fixed) = With("FAIL", status) \ {x}
         /\ With("MANUAL", fixed) = With("MANUAL", status) \ {x}
  BY DEF With

(* Its weight is added to what is earned, and to the whole unless it was   *)
(* counted there.                                                          *)
LEMMA ScoreGrows ==
  ASSUME NEW C \in SUBSET Cells(Job), NEW status \in [C -> Statuses],
         NEW x \in With("FAIL", status) \cup With("MANUAL", status)
  PROVE  Compute([status EXCEPT ![x] = "PASS"]) >= Compute(status)
  <1> DEFINE fixed == [status EXCEPT ![x] = "PASS"]
             e == WeightOf(With("PASS", status))
             f == WeightOf(With("FAIL", status))
             w == Weight(Severity[x[1]])
             g == WeightOf(With("FAIL", fixed))
  <1>1. /\ x \notin With("PASS", status)
        /\ With("PASS", fixed) = With("PASS", status) \cup {x}
        /\ With("FAIL", fixed) = With("FAIL", status) \ {x}
    BY Repaired
  <1>2. /\ x \in Cells(Job)
        /\ \A s : With(s, status) \in SUBSET Cells(Job) /\ With(s, status) \ {x} \in SUBSET Cells(Job)
    BY DEF With
  <1>3. e \in Nat /\ w \in 1 .. 3 /\ WeightOf(With("PASS", fixed)) = e + w
    BY <1>1, <1>2, WeightAdds
  <1>4. g \in Nat /\ f = g + (IF x \in With("FAIL", status) THEN w ELSE 0)
    <2>1. g \in Nat /\ WeightOf((With("FAIL", status) \ {x}) \cup {x}) = g + w
      BY <1>1, <1>2, WeightAdds
    <2>2. CASE x \in With("FAIL", status)
      <3>1. (With("FAIL", status) \ {x}) \cup {x} = With("FAIL", status)
        BY <2>2
      <3> QED
        BY <2>1, <2>2, <3>1
    <2>3. CASE x \notin With("FAIL", status)
      <3>1. With("FAIL", fixed) = With("FAIL", status)
        BY <1>1, <2>3
      <3>2. f = g
        BY <3>1
      <3> HIDE DEF f, g, fixed
      <3> QED
        BY <2>1, <2>3, <3>2
    <2> QED
      BY <2>2, <2>3
  <1> DEFINE u == IF x \in With("FAIL", status) THEN 0 ELSE w
  <1>5. u \in 0 .. w /\ (e + w) + g = (e + f) + u /\ f \in Nat
    BY <1>3, <1>4
  <1>6. Compute(status) = IF e + f = 0 THEN 0 ELSE (e * 100) \div (e + f)
    BY DEF Compute
  <1>7. Compute(fixed) = IF (e + w) + g = 0 THEN 0 ELSE ((e + w) * 100) \div ((e + w) + g)
    BY <1>3 DEF Compute
  <1> HIDE DEF e, f, g, w, u, fixed
  <1>8. (e + w) + g # 0 /\ Compute(fixed) = ((e + w) * 100) \div ((e + f) + u)
    BY <1>3, <1>4, <1>5, <1>7
  <1>9. CASE e + f = 0
    <2>1. (e + f) + u \in Nat \ {0} /\ (e + w) * 100 \in Nat
      BY <1>3, <1>4, <1>5, <1>8
    <2>2. Compute(fixed) \in Nat
      BY <1>8, <2>1, Floored
    <2> QED
      BY <1>6, <1>9, <2>2 DEF fixed
  <1>10. CASE e + f # 0
    <2>1. e + f \in Nat \ {0} /\ e <= e + f /\ w \in Nat
      BY <1>3, <1>5, <1>10
    <2>2. (e * 100) \div (e + f) <= ((e + w) * 100) \div ((e + f) + u)
      BY <1>3, <1>5, <2>1, LargerShare
    <2>3. (e * 100) \div (e + f) \in Nat /\ ((e + w) * 100) \div ((e + f) + u) \in Nat
      BY <1>3, <1>5, <2>1, Floored
    <2> QED
      BY <1>6, <1>8, <1>10, <2>2, <2>3 DEF fixed
  <1> QED
    BY <1>9, <1>10

LEMMA ScoreIsInt ==
  ASSUME NEW status, DOMAIN status \in SUBSET Cells(Job)
  PROVE  Compute(status) \in Int
  <1> DEFINE Of(s, severity) == {x \in With(s, status) : Severity[x[1]] = severity}
  <1>1. \A s, severity : IsFiniteSet(Of(s, severity))
    <2>1. \A s, severity : Of(s, severity) \subseteq Cells(Job)
      BY DEF With
    <2> QED
      BY <2>1, FiniteCells, FS_Subset
  <1>2. \A s, severity : Cardinality(Of(s, severity)) \in Nat
    BY <1>1, FS_CardinalityType
  <1>3. \A s : WeightOf(With(s, status))
                 = 3 * Cardinality(Of(s, "high")) + 2 * Cardinality(Of(s, "medium"))
                     + 1 * Cardinality(Of(s, "low"))
    BY DEF WeightOf, Weight
  <1> HIDE DEF Of
  <1>4. \A s : WeightOf(With(s, status)) \in Nat
    BY <1>2, <1>3
  <1> DEFINE earned == WeightOf(With("PASS", status))
             total == earned + WeightOf(With("FAIL", status))
  <1>5. earned * 100 \in Nat /\ total \in Nat
    BY <1>4
  <1>6. Compute(status) = IF total = 0 THEN 0 ELSE (earned * 100) \div total
    BY DEF Compute
  <1> HIDE DEF earned, total
  <1> QED
    BY <1>5, <1>6, Floored

(* What has been decided since is no longer unread, and counts among what  *)
(* can be decided.                                                         *)
LEMMA FewerManual ==
  ASSUME NEW m \in 0 .. 100, NEW d \in Nat, NEW u \in Nat, NEW d1 \in Nat, NEW u1 \in Nat,
         u1 <= u, d <= d1, d + u <= d1 + u1, u1 * 100 > m * (d1 + u1)
  PROVE  d + u > 0 /\ u * 100 > m * (d + u)
  <1>1. m * (d + u) <= m * (d1 + u1)
    OBVIOUS
  <1>2. m * (d1 + u1) >= 0 /\ m * (d + u) \in Int /\ m * (d1 + u1) \in Int
    OBVIOUS
  <1> QED
    BY <1>1, <1>2


(* A gate that fires when one finding more is repaired fires without.      *)
LEMMA FixingDisarms ==
  ASSUME IInv, Applied, TypeOK, exit # -1,
         NEW x \in With("FAIL", report.status) \cup With("MANUAL", report.status),
         NEW fixed, fixed = [report.status EXCEPT ![x] = "PASS"],
         NEW r, r = [status |-> fixed, errors |-> report.errors \ {x},
                     accepted |-> AcceptedBy(exceptions, fixed), score |-> Compute(fixed)],
         NEW g \in {"errors", "incomplete", "noJobs", "maxManual", "failUnder", "failOn"},
         Fires(g, r)
  PROVE  Fires(g, report)
  <1>1. PICK jobs \in SUBSET Job : report.status \in [Cells(jobs) -> Statuses]
    BY DEF TypeOK, StatusesOf
  <1>2. Cells(jobs) \in SUBSET Cells(Job)
    BY DEF Cells
  <1>3. /\ DOMAIN fixed = DOMAIN report.status /\ x \notin With("PASS", report.status)
        /\ With("PASS", fixed) = With("PASS", report.status) \cup {x}
        /\ With("FAIL", fixed) = With("FAIL", report.status) \ {x}
        /\ With("MANUAL", fixed) = With("MANUAL", report.status) \ {x}
    BY <1>1, Repaired
  <1>4. r.accepted = report.accepted \ {x}
    <2>1. next # 0 /\ next - 1 = Len(exceptions) /\ DOMAIN exceptions = 1 .. Len(exceptions)
      BY DEF IInv, Asked
    <2>2. report.accepted = UNION {Matches(exceptions[k], report.status) : k \in DOMAIN exceptions}
      BY <2>1 DEF Applied
    <2>3. \A e : Matches(e, fixed) = Matches(e, report.status) \ {x}
      BY <1>3 DEF Matches
    <2> QED
      BY <2>2, <2>3 DEF AcceptedBy
  <1>5. CASE g \in {"errors", "incomplete", "noJobs"}
    BY <1>3, <1>5 DEF Fires, NoJobsAudited
  <1>6. CASE g = "failUnder"
    <2>1. report.score = Compute(report.status) /\ r.score >= report.score
      <3>1. report.score = Compute(report.status)
        BY DEF IInv, Findings, Asked
      <3> QED
        BY <1>1, <1>2, <3>1, ScoreGrows
    <2>2. options.failUnder > 0 /\ r.score < options.failUnder
      BY <1>6 DEF Fires
    <2>3. options.failUnder \in 0 .. 100
      BY VerdictAssumption DEF IInv, Findings
    <2>4. r.score \in Int /\ report.score \in Int
      BY <1>1, <1>2, <2>1, ScoreIsInt
    <2> QED
      BY <1>6, <2>1, <2>2, <2>3, <2>4 DEF Fires
  <1>7. CASE g = "failOn"
    BY <1>3, <1>4, <1>7 DEF Fires, HasFailureAtOrAbove
  <1>8. CASE g = "maxManual"
    <2> DEFINE u == Cardinality(Unread(report))
               u1 == Cardinality(Unread(r))
               d == Cardinality(Decided(report))
               d1 == Cardinality(Decided(r))
               m == options.maxManual
    <2>1. m >= 0 /\ u1 * 100 > m * (d1 + u1)
      BY <1>8 DEF Fires, TooManyManual
    <2>2. m \in 0 .. 100
      BY <2>1, VerdictAssumption DEF IInv, Findings
    <2>3. Unread(r) = Unread(report) \ {x} /\ Decided(r) = Decided(report) \cup {x}
      BY <1>3, <1>4 DEF Unread, Decided
    <2>4. IsFiniteSet(Unread(report)) /\ IsFiniteSet(Decided(report))
      <3>1. Unread(report) \subseteq Cells(Job) /\ Decided(report) \subseteq Cells(Job)
        BY <1>1, <1>2 DEF Unread, Decided, With
      <3> QED
        BY <3>1, FiniteCells, FS_Subset
    <2>5. x \notin Decided(report) \/ x \notin Unread(report)
      BY DEF Unread, Decided, With
    <2>6. u1 = (IF x \in Unread(report) THEN u - 1 ELSE u) /\ u \in Nat /\ u1 \in Nat
      <3>1. u \in Nat
        BY <2>4, FS_CardinalityType
      <3>2. CASE x \in Unread(report)
        <4>1. /\ IsFiniteSet(Unread(report) \ {x})
              /\ Cardinality(Unread(report) \ {x}) = Cardinality(Unread(report)) - 1
          BY <2>4, <3>2, FS_RemoveElement
        <4>2. u1 = u - 1 /\ IsFiniteSet(Unread(r))
          BY <2>3, <4>1
        <4>3. u1 \in Nat
          BY <4>2, FS_CardinalityType
        <4> QED
          BY <3>1, <3>2, <4>2, <4>3
      <3>3. CASE x \notin Unread(report)
        <4>1. Unread(r) = Unread(report)
          BY <2>3, <3>3
        <4> QED
          BY <3>1, <3>3, <4>1
      <3> QED
        BY <3>2, <3>3
    <2>7. d1 = (IF x \in Decided(report) THEN d ELSE d + 1) /\ d \in Nat /\ d1 \in Nat
      BY <2>3, <2>4, FS_AddElement, FS_CardinalityType
    <2>8. x \in Unread(report) => x \notin Decided(report)
      BY <2>5
    <2> HIDE DEF u, u1, d, d1, m
    <2>9. d + u > 0 /\ u * 100 > m * (d + u)
      <3>1. u1 <= u /\ d <= d1 /\ d + u <= d1 + u1
        BY <2>6, <2>7, <2>8
      <3> QED
        BY <2>1, <2>2, <2>6, <2>7, <3>1, FewerManual
    <2> QED
      BY <1>8, <2>1, <2>9 DEF Fires, TooManyManual, u, d, m
  <1> QED
    BY <1>5, <1>6, <1>7, <1>8

(* A repair never makes the exit code worse, nor the score: the coverage,  *)
(* the thresholds and what is accepted all move the right way.             *)
THEOREM FixingIsSafe == Spec => []FixingNeverHurts
  <1>1. Init => Applied
    BY DEF Init, Applied
  <1>2. IInv /\ Applied /\ TypeOK => FixingNeverHurts
    <2> SUFFICES ASSUME IInv, Applied, TypeOK, exit # -1,
                        NEW x \in With("FAIL", report.status) \cup With("MANUAL", report.status),
                        NEW fixed, fixed = [report.status EXCEPT ![x] = "PASS"]
                 PROVE  /\ ExitWith(fixed, report.errors \ {x}, AcceptedBy(exceptions, fixed)) <= exit
                        /\ Compute(fixed) >= report.score
      BY DEF FixingNeverHurts, Ended
    <2> DEFINE r == [status |-> fixed, errors |-> report.errors \ {x},
                     accepted |-> AcceptedBy(exceptions, fixed), score |-> Compute(fixed)]
               firing == {k \in DOMAIN Gates : Fires(Gates[k], r)}
               code == ExitWith(fixed, report.errors \ {x}, AcceptedBy(exceptions, fixed))
    <2>1. Compute(fixed) >= report.score
      <3>1. PICK jobs \in SUBSET Job : report.status \in [Cells(jobs) -> Statuses]
        BY DEF TypeOK, StatusesOf
      <3>2. Cells(jobs) \in SUBSET Cells(Job) /\ report.score = Compute(report.status)
        BY DEF Cells, IInv, Findings, Asked
      <3> QED
        BY <3>1, <3>2, ScoreGrows
    <2>2. \A k \in DOMAIN Gates :
            Gates[k] \in {"errors", "incomplete", "noJobs", "maxManual", "failUnder", "failOn"}
      BY DEF Gates
    <2>3. \A k \in firing : Fires(Gates[k], report)
      BY <2>2, FixingDisarms
    <2>4. code = IF firing = {} THEN 0 ELSE Code(Gates[Min(firing)])
      BY DEF ExitWith
    <2> HIDE DEF firing, code
    <2>5. CASE firing = {}
      <3>1. exit \in {0, 1, 2}
        BY DEF IInv, Asked
      <3> QED
        BY <2>1, <2>4, <2>5, <3>1 DEF code
    <2>6. CASE firing # {}
      <3>1. PICK k \in firing : k = Min(firing)
        <4>1. \E k \in firing : \A j \in firing : k <= j
          BY <2>6, SixGates DEF firing
        <4>2. Min(firing) \in firing
          BY <4>1 DEF Min
        <4> QED
          BY <4>2
      <3>2. k \in 1 .. 6 /\ Fires(Gates[k], report)
        BY <2>3, SixGates DEF firing
      <3>3. gate \in 1 .. 6 /\ gate <= k /\ exit = Code(Gates[gate])
        BY <3>2, SixGates DEF IInv, Asked
      <3>4. \A i, j \in 1 .. 6 : i <= j => Code(Gates[j]) <= Code(Gates[i])
        <4>1. \A i \in 1 .. 6 : Code(Gates[i]) = IF i <= 3 THEN 2 ELSE 1
          BY DEF Code, Gates
        <4> QED
          BY <4>1
      <3>5. code <= exit
        BY <2>4, <2>6, <3>1, <3>2, <3>3, <3>4
      <3> QED
        BY <2>1, <3>5 DEF code
    <2> QED
      BY <2>5, <2>6
  <1> QED
    BY <1>1, <1>2, AppliedNext, TypeCorrect, Invariance, PTL DEF Spec

=============================================================================
