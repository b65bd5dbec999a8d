------------------------------ MODULE Verdict ------------------------------
(***************************************************************************)
(* From the findings to the exit code: Compute of internal/engine/score.go,*)
(* applyExceptions of internal/engine/engine.go and exitStatus of          *)
(* internal/cli/scan.go.  The score is computed first, then the exceptions *)
(* mark what they accept, one after the other, then the gates are asked in *)
(* their order and the first that fires decides.                           *)
(*                                                                         *)
(* A cell is a pair <<control, resource>>.  An exception is the control it *)
(* names, the resources its patterns match and whether its date is past.   *)
(***************************************************************************)
EXTENDS Integers, SequencesExt, FiniteSetsExt

CONSTANTS
  Control, Job,     \* the selected controls, the jobs of the snapshot
  JobScoped,        \* the controls about jobs; the others are about the controller
  Automated,        \* the controls that some API can answer
  Severity,         \* of each control
  Exception,        \* the exceptions that a configuration may hold
  MaxExceptions,    \* bound: exceptions in one configuration
  Options           \* the scan sections of the configuration to look at

ASSUME VerdictAssumption ==
  /\ IsFiniteSet(Control) /\ IsFiniteSet(Job)
  /\ JobScoped \subseteq Control /\ Automated \subseteq Control
  /\ Severity \in [Control -> {"low", "medium", "high"}]
  /\ Exception \subseteq
       [control: Control, resources: SUBSET (Job \cup {"controller"}), lapsed: BOOLEAN]
  /\ MaxExceptions \in Nat
  /\ Options \subseteq
       [failOn: {"low", "medium", "high", "none"}, failUnder: 0 .. 100,
        maxManual: -1 .. 100, allowIncomplete: BOOLEAN]

VARIABLES
  complete,    \* whether the job list is, as the snapshot has it
  exceptions,  \* the configuration's, in its order
  options,     \* its scan section
  report,      \* the findings' status, which of them are errors, which accepted; the score
  next,        \* the exception to apply next, 0 before the score is computed
  warned,      \* the exceptions there is a warning about, by index
  gate,        \* the gate to ask next, or the one that fired
  exit         \* the exit code, -1 before it is known

vars == <<complete, exceptions, options, report, next, warned, gate, exit>>

Statuses == {"PASS", "FAIL", "MANUAL", "NA"}
Cells(jobs) == ((Control \ JobScoped) \X {"controller"}) \cup (JobScoped \X jobs)
With(s, status) == {x \in DOMAIN status : status[x] = s}

(* A control that no API can answer is MANUAL everywhere but on a disabled *)
(* job, and so is one whose policy could not be evaluated.                 *)
StatusesOf(jobs) ==
  {status \in [Cells(jobs) -> Statuses] :
     \A x \in Cells(jobs) : x[1] \notin Automated =>
       status[x] = "MANUAL" \/ (x[1] \in JobScoped /\ status[x] = "NA")}

-----------------------------------------------------------------------------
(* The score *)

Weight(severity) ==
  CASE severity = "high" -> 3 [] severity = "medium" -> 2 [] OTHER -> 1

WeightOf(cells) ==
  LET Of(severity) == Cardinality({x \in cells : Severity[x[1]] = severity})
  IN Weight("high") * Of("high") + Weight("medium") * Of("medium") + Weight("low") * Of("low")

Compute(status) ==
  LET earned == WeightOf(With("PASS", status))
      total == earned + WeightOf(With("FAIL", status))
  IN IF total = 0 THEN 0 ELSE (earned * 100) \div total

-----------------------------------------------------------------------------
(* The exceptions *)

(* What an exception accepts.                                              *)
Matches(e, status) ==
  {x \in With("FAIL", status) \cup With("MANUAL", status) :
     ~e.lapsed /\ x[1] = e.control /\ x[2] \in e.resources}

(* Mutant: a finding reviewed by hand is accepted but not counted.         *)
MutantDeservesWarning(e, status) ==
  e.lapsed \/ Matches(e, status) \cap With("FAIL", status) = {}

DeservesWarning(e, status) == e.lapsed \/ Matches(e, status) = {}

-----------------------------------------------------------------------------
(* The gates of exitStatus *)

(* Mutant: an accepted failure is not a finding that was decided.          *)
MutantDecided(r) == With("PASS", r.status) \cup (With("FAIL", r.status) \ r.accepted)

(* Mutant: only findings that need somebody's attention count.             *)
MutantUndecided(r) == With("FAIL", r.status)

Decided(r) == With("PASS", r.status) \cup With("FAIL", r.status)

Unread(r) == {x \in With("MANUAL", r.status) \ r.accepted : x[1] \in Automated}

TooManyManual(r) ==
  LET unread == Cardinality(Unread(r))
      decidable == Cardinality(Decided(r)) + unread
  IN /\ options.maxManual >= 0
     /\ decidable > 0 /\ unread * 100 > options.maxManual * decidable

NoJobsAudited(r) == JobScoped # {} /\ \A x \in DOMAIN r.status : x[1] \notin JobScoped

HasFailureAtOrAbove(r, severity) ==
  \E x \in With("FAIL", r.status) \ r.accepted : Weight(Severity[x[1]]) >= Weight(severity)

(* Mutant: the thresholds are asked before the coverage.                   *)
MutantGates == <<"errors", "maxManual", "failUnder", "failOn", "incomplete", "noJobs">>

Gates == <<"errors", "incomplete", "noJobs", "maxManual", "failUnder", "failOn">>

Fires(g, r) ==
  \/ g = "errors" /\ r.errors # {}
  \/ g = "incomplete" /\ ~complete /\ ~options.allowIncomplete
  \/ g = "noJobs" /\ NoJobsAudited(r)
  \/ g = "maxManual" /\ TooManyManual(r)
  \/ g = "failUnder" /\ options.failUnder > 0 /\ r.score < options.failUnder
  \/ g = "failOn" /\ options.failOn # "none" /\ HasFailureAtOrAbove(r, options.failOn)

(* 2 says that the scan did not look, 1 that it did not like what it saw.  *)
Code(g) == IF g \in {"errors", "incomplete", "noJobs"} THEN 2 ELSE 1

(* Mutant: above the threshold, not at it.                                 *)
MutantSeverityAtOrAbove(severity, threshold) ==
  LET rank == [low |-> 1, medium |-> 2, high |-> 3]
  IN rank[severity] > rank[threshold]

SeverityAtOrAbove(severity, threshold) ==
  LET rank == [low |-> 1, medium |-> 2, high |-> 3]
  IN rank[severity] >= rank[threshold]

(* failureSummary: the controls that the last line counts.                 *)
Summarised(r, threshold) ==
  {c \in Control : SeverityAtOrAbove(Severity[c], threshold)
                     /\ \E x \in With("FAIL", r.status) \ r.accepted : x[1] = c}

-----------------------------------------------------------------------------
Init ==
  /\ complete \in BOOLEAN
  /\ exceptions \in SeqOf(Exception, MaxExceptions)
  /\ options \in Options
  /\ \E jobs \in SUBSET Job : \E status \in StatusesOf(jobs) :
       \E errors \in SUBSET With("MANUAL", status) :
         report = [status |-> status, errors |-> errors, accepted |-> {}, score |-> -1]
  /\ next = 0 /\ warned = {}
  /\ gate = 0 /\ exit = -1

Score ==
  /\ next = 0
  /\ report' = [report EXCEPT !.score = Compute(report.status)]
  /\ next' = 1
  /\ UNCHANGED <<complete, exceptions, options, warned, gate, exit>>

Apply ==
  /\ next \in DOMAIN exceptions
  /\ LET e == exceptions[next] IN
       /\ report' = [report EXCEPT !.accepted = @ \cup Matches(e, report.status)]
       /\ warned' = IF DeservesWarning(e, report.status) THEN warned \cup {next} ELSE warned
  /\ next' = next + 1
  /\ UNCHANGED <<complete, exceptions, options, gate, exit>>

AskFirst ==
  /\ next = Len(exceptions) + 1 /\ gate = 0
  /\ gate' = 1
  /\ UNCHANGED <<complete, exceptions, options, report, next, warned, exit>>

Asking == gate \in DOMAIN Gates /\ exit = -1

Pass ==
  /\ Asking /\ ~Fires(Gates[gate], report)
  /\ gate' = gate + 1
  /\ exit' = IF gate = Len(Gates) THEN 0 ELSE -1
  /\ UNCHANGED <<complete, exceptions, options, report, next, warned>>

Stop ==
  /\ Asking /\ Fires(Gates[gate], report)
  /\ exit' = Code(Gates[gate])
  /\ UNCHANGED <<complete, exceptions, options, report, next, warned, gate>>

Next == Score \/ Apply \/ AskFirst \/ Pass \/ Stop

Spec == Init /\ [][Next]_vars

-----------------------------------------------------------------------------
(* Properties *)

TypeOK ==
  /\ complete \in BOOLEAN
  /\ exceptions \in Seq(Exception) /\ Len(exceptions) <= MaxExceptions
  /\ options \in Options
  /\ \E jobs \in SUBSET Job : report.status \in StatusesOf(jobs)
  /\ report.errors \subseteq With("MANUAL", report.status)
  /\ report.accepted \subseteq DOMAIN report.status
  /\ report.score = IF next = 0 THEN -1 ELSE Compute(report.status)
  /\ next \in 0 .. MaxExceptions + 1
  /\ warned \subseteq DOMAIN exceptions
  /\ gate \in 0 .. Len(Gates) + 1
  /\ exit \in -1 .. 2

Ended == exit # -1

(* What the exceptions of a list accept together, in whatever order.       *)
AcceptedBy(list, status) == UNION {Matches(list[k], status) : k \in DOMAIN list}

(* The exit code of another run with the same options: of other findings,  *)
(* or of the same ones with other exceptions.                              *)
ExitWith(status, errors, accepted) ==
  LET r == [status |-> status, errors |-> errors, accepted |-> accepted,
            score |-> Compute(status)]
      firing == {k \in DOMAIN Gates : Fires(Gates[k], r)}
  IN IF firing = {} THEN 0 ELSE Code(Gates[Min(firing)])

(* An exception that the scan says to remove can be removed: without it,   *)
(* and in whatever order the others stand, the same findings are accepted  *)
(* and the run exits alike.                                                *)
WarnedCanGo ==
  Ended => \A k \in warned :
    LET others == AcceptedBy(RemoveAt(exceptions, k), report.status)
    IN /\ others = report.accepted
       /\ ExitWith(report.status, report.errors, others) = exit

(* Accepting findings never makes a run fail that passes without.          *)
AcceptingNeverHurts ==
  Ended /\ ExitWith(report.status, report.errors, {}) = 0 => exit = 0

(* Repairing a finding, so that its control passes, never makes the exit   *)
(* code worse, with the exceptions as they are, and never the score.       *)
FixingNeverHurts ==
  Ended => \A x \in With("FAIL", report.status) \cup With("MANUAL", report.status) :
    LET fixed == [report.status EXCEPT ![x] = "PASS"]
    IN /\ ExitWith(fixed, report.errors \ {x}, AcceptedBy(exceptions, fixed)) <= exit
       /\ Compute(fixed) >= report.score

(* 0 and 1 are verdicts on something that was looked at: every policy ran, *)
(* the job list was complete or the configuration accepts that it is not,  *)
(* and some job was judged if a control asks about jobs.                   *)
VerdictMeansLooked ==
  exit \in {0, 1} =>
    /\ report.errors = {}
    /\ complete \/ options.allowIncomplete
    /\ JobScoped # {} => \E x \in DOMAIN report.status : x[1] \in JobScoped

(* When the failOn gate ends the run, its message counts some control: the *)
(* gate and the message compare severities each in its own way.            *)
FailureIsNamed ==
  exit = 1 /\ Gates[gate] = "failOn" => Summarised(report, options.failOn) # {}

=============================================================================
