----------------------------- MODULE Evaluation -----------------------------
(***************************************************************************)
(* What Evaluate of internal/engine/engine.go promises, as if one worker   *)
(* had judged one control after the other: a finding for every control and *)
(* every resource it is about, in the order of the jobs and the controls,  *)
(* an error for each that could not be judged, or no report at all.        *)
(*                                                                         *)
(* An item is a pair <<resource, control>>; resource 0 is the controller.  *)
(***************************************************************************)
EXTENDS Naturals, FiniteSets

CONSTANTS
  N,                  \* jobs in the snapshot
  ControllerChecks,   \* selected controls about the controller
  JobChecks,          \* selected controls about jobs
  Inputs              \* the snapshots and configurations to evaluate

VARIABLES
  ctx,      \* "live" or "dead"
  input,    \* the snapshot and the configuration
  returned, \* "pending", then "report" or "failure"
  final     \* the report

vars == <<ctx, input, returned, final>>

ControllerItems == {0} \X (1 .. ControllerChecks)
Items(jobs) == ControllerItems \cup (jobs \X (1 .. JobChecks))

(* disabled: the jobs switched off in Jenkins; opaque: what OPA cannot     *)
(* take as a value, 0 being the configuration, the metadata or the         *)
(* controller; broken: the controls whose policy fails on a resource; skip *)
(* is scan.skipDisabledJobs.                                               *)
AllInputs ==
  [disabled: SUBSET (1 .. N), opaque: SUBSET (0 .. N),
   broken: SUBSET Items(1 .. N), skip: BOOLEAN]

Eligible == {j \in 1 .. N : input.skip => j \notin input.disabled}

(* Lexicographic: the controller, then the jobs in order, each through all *)
(* the controls in order.                                                  *)
Before(x, y) == x[1] < y[1] \/ (x[1] = y[1] /\ x[2] < y[2])

(* The items in that order.                                                *)
Reading(items) ==
  [k \in 1 .. Cardinality(items) |->
     CHOOSE x \in items : Cardinality({y \in items : Before(y, x)}) = k - 1]

Outcome(x, cut) ==
  IF x \in cut THEN "cut" ELSE IF x \in input.broken THEN "broken" ELSE "judged"

Nil == [findings |-> <<>>, errors |-> <<>>, jobs |-> 0, skipped |-> 0]

(* cut holds the items whose evaluation a dead context interrupted.        *)
ReportOf(reading, cut) ==
  [findings |-> [k \in DOMAIN reading |-> <<reading[k], Outcome(reading[k], cut)>>],
   errors |-> Reading({x \in Items(Eligible) : Outcome(x, cut) # "judged"}),
   jobs |-> Cardinality(Eligible),
   skipped |-> N - Cardinality(Eligible)]

(* A job that no control asks about is never encoded.                      *)
Unencodable ==
  0 \in input.opaque \/ (JobChecks > 0 /\ Eligible \cap input.opaque # {})

Init ==
  /\ ctx = "live"
  /\ input \in Inputs
  /\ returned = "pending" /\ final = Nil

Expire ==
  /\ ctx = "live" /\ returned = "pending"
  /\ ctx' = "dead"
  /\ UNCHANGED <<input, returned, final>>

Report ==
  /\ returned = "pending" /\ ~Unencodable
  /\ returned' = "report"
  /\ \E reading \in {Reading(Items(Eligible))},
        cut \in IF ctx = "dead" THEN SUBSET Items(Eligible) ELSE {{}} :
       final' = ReportOf(reading, cut)
  /\ UNCHANGED <<ctx, input>>

Fail ==
  /\ returned = "pending" /\ Unencodable
  /\ returned' = "failure"
  /\ UNCHANGED <<ctx, input, final>>

Next == Expire \/ Report \/ Fail

Spec == Init /\ [][Next]_vars /\ WF_vars(Report \/ Fail)

=============================================================================
