\* Three jobs on two workers.
SPECIFICATION Spec
CONSTANTS
  N = 3
  ControllerChecks = 1
  JobChecks = 2
  Inputs <- MCInputs
  Procs = 2
INVARIANTS SomeoneReceives
PROPERTIES ImplementsEvaluation
\* Evaluate returns.
CHECK_DEADLOCK FALSE
