\* Three controls, two jobs, two exceptions.
SPECIFICATION Spec
CONSTANTS
  plugins = plugins
  script = script
  review = review
  j1 = j1
  j2 = j2
  Control = {plugins, script, review}
  Job = {j1, j2}
  JobScoped = {script}
  Automated = {plugins, script}
  Severity <- MCSeverity
  Exception <- MCException
  MaxExceptions = 2
  Options <- MCOptions
INVARIANTS
  WarnedCanGo AcceptingNeverHurts FixingNeverHurts
  VerdictMeansLooked FailureIsNamed
\* The scan exits.
CHECK_DEADLOCK FALSE
