SPECIFICATION Spec
CONSTANTS
  Checks <- MCChecks
  Job = {1, 2}
  InstanceResourceName = 2
  Options <- MCOptions
  MaxResults = 2
  MaxNamed = 1
\* the page is rendered or refused, and the command ends
CHECK_DEADLOCK FALSE
INVARIANTS
  NothingHidden
  CleanIsClean
  CapKeepsWorst
  RemedyMatchesNeed
