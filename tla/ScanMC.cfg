\* Two invocations, two paths, two jobs, two controls.
SPECIFICATION Spec
CONSTANTS
  s = s
  r = r
  j1 = j1
  j2 = j2
  plugins = plugins
  script = script
  Path = {s, r}
  Content <- MCContent
  Nothing <- NoContent
  Before <- MCBefore
  Control = {plugins, script}
  Blank = Blank
  Absent = Absent
  None = None
  Options <- MCOptions
  Job = {j1, j2}
  Disabled = {j2}
  Wrong = {j1, j2}
  JobScoped = {script}
  LastDay = 1
INVARIANTS SameFromDisk EveryNameHeeded
PROPERTIES ImplementsWholeFile ReportIsTheVerdict
\* The last invocation ends.
CHECK_DEADLOCK FALSE
