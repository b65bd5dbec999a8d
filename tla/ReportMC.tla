------------------------------ MODULE ReportMC ------------------------------
(* Three controls: a HIGH one about jobs whose fix is a folder setting, a  *)
(* MEDIUM one about the controller with no benchmark number, and one no    *)
(* API can answer; two jobs, the second with the controller's name.        *)
EXTENDS Report

MCChecks == <<
  [cis |-> 5, severity |-> "HIGH", automated |-> TRUE, scope |-> "job", folder |-> TRUE],
  [cis |-> 0, severity |-> "MEDIUM", automated |-> TRUE, scope |-> "controller", folder |-> FALSE],
  [cis |-> 2, severity |-> "HIGH", automated |-> FALSE, scope |-> "job", folder |-> FALSE]>>

Asks(format, details, showPassed, noRemediations, maxResources, words) ==
  [format |-> format, details |-> details, showPassed |-> showPassed,
   noRemediations |-> noRemediations, maxResources |-> maxResources, words |-> words]

(* What is typed after --details=: a control's ID, the name of job 1, a    *)
(* piece of both names, and something that is nowhere.                     *)
Plugins == [id |-> 2, within |-> {}]
Scripts == [id |-> 1, within |-> {}]
First == [id |-> 0, within |-> {1}]
Both == [id |-> 0, within |-> {1, 2}]
Nowhere == [id |-> 0, within |-> {}]

MCOptions ==
  {Asks(format, FALSE, FALSE, FALSE, 0, {}) : format \in {"sarif", "junit", "json"}}
  \cup {Asks("table", FALSE, showPassed, ~showPassed, 0, {}) : showPassed \in BOOLEAN}
  \cup {Asks("table", FALSE, FALSE, FALSE, 0, {}),
        Asks("table", TRUE, FALSE, FALSE, 1, {}),
        Asks("table", TRUE, TRUE, TRUE, 0, {Both}),
        Asks("table", TRUE, FALSE, FALSE, 1, {Scripts, Plugins}),
        Asks("table", TRUE, FALSE, FALSE, 0, {Plugins, First}),
        Asks("table", TRUE, FALSE, FALSE, 0, {First, Nowhere})}
=============================================================================
