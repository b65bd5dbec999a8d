------------------------------ MODULE AccessMC ------------------------------
(* Many jobs on one controller, and a job or two on many controllers.      *)
EXTENDS Access

Script(flag, script) == [holder |-> "builder", flag |-> flag, script |-> script]

Job(root, disabled, built, flag, scripts) ==
  [root |-> root, disabled |-> disabled, built |-> built, flag |-> flag, scripts |-> scripts,
   token |-> "absent", triggers |-> {}, pipelineTriggers |-> {}, elsewhere |-> {},
   canRoam |-> "absent", assigned |-> ""]

Building ==
  {Job(root, disabled, built, flag, scripts) :
     root \in {"flow", "multibranch", "other"}, disabled \in BOOLEAN,
     built \in {"jenkinsfile", "branch", "inline", "defaults", "foreign"},
     flag \in {"absent", "true", "false"},
     scripts \in {{}, {Script("true", TRUE)}, {Script("false", FALSE), Script("true", TRUE)},
                  {Script("false", TRUE), Script("absent", TRUE)},
                  {Script("true", TRUE), Script("absent", TRUE)}}}
  \cup {Job("project", disabled, "form", "absent", scripts) :
     disabled \in BOOLEAN, scripts \in SUBSET {Script("true", TRUE), Script("false", TRUE)}}

Classes == {"TimerTrigger", "GenericTrigger", "Untaught"}

Started ==
  {[Job("project", FALSE, "form", "absent", {}) EXCEPT !.token = token, !.triggers = triggers] :
     token \in {"absent", "blank", "set"}, triggers \in SUBSET Classes}
  \cup {[Job("flow", FALSE, "jenkinsfile", "absent", {})
         EXCEPT !.token = token, !.pipelineTriggers = triggers] :
     token \in {"absent", "set"}, triggers \in SUBSET Classes}
  \cup {[Job(root, FALSE, "jenkinsfile", "absent", {})
         EXCEPT !.triggers = {"TimerTrigger"}, !.elsewhere = triggers] :
     root \in {"multibranch", "other"}, triggers \in SUBSET Classes}

Placed ==
  {[Job("project", FALSE, "form", "absent", {}) EXCEPT !.canRoam = canRoam, !.assigned = assigned] :
     canRoam \in {"absent", "true", "false"}, assigned \in {"", "master", "crow", "linux", "expression"}}

Controller(exports, numExecutors, mode, labels) ==
  [exports |-> exports, listed |-> TRUE, enabled |-> TRUE, csrfProtection |-> TRUE, anonymousRead |-> FALSE,
   plugins |-> {}, dataAge |-> {0}, numExecutors |-> numExecutors, mode |-> mode, labels |-> labels]

Nodes ==
  {[Controller(exports, numExecutors, mode, labels) EXCEPT !.listed = listed] :
     exports \in BOOLEAN, listed \in BOOLEAN, numExecutors \in {0, 2}, mode \in {"NORMAL", "EXCLUSIVE"},
     labels \in {{"built-in"}, {"master", "crow"}}}

(* An audit plugin that is not active is no audit plugin.                  *)
Plugins == [audit: BOOLEAN, active: BOOLEAN, hasUpdate: BOOLEAN]

Controllers ==
  {[Controller(exports, 0, "NORMAL", {"built-in"})
    EXCEPT !.enabled = enabled, !.csrfProtection = crumbs, !.anonymousRead = open,
           !.plugins = plugins, !.dataAge = age] :
     exports \in BOOLEAN, enabled \in BOOLEAN, crumbs \in BOOLEAN, open \in BOOLEAN,
     plugins \in {{}} \cup {{p} : p \in Plugins}, age \in {{}, {-2}, {-1}, {30}, {31}}}

Plain == Controller(TRUE, 0, "NORMAL", {"built-in"})

MCWorlds ==
  {[controller |-> Plain, job |-> j] : j \in Building \cup Started}
  \cup {[controller |-> c, job |-> j] : c \in Nodes, j \in Placed}
  \cup {[controller |-> c, job |-> Job("flow", FALSE, "jenkinsfile", "absent", {})] : c \in Controllers}
=============================================================================
