------------------------------- MODULE Access -------------------------------
(***************************************************************************)
(* What a token's access does to the verdicts: the same controller and one *)
(* job of it scanned again and again, each time by an account that may     *)
(* read more.  A scan is fetchController (the order and the failures of    *)
(* its requests are Fetch's), fetchJob, and the policies on what they      *)
(* recorded.  The controller itself does not change.                       *)
(***************************************************************************)
EXTENDS JobConfig, Controls

CONSTANT Worlds   \* a controller and a job's document, as they are

Parts == {"root", "probe", "agents", "plugins", "updateSite", "config"}

(* A project has no definition of its own, its triggers and a pipeline's   *)
(* are all where the fetcher looks, and what a definition holds is not     *)
(* among the other elements with a script; a flag is on, off or absent.    *)
ASSUME AccessAssumption ==
  /\ UpdateSiteMaxAgeDays \in Nat
  /\ \A w \in Worlds :
       /\ w.job.root = "project" => w.job.built = "form"
       /\ w.job.root \in {"project", "flow"} => w.job.elsewhere = {}
       /\ \A s \in w.job.scripts :
            s.holder # "definition" /\ s.flag \in {"absent", "true", "false"}

VARIABLES
  world,      \* what is there: [controller, job]
  granted,    \* the parts this account is shown
  phase,      \* "connected", "controller", "jobs" or "judged"
  controller, \* Snapshot.Controller
  job,        \* the job's ci.Job
  verdicts    \* the last scan's; "none" before the first

accessVars == <<world, granted, phase, controller, job, verdicts>>

NothingRead ==
  [available |-> {}, enabled |-> Unread(FALSE), csrfProtection |-> Unread(FALSE),
   anonymousRead |-> Unread(FALSE), plugins |-> {}, dataAge |-> Unread(0),
   node |-> [numExecutors |-> Unread(0), mode |-> Unread(""), labels |-> Unread({})]]

AccessInit ==
  /\ world \in Worlds
  /\ granted = {}
  /\ phase = "connected"
  /\ controller = NothingRead
  /\ job = Listed(world.job)
  /\ verdicts = [c \in JobControls \cup ControllerControls |-> "none"]

-----------------------------------------------------------------------------

(* A field of the instance API: null on a controller that does not export  *)
(* it.                                                                     *)
FromRoot(v, zero) ==
  IF "root" \in granted /\ world.controller.exports THEN Measured(v) ELSE Unread(zero)

(* The node list, if the built-in node is on it, has what the root API did *)
(* not say, and its labels as well.                                        *)
BuiltInNode ==
  LET c == world.controller
      listed == "agents" \in granted /\ c.listed
      n == FromRoot(c.numExecutors, 0)
  IN [numExecutors |-> IF ~n.known /\ listed THEN Measured(c.numExecutors) ELSE n,
      mode |-> FromRoot(c.mode, ""),
      labels |-> IF listed THEN Measured(c.labels) ELSE FromRoot(c.labels, {})]

(* The snapshot's controller, read by this account.                        *)
ReadController ==
  LET c == world.controller IN
  [available |-> granted \cap {"root", "agents", "plugins", "updateSite"},
   enabled |-> FromRoot(c.enabled, FALSE),
   csrfProtection |-> FromRoot(c.csrfProtection, FALSE),
   anonymousRead |-> IF "probe" \in granted THEN Measured(c.anonymousRead) ELSE Unread(FALSE),
   plugins |-> IF "plugins" \in granted THEN c.plugins ELSE {},
   dataAge |-> IF "updateSite" \in granted /\ c.dataAge # {}
                 THEN Measured(CHOOSE age \in c.dataAge : TRUE) ELSE Unread(0),
   node |-> BuiltInNode]

FetchController ==
  /\ phase = "connected"
  /\ controller' = ReadController
  /\ phase' = "controller"
  /\ UNCHANGED <<world, granted, job, verdicts>>

(* How the read of config.xml ends.                                        *)
Answers == IF "config" \in granted THEN {"config"} ELSE {"refused", "malformed", "html"}

ReadJob ==
  /\ phase = "controller"
  /\ \E answer \in Answers : job' = FetchJob(world.job, answer, controller.node)
  /\ phase' = "jobs"
  /\ UNCHANGED <<world, granted, controller, verdicts>>

VerdictsOn(j, c) ==
  [control \in JobControls \cup ControllerControls |->
     IF control \in JobControls THEN JobVerdict(control, j) ELSE ControllerVerdict(control, c)]

Conclude ==
  /\ phase = "jobs"
  /\ verdicts' = VerdictsOn(job, controller)
  /\ phase' = "judged"
  /\ UNCHANGED <<world, granted, controller, job>>

(* The account is given more, and the scan is run again.                   *)
Grant ==
  /\ phase = "judged"
  /\ \E part \in Parts \ granted : granted' = granted \cup {part}
  /\ phase' = "connected"
  /\ UNCHANGED <<world, controller, job, verdicts>>

AccessNext == FetchController \/ ReadJob \/ Conclude \/ Grant

AccessSpec == AccessInit /\ [][AccessNext]_accessVars

-----------------------------------------------------------------------------
(* What is so *)

Scripts == {s.flag : s \in {e \in Elements(world.job) : e.script}}

(* Some script is not known to be in the sandbox: its flag is off, or it   *)
(* has none.                                                               *)
MayEscape ==
  \/ \E flag \in Scripts : flag # "true"
  \/ world.job.built \in {"inline", "defaults", "foreign"} /\ world.job.flag # "true"

(* What has a script has a flag beside it, as script-security writes it.   *)
Flagged == \A s \in world.job.scripts : s.script => s.flag # "absent"

StartableByAnyone ==
  \/ world.job.token = "set"
  \/ \E t \in world.job.triggers \cup world.job.pipelineTriggers \cup world.job.elsewhere :
       t # "TimerTrigger"

(* Jenkins may give a build of the job to the controller's own executors.  *)
CanRunOnController ==
  LET c == world.controller IN
  \/ world.job.canRoam = "true" /\ c.numExecutors > 0 /\ c.mode # "EXCLUSIVE"
  \/ world.job.canRoam = "false" /\ world.job.assigned \in {""} \cup c.labels
  \/ world.job.canRoam = "false" /\ world.job.assigned = "expression"

-----------------------------------------------------------------------------
(* Properties *)

(* Ignorance never decides: what a scan concludes, an account that is      *)
(* shown more concludes as well; only MANUAL, and a placement that is not  *)
(* known, can turn into something else.  Policies read fields whose Go     *)
(* zero is a legitimate answer (check.rego of cis-2.1.6, cis-2.2.3,        *)
(* cis-2.1.2; fetcher.go 819-863).                                         *)
IgnoranceNeverDecides ==
  [][/\ \A c \in DOMAIN verdicts :
          verdicts[c] \notin {"none", "MANUAL"} => verdicts'[c] = verdicts[c]
     /\ job.onBuiltIn.known => job'.onBuiltIn = job.onBuiltIn]_accessVars

(* A conclusion about a job that can run is so, whatever the document does *)
(* not say: a PASS of cis-2.3.5 and of cis-2.3.1, and "does not run on the *)
(* controller", are never about a job with a start that Jenkins does not   *)
(* authorize, a script kept on the controller, or a label of its own node; *)
(* and a PASS or NA of cis-2.1.2 never about one with a script that may    *)
(* leave the sandbox, where every script has a flag: what has none is not  *)
(* looked at (PassReadsEveryFlag).                                         *)
ConclusionsAreSo ==
  phase = "judged" =>
    /\ job.onBuiltIn.known /\ ~job.onBuiltIn.value => ~CanRunOnController
    /\ ~world.job.disabled =>
         /\ Flagged /\ verdicts["2.1.2"] \in {"PASS", "NA"} => ~MayEscape
         /\ verdicts["2.1.2"] = "FAIL" => MayEscape
         /\ verdicts["2.3.5"] = "PASS" => ~StartableByAnyone
         /\ verdicts["2.3.5"] = "FAIL" => StartableByAnyone
         /\ verdicts["2.3.1"] = "PASS" => world.job.built \in {"jenkinsfile", "branch"}
         /\ verdicts["2.3.1"] = "FAIL" => world.job.built \notin {"jenkinsfile", "branch"}

(* What check.rego of cis-2.1.2 says of itself: PASS needs every script's  *)
(* flag read.  findScripts leaves out a script that has no flag.           *)
PassReadsEveryFlag ==
  phase = "judged" /\ ~world.job.disabled /\ verdicts["2.1.2"] = "PASS" => ~MayEscape
=============================================================================
