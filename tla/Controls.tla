------------------------------ MODULE Controls ------------------------------
(***************************************************************************)
(* What the bundled policies conclude from a snapshot: the controls of     *)
(* internal/checks/policies/jenkins that read something of it.  Each is a  *)
(* chain, the first rule that applies deciding; the details and the        *)
(* evidence are left out.  A disabled job is NA before anything else.      *)
(***************************************************************************)
EXTENDS Integers, FiniteSets

CONSTANT UpdateSiteMaxAgeDays   \* thresholds.updateSiteMaxAgeDays

JobControls == {"2.1.1", "2.1.2", "2.3.1", "2.3.4", "2.3.5"}
ControllerControls == {"2.1.3", "2.1.5", "2.1.6", "2.2.3", "plugin-updates"}

(* cis-2.1.1 and cis-2.3.4 ask what no API answers.                        *)
NeedsAPerson(job) == IF job.disabled THEN "NA" ELSE "MANUAL"

SandboxedScripts(job) ==
  CASE job.disabled -> "NA"
    [] ~job.disabled /\ ~job.config -> "MANUAL"
    [] ~job.disabled /\ job.config ->
         CASE \E s \in job.scripts : s.flag = "false" -> "FAIL"
           [] (\A s \in job.scripts : s.flag # "false") /\ job.definition.source = "inline" ->
                IF ~job.definition.sandbox.known THEN "MANUAL"
                ELSE IF job.definition.sandbox.value THEN "PASS" ELSE "FAIL"
           [] (\A s \in job.scripts : s.flag # "false") /\ job.definition.source = "unknown" ->
                "MANUAL"
           [] OTHER -> IF job.scripts # {} THEN "PASS" ELSE "NA"

InVersionControl(job) ==
  CASE job.disabled -> "NA"
    [] ~job.disabled /\ ~job.config -> "MANUAL"
    [] ~job.disabled /\ job.config ->
         CASE job.definition.source = "scm" -> "PASS"
           [] job.definition.source \in {"inline", "ui"} -> "FAIL"
           [] OTHER -> "MANUAL"

StartsByPermission(job) ==
  CASE job.disabled -> "NA"
    [] ~job.disabled /\ ~job.config -> "MANUAL"
    [] ~job.disabled /\ job.config ->
         IF job.unauthenticated # {} THEN "FAIL"
         ELSE IF ~job.triggersKnown \/ job.unrecognized # {} THEN "MANUAL"
         ELSE "PASS"

JobVerdict(control, job) ==
  CASE control \in {"2.1.1", "2.3.4"} -> NeedsAPerson(job)
    [] control = "2.1.2" -> SandboxedScripts(job)
    [] control = "2.3.1" -> InVersionControl(job)
    [] control = "2.3.5" -> StartsByPermission(job)

-----------------------------------------------------------------------------

Audited(c) ==
  IF "plugins" \notin c.available THEN "MANUAL"
  ELSE IF \E p \in c.plugins : p.audit /\ p.active THEN "PASS" ELSE "FAIL"

CSRFProtected(c) ==
  IF "root" \notin c.available \/ ~c.csrfProtection.known THEN "MANUAL"
  ELSE IF c.csrfProtection.value THEN "PASS" ELSE "FAIL"

(* Mutant: a probe that came to no conclusion counts as a denial.          *)
MutantLoginRequired(c) ==
  IF "root" \notin c.available \/ ~c.enabled.known THEN "MANUAL"
  ELSE IF ~c.enabled.value THEN "FAIL"
  ELSE IF c.anonymousRead.value THEN "FAIL" ELSE "PASS"

LoginRequired(c) ==
  IF "root" \notin c.available \/ ~c.enabled.known THEN "MANUAL"
  ELSE IF ~c.enabled.value THEN "FAIL"
  ELSE IF ~c.anonymousRead.known THEN "MANUAL"
  ELSE IF c.anonymousRead.value THEN "FAIL" ELSE "PASS"

NoExecutors(c) ==
  IF ~c.node.numExecutors.known THEN "MANUAL"
  ELSE IF c.node.numExecutors.value = 0 THEN "PASS" ELSE "FAIL"

(* The age of the update data decides whether hasUpdate means anything:    *)
(* more than a day ahead is as bad as stale.                               *)
AgeTrusted(age) == age >= -1 /\ age <= UpdateSiteMaxAgeDays

PluginsCurrent(c) ==
  IF "plugins" \notin c.available \/ "updateSite" \notin c.available
       \/ ~c.dataAge.known \/ ~AgeTrusted(c.dataAge.value)
    THEN "MANUAL"
  ELSE IF \E p \in c.plugins : p.hasUpdate THEN "FAIL" ELSE "PASS"

ControllerVerdict(control, c) ==
  CASE control = "2.1.3" -> Audited(c)
    [] control = "2.1.5" -> CSRFProtected(c)
    [] control = "2.1.6" -> LoginRequired(c)
    [] control = "2.2.3" -> NoExecutors(c)
    [] control = "plugin-updates" -> PluginsCurrent(c)
=============================================================================
