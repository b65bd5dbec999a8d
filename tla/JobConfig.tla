----------------------------- MODULE JobConfig -----------------------------
(***************************************************************************)
(* What a job's config.xml says: fetchJob of internal/ci/jenkins/          *)
(* fetcher.go once the answer is there, applyConfig and placeJob,          *)
(* triggers.go, scripts.go and the shapes of models.go.                    *)
(*                                                                         *)
(* A document is a record of the fields that are read.  A definition class *)
(* and a branch factory are named for what they build from; a trigger      *)
(* class for what the fetcher knows of it; the labels an expression is     *)
(* made of are left out.                                                   *)
(***************************************************************************)
EXTENDS Naturals, FiniteSets

(* A field that has a sibling "...Known": its value, and the flag; an      *)
(* unread field holds Go's zero.                                           *)
Measured(v) == [value |-> v, known |-> TRUE]
Unread(zero) == [value |-> zero, known |-> FALSE]

(* Mutant: a multibranch project's triggers are looked for at its root.    *)
MutantJobDocuments ==
  [project |-> [ui |-> TRUE, project |-> TRUE],
   flow |-> [ui |-> FALSE, project |-> TRUE],
   multibranch |-> [ui |-> FALSE, project |-> TRUE]]

(* The root elements read as job configurations.                           *)
JobDocuments ==
  [project |-> [ui |-> TRUE, project |-> TRUE],
   flow |-> [ui |-> FALSE, project |-> TRUE],
   multibranch |-> [ui |-> FALSE, project |-> FALSE]]

Known(doc) == doc.root \in DOMAIN JobDocuments

-----------------------------------------------------------------------------
(* What it builds *)

(* Absent is not off.                                                      *)
WithSandbox(flag) ==
  IF flag = "absent" THEN Unread(FALSE) ELSE Measured(flag = "true")

Definition(source, sandbox) == [source |-> source, sandbox |-> sandbox]

(* A pipeline's definition and a multibranch project's factory alike.      *)
DefinitionFrom(doc) ==
  CASE doc.root = "project" -> Definition("ui", Unread(FALSE))
    [] doc.root # "project" /\ doc.built \in {"jenkinsfile", "branch"} ->
         Definition("scm", Unread(FALSE))
    [] doc.root # "project" /\ doc.built \in {"inline", "defaults"} ->
         Definition("inline", WithSandbox(doc.flag))
    [] OTHER -> Definition("unknown", Unread(FALSE))

(* The elements with a script: what the job's steps, publishers and        *)
(* parameters hold, and the definition or factory itself.                  *)
Elements(doc) ==
  doc.scripts \cup
  IF doc.built = "inline" THEN {[holder |-> "definition", flag |-> doc.flag, script |-> TRUE]}
                          ELSE {}

FindScripts(doc) ==
  {e \in Elements(doc) : e.flag # "absent" /\ e.script /\ e.holder # "definition"}

-----------------------------------------------------------------------------
(* What starts it *)

AssessTriggers(doc) ==
  LET classes == doc.triggers \cup doc.pipelineTriggers IN
  [unauthenticated |-> (IF doc.token = "set" THEN {"authToken"} ELSE {})
                         \cup (classes \cap {"GenericTrigger"}),
   unrecognized |-> classes \ {"GenericTrigger", "TimerTrigger"}]

-----------------------------------------------------------------------------
(* Where it runs *)

BuiltInNodeLabels(node) == {"built-in", "master"} \cup node.labels.value

IsLabelExpression(assigned) == assigned = "expression"

(* By Jenkins' own rules, and unknown where the data to apply them is      *)
(* missing.                                                                *)
PlaceJob(doc, node) ==
  CASE doc.canRoam = "true" ->
         IF ~node.numExecutors.known THEN Unread(FALSE)
         ELSE IF node.numExecutors.value = 0 THEN Measured(FALSE)
         ELSE IF ~node.mode.known THEN Unread(FALSE)
         ELSE Measured(node.mode.value # "EXCLUSIVE")
    [] doc.canRoam = "false" /\ doc.assigned = "" -> Measured(TRUE)
    [] doc.canRoam = "false" /\ IsLabelExpression(doc.assigned) -> Unread(FALSE)
    [] doc.canRoam = "false" /\ doc.assigned # "" /\ ~IsLabelExpression(doc.assigned) ->
         IF doc.assigned \in BuiltInNodeLabels(node) THEN Measured(TRUE)
         ELSE IF node.labels.known THEN Measured(FALSE) ELSE Unread(FALSE)
    [] OTHER -> Unread(FALSE)

-----------------------------------------------------------------------------
(* The job's record: first what the listing says of it.  A multibranch     *)
(* project does not export whether it is disabled.                         *)
Listed(doc) ==
  [disabled |-> doc.disabled /\ doc.root # "multibranch",
   config |-> FALSE, definition |-> Definition("", Unread(FALSE)), scripts |-> {},
   unauthenticated |-> {}, unrecognized |-> {}, triggersKnown |-> FALSE,
   onBuiltIn |-> Unread(FALSE)]

(* A type nobody taught the fetcher: nothing in it is taken as known.      *)
Untaught(doc) ==
  [Listed(doc) EXCEPT !.config = TRUE, !.disabled = @ \/ doc.disabled,
                      !.definition = Definition("unknown", Unread(FALSE))]

ApplyConfig(doc, node) ==
  [disabled |-> Listed(doc).disabled \/ doc.disabled,
   config |-> TRUE,
   definition |-> DefinitionFrom(doc),
   scripts |-> FindScripts(doc),
   unauthenticated |-> AssessTriggers(doc).unauthenticated,
   unrecognized |-> AssessTriggers(doc).unrecognized,
   triggersKnown |-> JobDocuments[doc.root].project,
   onBuiltIn |-> IF JobDocuments[doc.root].ui THEN PlaceJob(doc, node) ELSE Unread(FALSE)]

(* A refusal, a document that does not parse and a page of a proxy leave   *)
(* the configuration unread.                                               *)
FetchJob(doc, answer, node) ==
  CASE answer \in {"refused", "malformed", "html"} -> Listed(doc)
    [] answer = "config" /\ ~Known(doc) -> Untaught(doc)
    [] OTHER -> ApplyConfig(doc, node)
=============================================================================
