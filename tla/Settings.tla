------------------------------ MODULE Settings ------------------------------
(***************************************************************************)
(* The configuration of a scan: Discover, LoadWithOverrides, applyOverride,*)
(* Validate and Selects of internal/config, and validateSelection and the  *)
(* selection loop of New of internal/engine.                               *)
(*                                                                         *)
(* A document - a file, or one --set - is a function from the keys it      *)
(* mentions to their values; one that cannot be read or parsed mentions a  *)
(* key that is none.  A name is the control somebody meant and how it is   *)
(* spelled: in upper case as the bundle spells it or not, with blanks      *)
(* around it or not.                                                       *)
(***************************************************************************)
EXTENDS Integers, SequencesExt

CONSTANTS
  Control,   \* the controls of the bundle, all of platform jenkins
  Blank,     \* what a name without a word in it names
  Absent     \* in place of a document: there is no such file

Exact(id) == [id |-> id, upper |-> TRUE, padded |-> FALSE]
Trim(name) == [name EXCEPT !.padded = FALSE]
ToUpper(name) == [name EXCEPT !.upper = TRUE]
EqualFold(a, b) == ToUpper(a) = ToUpper(b)
IsBlank(name) == Trim(name).id = Blank

AuditPlugins ==
  {"audit-trail", "audit-log", "logstash", "splunk-devops", "datadog", "opentelemetry"}

(* Words that are compared whatever their case are in lower case; a path   *)
(* is whether there is one, a duration its seconds.                        *)
Default ==
  [include |-> {}, exclude |-> {}, exceptions |-> {},
   auditPluginNames |-> {Exact(p) : p \in AuditPlugins},
   skipDisabledJobs |-> FALSE, updateSiteMaxAgeDays |-> 30,
   failOn |-> "high", failUnder |-> 0, maxManual |-> -1, concurrency |-> 8,
   timeout |-> 30, maxDuration |-> 0, progress |-> "compact", caFile |-> FALSE,
   insecure |-> FALSE, allowPlaintext |-> FALSE, allowIncomplete |-> FALSE]

Keys == DOMAIN Default

-----------------------------------------------------------------------------
(* Where the configuration comes from *)

(* The file given, or the first of the places in the order of Discover.    *)
ConfigFile(given, places) ==
  LET found == SelectSeq(places, LAMBDA doc : doc # Absent)
  IN IF given # Absent THEN given
     ELSE IF found = <<>> THEN Absent ELSE Head(found)

Documents(given, places, sets) ==
  LET file == ConfigFile(given, places)
  IN (IF file = Absent THEN <<>> ELSE <<file>>) \o sets

Overlay(cfg, doc) == [k \in Keys |-> IF k \in DOMAIN doc THEN doc[k] ELSE cfg[k]]

Decodes(doc) == DOMAIN doc \subseteq Keys

Load(docs) ==
  LET loaded[n \in 0 .. Len(docs)] ==
        IF n = 0 THEN Default ELSE Overlay(loaded[n - 1], docs[n])
  IN loaded[Len(docs)]

-----------------------------------------------------------------------------
(* Whether it makes sense *)

(* The last day of an exception, and the one of a text that is no date.    *)
NoDate == -1

ValidException(e) ==
  /\ ~IsBlank(e.control)
  /\ e.resources # {} /\ "malformed" \notin e.resources
  /\ e.reason /\ e.expires # NoDate

ValidScan(c) ==
  /\ c.failOn \in {"high", "medium", "low", "none"}
  /\ c.progress \in {"full", "compact", "off"}
  /\ c.concurrency >= 1
  /\ c.failUnder \in 0 .. 100 /\ c.maxManual \in -1 .. 100
  /\ c.timeout >= 0 /\ c.maxDuration >= 0
  /\ ~(c.caFile /\ c.insecure)

Validate(c) ==
  /\ ValidScan(c)
  /\ c.updateSiteMaxAgeDays >= 0
  /\ \A name \in c.include \cup c.exclude \cup c.auditPluginNames : ~IsBlank(name)
  /\ \A e \in c.exceptions : ValidException(e)

(* Every name, once trimmed and in upper case, is a control's.             *)
ValidSelection(c) ==
  \A name \in c.include \cup c.exclude \cup {e.control : e \in c.exceptions} :
    IsBlank(name) \/ ToUpper(Trim(name)) \in {ToUpper(Exact(id)) : id \in Control}

(* Mutant: the blanks that the startup check forgave are not trimmed here. *)
MutantNames(name, id) == EqualFold(name, Exact(id))

Names(name, id) == EqualFold(Trim(name), Exact(id))

Selects(c, id) ==
  /\ \A name \in c.exclude : ~Names(name, id)
  /\ c.include = {} \/ \E name \in c.include : Names(name, id)

Selected(c) == {id \in Control : Selects(c, id)}

(* The documents with which a scan starts.                                 *)
Starts(docs) ==
  /\ \A k \in DOMAIN docs : Decodes(docs[k])
  /\ LET c == Load(docs) IN Validate(c) /\ ValidSelection(c) /\ Selected(c) # {}

=============================================================================
