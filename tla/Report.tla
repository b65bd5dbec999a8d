------------------------------- MODULE Report -------------------------------
(***************************************************************************)
(* From the findings to what a reader sees: sortFindings of                *)
(* internal/engine/engine.go, then Write of internal/report: the overview  *)
(* (lines.go), the detailed table (table.go), SARIF, JUnit and JSON.       *)
(*                                                                         *)
(* A control is its place in the order of the IDs, a resource its place in *)
(* the order of the names; a job may have the controller's name.  What is  *)
(* rendered is a set of entries, each standing for some findings, what is  *)
(* only counted, and what is said of the scan as a whole; wording, colour, *)
(* wrapping and the layout of a section are left out.                      *)
(***************************************************************************)
EXTENDS Integers, Sequences, FiniteSets

CONSTANTS
  Checks,       \* the controls: [cis, severity, automated, scope, folder]
  Job,          \* the names a job can have
  InstanceResourceName,
  Options,      \* the flags to look at
  MaxResults,   \* maxSARIFResults
  MaxNamed      \* maxNamedUnread

Control == DOMAIN Checks

ASSUME ReportAssumption ==
  /\ Job \subseteq Nat /\ IsFiniteSet(Job) /\ InstanceResourceName \in Nat
  /\ MaxResults \in Nat /\ MaxNamed \in Nat
  /\ Checks \in Seq([cis: Nat, severity: {"LOW", "MEDIUM", "HIGH"}, automated: BOOLEAN,
                     scope: {"controller", "job"}, folder: BOOLEAN])
  /\ \A o \in Options : o.format = "table" /\ o.details => o.maxResources \in Nat

VARIABLES
  toJudge,    \* controls and resources without a finding yet
  found,      \* the findings as they were merged
  findings,   \* the report's, in its order
  coverage,   \* [complete, unlisted: how many, jobs: how many, errors: how many]
  options,    \* the command line's
  phase,      \* "judging", "evaluated", "rendered" or "refused"
  page        \* what was rendered

vars == <<toJudge, found, findings, coverage, options, phase, page>>

Unset == [format |-> "unset"]

(* A rendering: what is listed, how many units are only counted, what is   *)
(* said of the whole scan; then what only the table has.                   *)
Rendering(entries, leftOut) ==
  [entries |-> entries, leftOut |-> leftOut, caveats |-> {},
   fails |-> {}, manuals |-> {}, sweeps |-> {}]

Blank == Rendering({}, 0)

(* What a control returns: no API answers one that is not automated, save  *)
(* that a disabled job runs nothing, and only a failure or a manual finding*)
(* can be accepted.  The details tell apart the reasons of what is MANUAL  *)
(* by design.                                                              *)
Results(c) ==
  IF Checks[c].automated
    THEN [status: {"FAIL", "MANUAL"}, waived: BOOLEAN, details: {1}]
         \cup [status: {"PASS", "NA"}, waived: {FALSE}, details: {1}]
    ELSE [status: {"MANUAL"}, waived: BOOLEAN, details: {1, 2}]
         \cup [status: IF Checks[c].scope = "job" THEN {"NA"} ELSE {}, waived: {FALSE}, details: {1}]

Finding(c, r, result) ==
  [control |-> c, resource |-> r, status |-> result.status, waived |-> result.waived,
   details |-> result.details]

Init ==
  /\ found = {} /\ findings = <<>>
  /\ \E jobs \in SUBSET Job :
       /\ toJudge = {cell \in Control \X (Job \cup {InstanceResourceName}) :
                       IF Checks[cell[1]].scope = "job" THEN cell[2] \in jobs
                                                        ELSE cell[2] = InstanceResourceName}
       /\ coverage \in [complete: {TRUE}, unlisted: {0}, jobs: {Cardinality(jobs)}, errors: {0, 1}]
            \cup [complete: {FALSE}, unlisted: {0, 2}, jobs: {Cardinality(jobs)}, errors: {0}]
  /\ options = Unset /\ phase = "judging" /\ page = Blank

(* Evaluate, one finding at a time; in which order does not matter here.   *)
Judge ==
  /\ phase = "judging" /\ toJudge # {}
  /\ LET cell == CHOOSE x \in toJudge : TRUE IN
       /\ \E result \in Results(cell[1]) :
            found' = found \cup {Finding(cell[1], cell[2], result)}
       /\ toJudge' = toJudge \ {cell}
  /\ UNCHANGED <<findings, coverage, options, phase, page>>

-----------------------------------------------------------------------------
(* The order of the findings *)

Weight(f) ==
  CASE Checks[f.control].severity = "HIGH" -> 3
    [] Checks[f.control].severity = "MEDIUM" -> 2
    [] OTHER -> 1

StatusRank(f) ==
  CASE f.status = "FAIL" -> 0 [] f.status = "MANUAL" -> 1 [] f.status = "PASS" -> 2 [] OTHER -> 3

(* The first place where two keys differ decides.                          *)
LessKey(a, b) == \E i \in DOMAIN a : a[i] < b[i] /\ \A k \in 1 .. i - 1 : a[k] = b[k]

(* A set in the order of its members' keys, which all differ.              *)
Sorted(S, key) ==
  [i \in 1 .. Cardinality(S) |->
     CHOOSE x \in S : Cardinality({y \in S : LessKey(key[y], key[x])}) = i - 1]

(* A control without a benchmark number compares as the least of them; the *)
(* sort is stable, and the controller's findings are merged before a job's,*)
(* a resource's by control.                                                *)
FindingKey(f) ==
  <<StatusRank(f), -Weight(f), Checks[f.control].cis, f.resource,
    IF Checks[f.control].scope = "job" THEN 1 ELSE 0, f.control>>

SortFindings ==
  /\ phase = "judging" /\ toJudge = {}
  /\ findings' = Sorted(found, [f \in found |-> FindingKey(f)])
  /\ phase' = "evaluated"
  /\ UNCHANGED <<found, toJudge, coverage, options, page>>

-----------------------------------------------------------------------------
(* What every format says, and how *)

Entry(fs, accepted) == [stands |-> fs, accepted |-> accepted]
Singly(fs) == {Entry({f}, f.waived) : f \in fs}
All == {findings[i] : i \in DOMAIN findings}

Unread(f) == f.status = "MANUAL" /\ Checks[f.control].automated
ByDesign(f) == f.status = "MANUAL" /\ ~Checks[f.control].automated
ControlsOf(fs) == {f.control : f \in fs}
Of(c, fs) == {f \in fs : f.control = c}

NoJobsAudited == (\E c \in Control : Checks[c].scope = "job") /\ coverage.jobs = 0

Caveats ==
  (IF NoJobsAudited THEN {"no job"} ELSE {})
  \cup (IF coverage.complete THEN {} ELSE {"incomplete"})
  \cup (IF coverage.errors > 0 THEN {"errors"} ELSE {})

-----------------------------------------------------------------------------
(* The remediations of the table *)

(* Mutant: a control that could not be read gets instructions as well.     *)
MutantRemediationOrder(fs) ==
  {f \in fs : f.status \in {"FAIL", "MANUAL"} /\
     \A g \in Of(f.control, fs) : g.status \in {"FAIL", "MANUAL"} =>
       ~LessKey(FindingKey(g), FindingKey(f))}

(* The first finding of each control that failed or needs a person.        *)
RemediationOrder(fs) ==
  {f \in fs : f.status \in {"FAIL", "MANUAL"} /\ ~Unread(f) /\
     \A g \in Of(f.control, fs) : g.status \in {"FAIL", "MANUAL"} /\ ~Unread(g) =>
       ~LessKey(FindingKey(g), FindingKey(f))}

FailsOf(ordered) == ControlsOf({f \in ordered : f.status = "FAIL"})
ManualsOf(ordered) == ControlsOf({f \in ordered : f.status # "FAIL"})

(* Controls that failed on every job they apply to, if there are several   *)
(* and none has the controller's name.                                     *)
FullSweeps(fs) ==
  {c \in ControlsOf(fs) :
     LET applicable == {f \in Of(c, fs) : f.status # "NA"} IN
     /\ Cardinality(applicable) > 1
     /\ \A f \in applicable : f.status = "FAIL" /\ f.resource # InstanceResourceName}

SweepsShown(fs) ==
  {c \in FullSweeps(fs) \cap ControlsOf(RemediationOrder(fs)) : Checks[c].folder}

-----------------------------------------------------------------------------
(* The overview *)

(* One line for all resources a control is MANUAL or NA on for one reason. *)
Groups(fs) ==
  {Entry({g \in fs : g.control = f.control /\ g.details = f.details}, FALSE) : f \in fs}

(* The sentence about what could not be read names the first controls.     *)
UnreadSummary(fs) ==
  LET controls == ControlsOf(fs)
      first(c) == CHOOSE f \in Of(c, fs) :
                    \A g \in Of(c, fs) : ~LessKey(FindingKey(g), FindingKey(f))
      before(c) == {d \in controls : LessKey(FindingKey(first(d)), FindingKey(first(c)))}
  IN {c \in controls : Cardinality(before(c)) < MaxNamed}

Overview(fs, o) ==
  LET open == {f \in fs : ~f.waived}
      unread == {f \in fs : Unread(f)}
      named == UnreadSummary(unread)
      asked == {f \in fs : o.showPassed /\ f.status \in {"PASS", "NA"}}
  IN [Rendering(
        Singly({f \in open : f.status = "FAIL"}) \cup Singly({f \in asked : f.status = "PASS"})
          \cup Groups({f \in open : ByDesign(f)}) \cup Groups({f \in asked : f.status = "NA"})
          \cup Singly({f \in fs : f.waived})
          \cup {Entry(Of(c, unread), FALSE) : c \in named},
        Cardinality(ControlsOf(unread) \ named))
      EXCEPT !.sweeps = IF o.noRemediations THEN {} ELSE SweepsShown(fs)]

-----------------------------------------------------------------------------
(* The detailed table *)

(* What a value of --details is: a control of the report, by its exact ID, *)
(* or else a piece of the resource names it is found in.                   *)
NamesControl(fs, word) == word.id \in ControlsOf(fs)
MatchesResource(fs, word) == \E f \in fs : f.resource \in word.within
MatchesNothing(fs, word) == ~NamesControl(fs, word) /\ ~MatchesResource(fs, word)

FilterFindings(fs, words) ==
  LET controls == {w \in words : NamesControl(fs, w)}
      resources == words \ controls
  IN {f \in fs : /\ controls # {} => \E w \in controls : f.control = w.id
                 /\ resources # {} => \E w \in resources : f.resource \in w.within}

SelectForSection(fs, showPassed) ==
  {f \in fs : f.status \in {"FAIL", "MANUAL"} \/ showPassed}

TallyKey(fs) ==
  LET number(P(_)) == Cardinality({f \in fs : P(f)}) IN
  <<-number(LAMBDA f : f.status = "FAIL"), -number(Unread), -number(ByDesign),
    (CHOOSE f \in fs : TRUE).resource>>

(* The findings of each resource with something to list, the worst first.  *)
Sections(fs, showPassed) ==
  LET groups == {{f \in fs : f.resource = g.resource} : g \in SelectForSection(fs, showPassed)}
  IN Sorted(groups, [group \in groups |-> TallyKey(group)])

DetailedTable(fs, o) ==
  LET filtered == FilterFindings(fs, o.words)
      sections == Sections(filtered, o.showPassed)
      shown == {i \in DOMAIN sections : o.maxResources = 0 \/ i <= o.maxResources}
      ordered == IF o.noRemediations THEN {} ELSE RemediationOrder(filtered)
  IN [Rendering(UNION {Singly(SelectForSection(sections[i], o.showPassed)) : i \in shown},
                Len(sections) - Cardinality(shown))
      EXCEPT !.fails = FailsOf(ordered), !.manuals = ManualsOf(ordered)]

-----------------------------------------------------------------------------
(* SARIF *)

(* Mutant: the one result for a control is suppressed as its first finding *)
(* is.                                                                     *)
MutantAggregate(fs) == Entry(fs, (CHOOSE f \in fs :
  \A g \in fs : ~LessKey(FindingKey(g), FindingKey(f))).waived)

(* One result for a control no API can answer, suppressed when all are.    *)
Aggregate(fs) == Entry(fs, \A f \in fs : f.waived)

SarifResults(fs) ==
  LET designed == {f \in fs : ByDesign(f)}
  IN Singly({f \in fs : f.status = "FAIL" \/ Unread(f)})
     \cup {Aggregate(Of(c, designed)) : c \in ControlsOf(designed)}

(* Mutant: ranked by the control's severity alone.                         *)
MutantResultRank(e) == Weight(CHOOSE f \in e.stands : TRUE)

(* Failures by severity, then what only needs a person.                    *)
ResultRank(e) ==
  LET f == CHOOSE g \in e.stands : TRUE IN IF f.status = "MANUAL" THEN 0 ELSE Weight(f)

ResultKey(e) ==
  LET f == CHOOSE g \in e.stands : TRUE IN
  <<-ResultRank(e), f.control, IF ByDesign(f) THEN InstanceResourceName ELSE f.resource>>

Sarif(fs) ==
  LET results == Sorted(SarifResults(fs), [e \in SarifResults(fs) |-> ResultKey(e)])
      kept == {results[i] : i \in DOMAIN results \cap 1 .. MaxResults}
  IN Rendering(kept, Len(results) - Cardinality(kept))

-----------------------------------------------------------------------------
(* JUnit, JSON and the page *)

(* Mutant: a failing case per container that could not be listed.          *)
MutantScanCases ==
  (IF NoJobsAudited THEN {"no job"} ELSE {})
  \cup (IF ~coverage.complete /\ coverage.unlisted > 0 THEN {"incomplete"} ELSE {})
  \cup (IF coverage.errors > 0 THEN {"errors"} ELSE {})

(* How many cases fail for an incomplete job list: one per container that  *)
(* could not be listed, or one for the list if none is named.              *)
ListCases ==
  CASE coverage.complete -> 0
    [] ~coverage.complete /\ coverage.unlisted = 0 -> 1
    [] OTHER -> coverage.unlisted

(* The failing cases for what the scan could not do, by what they say.     *)
ScanCases ==
  (IF NoJobsAudited THEN {"no job"} ELSE {})
  \cup (IF ListCases > 0 THEN {"incomplete"} ELSE {})
  \cup (IF coverage.errors > 0 THEN {"errors"} ELSE {})

(* JUnit and JSON have a case or an object per finding.                    *)
Body(fs, o) ==
  CASE o.format = "table" /\ o.details -> DetailedTable(fs, o)
    [] o.format = "table" /\ ~o.details -> Overview(fs, o)
    [] o.format = "sarif" -> Sarif(fs)
    [] OTHER -> Rendering(Singly(fs), 0)

Page(o) ==
  [Body(All, o) EXCEPT !.caveats = IF o.format = "junit" THEN ScanCases ELSE Caveats]

Write(o) ==
  /\ phase = "evaluated"
  /\ options' = o
  /\ IF o.format = "table" /\ o.details /\ \E w \in o.words : MatchesNothing(All, w)
       THEN phase' = "refused" /\ UNCHANGED page
       ELSE phase' = "rendered" /\ page' = Page(o)
  /\ UNCHANGED <<toJudge, found, findings, coverage>>

Next == Judge \/ SortFindings \/ \E o \in Options : Write(o)

Spec == Init /\ [][Next]_vars

-----------------------------------------------------------------------------
(* Properties *)

Rendered == phase = "rendered"
Detailed == options.format = "table" /\ options.details
InOverview == options.format = "table" /\ ~options.details

(* What the reader asked about, and what of it needs doing.                *)
Asked == IF Detailed THEN FilterFindings(All, options.words) ELSE All
Open(f) == f.status \in {"FAIL", "MANUAL"} /\ ~f.waived
Listed(f) == \E e \in page.entries : f \in e.stands /\ ~e.accepted

(* What a format counts when it leaves something out.                      *)
Unit(f) ==
  CASE Detailed -> <<f.resource>>
    [] InOverview -> <<f.control>>
    [] OTHER -> <<f.control, IF ByDesign(f) THEN InstanceResourceName ELSE f.resource>>

(* No rendering hides what needs doing: each open finding the reader asked *)
(* about is listed and not as accepted, alone or with others of its        *)
(* control, or it is among as many resources, results or unread controls   *)
(* as the page says it leaves out; the overview leaves out no failure      *)
(* (lines.go 33-107, 291-323, table.go 544-591, sarif.go 176-227,         *)
(* 432-463).                                                               *)
NothingHidden ==
  Rendered =>
    LET missing == {f \in Asked : Open(f) /\ ~Listed(f)} IN
    /\ Cardinality({Unit(f) : f \in missing}) <= page.leftOut
    /\ InOverview => \A f \in missing : Unread(f)

(* A page that looks clean was made by a whole scan that found nothing     *)
(* wrong: with no caveat, nothing left out and no failure that is not      *)
(* accepted (in JUnit, no failing test case), every job was listed, some   *)
(* was judged, no policy failed and nothing the reader asked about failed  *)
(* (junit.go 145-175, sarif.go 253-290, table.go 432-501).                 *)
CleanIsClean ==
  Rendered /\ page.caveats = {} /\ page.leftOut = 0
    /\ (\A e \in page.entries : e.accepted \/ \A f \in e.stands : f.status # "FAIL") =>
  /\ coverage.complete /\ coverage.errors = 0
  /\ coverage.jobs > 0 \/ \A c \in Control : Checks[c].scope # "job"
  /\ \A f \in Asked : f.status = "FAIL" => f.waived

(* A cap keeps what matters: no result withheld from SARIF is an open      *)
(* failure while a kept one is less severe or only needs a person, and no  *)
(* resource without a table has more failures than one with a table        *)
(* (sarif.go 215-227, 331-343, table.go 366-407, 544-573).                 *)
CapKeepsWorst ==
  Rendered =>
    LET kept == UNION {e.stands : e \in page.entries}
        failures(r) == Cardinality({f \in Asked : f.resource = r /\ f.status = "FAIL"})
    IN
    /\ options.format = "sarif" =>
         \A f \in All \ kept : f.status = "FAIL" =>
           \A g \in kept : g.status = "FAIL" /\ Weight(g) >= Weight(f)
    /\ Detailed =>
         \A f \in Asked \ kept : Open(f) =>
           \A g \in kept : failures(g.resource) >= failures(f.resource)

(* What the page tells the reader to do fits what was found: a control is  *)
(* under "Remediations" when it failed somewhere, under "Manual review"    *)
(* when it only ever needs a person, under neither when it merely went     *)
(* unread; and "failing on all jobs" means two or more, all of them        *)
(* (table.go 695-817).                                                     *)
RemedyMatchesNeed ==
  Rendered =>
    /\ Detailed /\ ~options.noRemediations =>
         /\ page.fails = ControlsOf({f \in Asked : f.status = "FAIL"})
         /\ page.manuals = ControlsOf({f \in Asked : ByDesign(f)})
    /\ \A c \in page.sweeps :
         LET jobs == {f \in All : f.control = c /\ f.status # "NA"} IN
         Cardinality(jobs) > 1 /\ \A f \in jobs : f.status = "FAIL" /\ Checks[c].scope = "job"

=============================================================================
