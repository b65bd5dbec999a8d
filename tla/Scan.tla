-------------------------------- MODULE Scan --------------------------------
(***************************************************************************)
(* The scan command, one invocation after the other on the same disk:      *)
(* runScan, obtainSnapshot, readSnapshot and writeSnapshot of              *)
(* internal/cli/scan.go and Run of exit.go, over PrivateFile (every file   *)
(* it writes) and Settings (what it was configured to do).                 *)
(*                                                                         *)
(* Fetch, Evaluate and Verdict model three of its steps in detail; here a  *)
(* fetch answers a snapshot or fails, an evaluation gives a report or      *)
(* fails, and the exit code follows from the report and the options.  What *)
(* is on a disk or on stdout is told apart by "kind"; a snapshot is there  *)
(* as the JSON document that Encode makes of it.                           *)
(***************************************************************************)
EXTENDS PrivateFile, Settings

CONSTANTS
  Options,      \* the command lines to look at: of the first invocation, the second...
  None,         \* in place of a path: the flag was not given
  Job,          \* the jobs of the controller
  Disabled,     \* those that are disabled
  Wrong,        \* those that break a rule of high severity
  JobScoped,    \* the controls about jobs
  LastDay       \* bound: the days that the invocations are spread over

ASSUME ScanAssumption ==
  /\ Disabled \subseteq Job /\ Wrong \subseteq Job /\ JobScoped \subseteq Control
  /\ LastDay \in Nat
  /\ None \notin Path /\ Len(Options) \in Nat \ {0}
  /\ \A k \in 1 .. Len(Options) : \A o \in Options[k] :
       /\ {o.in, o.out, o.report} \subseteq Path \cup {None} /\ o.sets \in Seq(Range(o.sets))
       /\ \A e \in Load(Documents(o.given, o.places, o.sets)).exceptions : e.expires \in Int

VARIABLES
  pc,        \* where the invocation is
  opts,      \* its command line
  ctx,       \* "live", or "cut" by Ctrl-C or SIGTERM
  snapshot,  \* what it fetched or read
  report,    \* what it found
  stdout,    \* what it printed there
  exit,      \* its exit code, -1 before
  today,     \* the day on which something was last evaluated
  log        \* (history) the invocations before it

scanVars == <<pc, opts, ctx, snapshot, report, stdout, exit, today, log>>
vars == <<fileVars, scanVars>>

NoContent == [kind |-> "nothing"]
Half == [kind |-> "half"]

(* Who captured it is metadata.generatedAt; 0 is a capture before the first*)
(* invocation.                                                             *)
Snapshots ==
  [kind: {"snapshot"}, by: 0 .. Len(Options), jobs: SUBSET Job, complete: BOOLEAN,
   schemaVersion: {"this build's"}, platform: {"jenkins"}]

(* json.MarshalIndent leaves out what is empty and marked omitempty.       *)
(* Mutant: nor is completeness written (a tag "-").                        *)
MutantEncode(snap) ==
  [key \in DOMAIN snap \ ({"complete"} \cup IF snap.jobs = {} THEN {"jobs"} ELSE {}) |-> snap[key]]

Encode(snap) ==
  [key \in DOMAIN snap \ (IF snap.jobs = {} THEN {"jobs"} ELSE {}) |-> snap[key]]

(* json.Unmarshal leaves what the document does not have at its zero.      *)
Zero == [kind |-> "snapshot", by |-> 0, jobs |-> {}, complete |-> FALSE,
         schemaVersion |-> "", platform |-> ""]

Decode(document) ==
  [key \in DOMAIN Zero |-> IF key \in DOMAIN document THEN document[key] ELSE Zero[key]]

(* What readSnapshot accepts.                                              *)
Acceptable(snap) == snap.schemaVersion = "this build's" /\ snap.platform # ""

(* The disk can hold every snapshot that a fetch may return, and every     *)
(* report on a snapshot; what is there before is of no later invocation.   *)
ASSUME ContentAssumption ==
  /\ Nothing = NoContent
  /\ {Encode(snap) : snap \in Snapshots} \subseteq Content
  /\ \A c \in Content : c.kind = "snapshot" /\ Acceptable(Decode(c)) => Decode(c) \in Snapshots
  /\ \A f \in Before : f.content.kind = "snapshot" => Decode(f.content).by = 0
  /\ [kind: {"report"}, of: Snapshots, controls: SUBSET Control, errors: BOOLEAN,
      judged: SUBSET Job, accepted: SUBSET (Control \X Job), on: 0 .. LastDay] \subseteq Content

Docs == Documents(opts.given, opts.places, opts.sets)
Cfg == Load(Docs)

-----------------------------------------------------------------------------
(* What a snapshot is turned into *)

Eligible(s, c) == IF c.skipDisabledJobs THEN s.jobs \ Disabled ELSE s.jobs

(* A disabled job is NA to every control about jobs.                       *)
Failures(controls, judged) ==
  (controls \cap JobScoped) \X ((judged \ Disabled) \cap Wrong)

(* What applyExceptions marks: an exception applies through its last day.  *)
Accepted(c, failures, day) ==
  {f \in failures : \E e \in c.exceptions :
     Names(e.control, f[1]) /\ f[2] \in e.resources /\ day <= e.expires}

ReportOf(s, c, errors, day) ==
  [kind |-> "report", of |-> s, controls |-> Selected(c), errors |-> errors,
   judged |-> Eligible(s, c), on |-> day,
   accepted |-> Accepted(c, Failures(Selected(c), Eligible(s, c)), day)]

AsksAboutJobs(r) == r.controls \cap JobScoped # {}

HasHighFailure(r) == Failures(r.controls, r.judged) \ r.accepted # {}

Unjudged(r, c) ==
  \/ ~r.of.complete /\ ~c.allowIncomplete
  \/ AsksAboutJobs(r) /\ r.judged = {}

(* Mutant: a report whose policies could not run is judged all the same.   *)
MutantExitStatus(r, c) ==
  IF Unjudged(r, c) THEN 2 ELSE IF c.failOn # "none" /\ HasHighFailure(r) THEN 1 ELSE 0

(* The gates of exitStatus that are on by default; Verdict has them all.   *)
ExitStatus(r, c) ==
  IF r.errors \/ Unjudged(r, c) THEN 2
  ELSE IF c.failOn # "none" /\ HasHighFailure(r) THEN 1 ELSE 0

-----------------------------------------------------------------------------
(* One invocation *)

Init ==
  /\ FileInit
  /\ call.path = CHOOSE p \in Path : TRUE
  /\ opts \in Options[1]
  /\ pc = "options" /\ ctx = "live"
  /\ snapshot = NoContent /\ report = NoContent /\ stdout = NoContent
  /\ exit = -1 /\ today = 0 /\ log = <<>>

Goto(place) == pc' = place /\ UNCHANGED exit

(* The process ends by itself.                                             *)
ExitWith(code) == pc' = "exited" /\ exit' = code

Keeping(variables) == UNCHANGED <<opts, today, log, variables>>

(* Refused rather than ignored, before anything is read.                   *)
Misused(o) ==
  \/ o.legacyFormat = "disagrees"
  \/ o.in # None /\ o.narrowed
  \/ o.maxResources # "unset" /\ ~o.details
  \/ o.maxResources = "negative"

CheckOptions ==
  /\ pc = "options"
  /\ IF Misused(opts) THEN ExitWith(2) ELSE Goto("config")
  /\ Keeping(<<fileVars, ctx, snapshot, report, stdout>>)

(* loadScanConfig, the format and engine.New, which a dead context can     *)
(* fail as well: everything that can be wrong with the request is refused  *)
(* before the controller is asked anything.                                *)
Configure ==
  /\ pc = "config"
  /\ \/ Starts(Docs) /\ opts.format # "unknown" /\ Goto("snapshot")
     \/ (~Starts(Docs) \/ opts.format = "unknown" \/ ctx = "cut") /\ ExitWith(2)
  /\ Keeping(<<fileVars, ctx, snapshot, report, stdout>>)

Readable(f) ==
  f.whole /\ f.content.kind = "snapshot" /\ Acceptable(Decode(f.content))

ReadSnapshot ==
  /\ pc = "snapshot" /\ opts.in # None
  /\ \/ /\ Readable(disk[opts.in])
        /\ snapshot' = Decode(disk[opts.in].content)
        /\ Goto("keep")
     \/ /\ ExitWith(2)
        /\ UNCHANGED snapshot
  /\ Keeping(<<fileVars, ctx, report, stdout>>)

(* NewClient refuses what it cannot use: a URL, a CA file, a plain http.   *)
Connect ==
  /\ pc = "snapshot" /\ opts.in = None
  /\ \/ opts.url /\ (opts.token => opts.username) /\ Goto("fetch")
     \/ ExitWith(2)
  /\ Keeping(<<fileVars, ctx, snapshot, report, stdout>>)

(* Fetch: what a fetch that is not cut short returns.                      *)
FetchAnswers ==
  /\ pc = "fetch" /\ ctx = "live"
  /\ \E jobs \in SUBSET Job, complete \in BOOLEAN :
       snapshot' = [kind |-> "snapshot", by |-> Len(log) + 1, jobs |-> jobs,
                    complete |-> complete, schemaVersion |-> "this build's",
                    platform |-> "jenkins"]
  /\ Goto("keep")
  /\ Keeping(<<fileVars, ctx, report, stdout>>)

(* The controller cannot be read, scan.maxDuration has passed or the       *)
(* context is dead.                                                        *)
FetchFails ==
  /\ pc = "fetch"
  /\ ExitWith(2)
  /\ Keeping(<<fileVars, ctx, snapshot, report, stdout>>)

SaveSnapshot ==
  /\ pc = "keep"
  /\ IF opts.out = None
       THEN Goto("evaluate") /\ UNCHANGED fileVars
       ELSE Goto("keeping") /\ Begin(opts.out, Encode(snapshot))
  /\ Keeping(<<ctx, snapshot, report, stdout>>)

SnapshotSaved ==
  /\ pc = "keeping" /\ Done
  /\ IF call.broken THEN ExitWith(2) ELSE Goto("evaluate")
  /\ Keeping(<<ctx, snapshot, report, stdout>>)

(* With a dead context, or a broken policy, some control has an error; one *)
(* that ran before the context died, or without noticing, has none.  The   *)
(* clock is read once, and any time may have passed since it was last read.*)
EvaluateSnapshot ==
  /\ pc = "evaluate"
  /\ \/ /\ today' \in today .. LastDay
        /\ \E errors \in BOOLEAN : report' = ReportOf(snapshot, Cfg, errors, today')
        /\ Goto("render")
     \/ /\ ExitWith(2)
        /\ UNCHANGED <<report, today>>
  /\ UNCHANGED <<fileVars, ctx, opts, log, snapshot, stdout>>

(* Rendered into memory, so that one that fails leaves nothing anywhere.   *)
Render ==
  /\ pc = "render"
  /\ IF opts.report = None
       THEN Goto("print") \/ ExitWith(2)
       ELSE Goto("deliver") \/ ExitWith(2)
  /\ Keeping(<<fileVars, ctx, snapshot, report, stdout>>)

PrintReport ==
  /\ pc = "print"
  /\ \/ stdout' = report /\ Goto("gate")
     \/ stdout' \in {NoContent, Half} /\ ExitWith(2)
  /\ Keeping(<<fileVars, ctx, snapshot, report>>)

SaveReport ==
  /\ pc = "deliver" /\ Begin(opts.report, report) /\ Goto("delivering")
  /\ Keeping(<<ctx, snapshot, report, stdout>>)

ReportSaved ==
  /\ pc = "delivering" /\ Done
  /\ IF call.broken THEN ExitWith(2) ELSE Goto("gate")
  /\ Keeping(<<ctx, snapshot, report, stdout>>)

Exit ==
  /\ pc = "gate"
  /\ ExitWith(ExitStatus(report, Cfg))
  /\ Keeping(<<fileVars, ctx, snapshot, report, stdout>>)

Writing == WritePrivate /\ UNCHANGED scanVars

-----------------------------------------------------------------------------
(* What happens to it, and the next invocation *)

(* Every signal but SIGKILL only cancels the context, the second as well.  *)
Interrupt ==
  /\ pc # "exited" /\ ctx = "live"
  /\ ctx' = "cut"
  /\ UNCHANGED <<fileVars, pc, opts, snapshot, report, stdout, exit, today, log>>

Kill ==
  /\ pc # "exited" /\ Die /\ Goto("exited")
  /\ Keeping(<<ctx, snapshot, report, stdout>>)

StopMachine ==
  /\ PowerCut /\ Goto("exited")
  /\ Keeping(<<ctx, snapshot, report, stdout>>)

SettleSome == (\E p \in Path : Settle(p)) /\ UNCHANGED scanVars

Again ==
  /\ pc = "exited" /\ Len(log) + 1 < Len(Options)
  /\ log' = Append(log, [cfg |-> Cfg, snapshot |-> snapshot, report |-> report, exit |-> exit])
  /\ opts' \in Options[Len(log) + 2]
  /\ pc' = "options" /\ ctx' = "live" /\ snapshot' = NoContent /\ report' = NoContent
  /\ stdout' = NoContent /\ exit' = -1
  /\ UNCHANGED <<fileVars, today>>

Next ==
  \/ CheckOptions \/ Configure \/ ReadSnapshot \/ Connect \/ FetchAnswers \/ FetchFails
  \/ SaveSnapshot \/ SnapshotSaved \/ EvaluateSnapshot \/ Render \/ PrintReport
  \/ SaveReport \/ ReportSaved \/ Exit \/ Writing
  \/ Interrupt \/ Kill \/ StopMachine \/ SettleSome \/ Again

Spec == Init /\ [][Next]_vars

-----------------------------------------------------------------------------
(* Properties; ImplementsWholeFile is PrivateFile's *)

(* An invocation that ends with a verdict, 0 or 1, has delivered the whole *)
(* report of the snapshot it fetched or read, to the file or to stdout,    *)
(* with every control evaluated, and has kept the snapshot if it was told  *)
(* to, unless it was told to write the report over it.                     *)
ReportIsTheVerdict ==
  [][exit = -1 /\ exit' \in {0, 1} =>
       /\ report.of = snapshot /\ ~report.errors
       /\ IF opts.report = None THEN stdout = report
          ELSE disk[opts.report].content = report
       /\ opts.out \notin {None, opts.report} => disk[opts.out].content = Encode(snapshot)]_vars

(* Two invocations on one capture with the same settings, neither with an  *)
(* error: this one and an earlier one.                                     *)
SameQuestion(other) ==
  /\ report.kind = "report" /\ other.report.kind = "report"
  /\ snapshot.by = other.snapshot.by /\ snapshot.by # 0
  /\ Cfg = other.cfg /\ report.errors = other.report.errors

SameFindings(r, s) ==
  r.controls = s.controls /\ r.judged = s.judged /\ r.accepted = s.accepted

(* A capture that went to the disk and back - encoded, interrupted, torn,  *)
(* replaced, written again - is evaluated later as it was when it was      *)
(* fetched: the snapshot is the same to the last field, and so are the     *)
(* findings and the verdict, unless an exception lapsed in between; then   *)
(* nothing is accepted that was not, and a run that failed fails again.    *)
SameFromDisk ==
  \A k \in DOMAIN log :
    LET other == log[k]
        lapsed == \E e \in Cfg.exceptions :
                    e.expires \in other.report.on .. report.on - 1
        verdicts == exit \in {0, 1} /\ other.exit \in {0, 1}
    IN SameQuestion(other) =>
         /\ snapshot = other.snapshot
         /\ ~lapsed => SameFindings(report, other.report) /\ (verdicts => exit = other.exit)
         /\ report.accepted \subseteq other.report.accepted
         /\ verdicts => exit >= other.exit

(* A scan that gets as far as a snapshot has every setting from the last   *)
(* that says it - the defaults, the first file found, the overrides in     *)
(* their order - and every control name in it means something: what is     *)
(* included and not excluded is evaluated and nothing else is, and no      *)
(* exception is for a control that does not exist.                         *)
EveryNameHeeded ==
  pc \notin {"options", "config", "exited"} =>
    LET Said(key) == {k \in DOMAIN Docs : key \in DOMAIN Docs[k]}
        Ids(names) == {name.id : name \in names}
        all == IF Cfg.include = {} THEN Control ELSE Ids(Cfg.include)
    IN /\ \A key \in Keys :
            Cfg[key] = IF Said(key) = {} THEN Default[key] ELSE Docs[Max(Said(key))][key]
       /\ Selected(Cfg) = all \ Ids(Cfg.exclude) /\ Selected(Cfg) # {}
       /\ \A e \in Cfg.exceptions : e.control.id \in Control

=============================================================================
