# A verification of jenkins-bench in TLA+

jenkins-bench reads one Jenkins controller over HTTP, captures what it read as
a snapshot, judges the snapshot with embedded Rego policies and turns the
findings into a report and an exit code.  The tool's promise is that a scan
never looks better than what was really seen: a read that fails becomes MANUAL
or an error, never an absence.  The hard part of keeping that promise is in the
part that fetches, where a controller changes, refuses, throttles and redirects
while goroutines read it under one deadline; in the part that judges and
decides, where a broken or interrupted policy must not look like a clean
result; and in what comes out, where a report may be cut short by a cap, a
filter, a full disk or a kill.  All three are modelled, from the single GET to
the file on disk.

All paths below are relative to the repository; `fetcher.go` and `client.go`
are in `src/internal/ci/jenkins/`.

## Inventory

| Component | State | Operations | Hard behaviour | What makes it correct |
|---|---|---|---|---|
| HTTP client, `client.go` `raw` | attempt counter, `waited`, `lastErr`; net/http's redirect chain | one GET: send, redirect, read body, back off, pace | retries against final answers, Retry-After against backoff, the context dying in a wait or in flight, redirects with a credential | one wait per retry, no retry of a final answer, the result is the last attempt's; the token stays at its origin |
| Job walk, `fetcher.go` `enumerate`, `listJobs`, `lookup`, `unlist` | `f.listed`, `f.unlisted`, the items found, the recursion's frames | list a container, descend, look up a target, deduplicate | the tree changes meanwhile, requests fail or are answered by something else, targets overlap, the depth limit, the deadline | no job lost in silence, none twice, no container read outside the scope, the walk ends |
| Job pool, `fetchJobs` | the semaphore, WaitGroup, result slice, `firstErr`, `done` | one goroutine per job | every interleaving, refusals, cancellation | a whole result or the context's error, bounded concurrency, no goroutine left |
| Fetch, `Fetch`, `fetchController` | the controller being built, availability keys, errors | root, probe, nodes, plugins, update site, credentials, jobs | which errors fail and which degrade; errors of a dead context that look like refusals | availability is earned; a deadline never shapes a snapshot |
| Configuration decoding, `applyConfig`, `placeJob`, `definitionFrom`, `triggers.go`, `scripts.go` | none | XML to a job | unknown job types, label expressions, flags that are absent | unknown is never taken for absent |
| Engine, `engine.go` `Evaluate`, `evaluateJobs` | prepared queries, results slice | a worker per CPU over an unbuffered channel | worker errors, order of results | deterministic report, no blocked producer |
| Score and exceptions, `score.go`, `applyExceptions` | the findings | sums, waivers | edges of the arithmetic, expiry | the score ignores waivers, the gate does not |
| Exit gate, `scan.go` `exitStatus` | the report | a sequence of gates | which gate wins | an incomplete scan exits 2 |
| Scan pipeline, `runScan`, `obtainSnapshot` | files, stdout | config, engine, fetch, evaluate, render, write | a failing step, Ctrl-C, the scope of the deadline, flags that name one file, an exception that lapses before the snapshot is evaluated again | a verdict only of a report that was delivered; a capture read back is the capture that was taken |
| Private files, `files.go` | destination and temporary file | create, chmod, write, sync, close, rename | crash or failure between two steps | old or new, whole and private |
| Progress line and tracer, `progress.go`, `trace.go` | the terminal line, its lock, two channels | draw, step aside, clear | the rotor goroutine against the caller and the fetch goroutines | nothing drawn after the erase, and the erase comes |
| Configuration, `config.go`, `discover.go`; `engine.New` | none | defaults, file, `--set`, validation, selection | precedence; names checked in one place and matched in another | a typo refuses to start, every name means something |
| Policies, `policies/jenkins` | none | judge | what a policy concludes from missing data | unavailable is MANUAL |
| Reports, `internal/report`, `sortFindings` | none | table, lines, JSON, SARIF, JUnit | caps, grouping, filters, partial scans | nothing that needs doing is hidden |
| Registry, console, TLS and URL helpers, `init`, `list-checks`, `version` | none | formatting, single steps | none | not modelled |

`runScan` calls `engine.New`, then `Fetch` through `obtainSnapshot`, then
`Evaluate`, then the report writers, then `exitStatus`.  Inside `Fetch` every
read is one call of `raw`; `fetchJobs` runs the walk to its end in one
goroutine and then the pool.  The fetch goroutines call back into the tracer
and the count of jobs on the progress line; warnings come from the caller
alone.  The `Available` map and `Unlisted` of the controller are what later
stages know of what could not be read.

`PROJECT.json` lists the hazards of all of these at their lines.

## Modules

| Module | Models | Stands on |
|---|---|---|
| `Get` | what one GET promises its caller: an answer, a failure, or cancelled | |
| `Request` | `raw`, `checkRedirect`, `retryAfter`'s use | implements `Get` |
| `JobWalk` | `enumerate`, `listJobs`, `childOf`, `lookup`, `unlist`, `isContainer` | |
| `JobPool` | the goroutines of `fetchJobs` | |
| `Fetch` | `Fetch`, `fetchController` and its reads, `ProbeAnonymous`'s verdict | instances `Get` |
| `Evaluation` | what `Evaluate` promises: the report of a single worker, or none | |
| `Evaluate` | `Evaluate`, `evaluateJobs`, `evaluateOne` | implements `Evaluation` |
| `Verdict` | `Compute`, `applyExceptions`, `exitStatus`, `failureSummary` | |
| `WholeFile` | what `writePrivate` promises: whole private files, replaced as wholes | |
| `PrivateFile` | `writePrivate`, and what a disk, a kill and a power cut do to it | implements `WholeFile` |
| `Settings` | `Discover`, `LoadWithOverrides`, `Validate`, `Selects`, `validateSelection` (operators) | |
| `Scan` | `runScan`, `obtainSnapshot`, `readSnapshot`, `writeSnapshot`, invocation after invocation | extends `PrivateFile`, `Settings` |
| `Progress` | `progressWriter`, `trace.go`'s counting, the callbacks of `obtainSnapshot` | |
| `Report` | `sortFindings`, the two tables, SARIF, JUnit, JSON, the filters and the caps | |
| `JobConfig` | `fetchJob`'s decoding, `applyConfig`, `placeJob`, triggers and scripts (operators) | |
| `Controls` | the policies that read something (operators) | |
| `Access` | one controller scanned by accounts that are shown more and more | extends `JobConfig`, `Controls` |
| `RequestProofs`, `JobWalkProofs`, `JobPoolProofs`, `VerdictProofs`, `ReportProofs` | theorems about the module each is named after | |
| `FetchProofs` | theorems about `Fetch`, and about `Progress`, the line a fetch draws | |
| `EvaluateProofs` | theorems about `Evaluate`, and about `Access`, what is evaluated | |
| `ScanProofs` | theorems about `Scan`, and about `PrivateFile` and `Settings`, which it extends | |
| `*MC` | the small instance that TLC checks | |

Each module has its mutants beside the definitions they change: operators named
`Mutant...`, which no behaviour uses, each a plausible slip in the code that
breaks one of the properties.

Where a proof module is about two state machines that know nothing of each
other, one of them has a prefix on what both would call alike (`LineInit`,
`LineNext`, `lineVars` of `Progress`; `AccessInit`, `AccessNext`, `accessVars`
of `Access`; `FileNext`, `fileVars` of `PrivateFile`).

### Request

State is `raw`'s locals: `attempt`, `waited`, where the call is (`pc`), the
status being read, the number of hops followed (`via`) and where the request in
flight goes (`to`).  One action per step of the loop.  A response's status is
one of `"ok"`, a final refusal, `"busy"` (429 or 5xx without a usable
Retry-After) or `"paced"` (with one); durations are left out, a wait ends with
its timer or with the context.  An HTTP exchange is atomic as to the context: a
context that dies in flight may be seen before or after the answer, as with
net/http.  The probe (`authenticate = FALSE`) follows no redirect and so gets a
3xx as a final status; a redirect that is refused and one that is followed are
told apart by `MayFollow`, which is `checkRedirect`.  That a followed redirect
stays at the controller's origin is that one guard, so no property restates it.

`ImplementsGet` is the refinement: `ctx`, `late` and `result` are those of
`Get` and everything else is hidden.  `late` and the history variables `waits`
and `last` record what happened and decide nothing.

### JobWalk

A full name is the sequence of its segments, so that `childOf` is "one segment
more".  The recursion of `listJobs` is a stack whose frames are the folders on
the way to `at`; `todo` holds the items of each frame's listing not gone
through yet, and `call` the container that `listJobs` has just been called on.
The controller's users remove and add items between any two steps.

Answers are data.  A lookup is answered with the item the flag names, if it is
there, or with any of `Strays`; a listing with the container's own items or with
any of `Pages`.  What the code then checks, and no more, is checked: `LookupFolder`
looks at the kind of the answered item and goes on with the name on the flag,
`LookupJob` takes the answered item under its own full name, and a listing is
judged by `childOf` in a step of its own (`ListForeign`, `ListTaken`), by which
time the context may have died without anybody looking.  `answers` remembers what
the lookups brought, for the properties: `Strayed` is a target whose lookup
brought another item, and `Mistaken` what comes of that.  So `NoJobLost` and
`NothingOutOfScope` say exactly how far the walk can be trusted when something
else answers: a listing never leads it out of the folders it was sent into, and
only a lookup can bring an item that was not asked for.  A listing that is taken
but leaves items out cannot be told from one of an emptier folder, nor can the
code tell it; what it left out counts as `gone`.

Abstractions: the items of a listing are a set, gone through in any order (the
code takes the controller's, and sorts the jobs at the end); the kind of an item
goes with its name, in every answer; an answer to a lookup without a full name
counts as one with the flag's, which is what `lookup` makes of it.

### JobPool

One process per job, with the steps of the goroutine in `fetchJobs`: acquire,
fetch, store or fail, count, report, release, exit.  `done.Add(1)` and the call
of `Progress` are two steps, since nothing makes them one.  A job that is
refused is an answer, as in `fetchJob`, and only the context's error is an
error.  `Progress` is set, as it is in the scan command.

### Fetch

The reads in their order, each of them a `Get`.  The walk and the pool appear
as what they tell `Fetch`: listings and lookups, how many containers were
unlisted, and how many jobs are left to read.  The fields copied out of a page
are left out; the credentials page, whose content decides its availability, is
`"none"`, `"partial"` or `"whole"`.  A success may still be a page that does
not decode.  The one thing assumed of the controller is that it answers 401 or
403 to an anonymous request only if it does not admit anonymous clients.

### Evaluate

The caller's phases are `main`, with one loop counter `step` since it runs one
loop at a time.  The channel is unbuffered, so that `Feed` is the send and the
receive in one step.  A worker encodes its job, judges it control by control
into its own slot, and comes back.  The caller then merges the slots one by one
(`MergeJob`) and returns.  Of an evaluation only this is kept: the
policy answered, it failed (a run-time error, no result or a malformed one, the
same on every run), or a dead context cut it short, which a context that is
dead need not do.  `input` is the snapshot and the configuration as far as they
decide the control flow: which jobs are disabled, which values OPA cannot take
(0 stands for the configuration, the metadata and the controller), which
policies fail.

`ImplementsEvaluation` is the refinement: the report of the workers is, item by
item and in order, the report of a single loop.  `sortFindings` is stable and
compares nothing but the findings, and the score and the exceptions read
nothing else, so what is equal before them is equal after them; `Evaluate` ends
with the merge and `Verdict` goes on from there.

### Verdict

A finding is a cell, a control and a resource, with its status; an exception is
the control it names, the resources its patterns match and whether it has
lapsed.  `Score`, `Apply` (one exception with its inner loop), then `Pass` or
`Stop` for each gate.  `ExitWith` runs the gates on other findings or other
exceptions, so that the properties can compare two runs: with and without an
exception, before and after a repair.

### PrivateFile and WholeFile

One action per system call.  The steps after the temporary file's creation are
all taken even if one fails (`Try`), since `errors.Join` looks at them only
afterwards; the rename happens only if none did.  A file remembers whether it is
whole, private and synced.  A kill leaves the temporary file as litter, with a
name no later call uses.  The directory is never synced, so a rename is durable
only when the file system gets to it (`Settle`): after a power cut the old file
may be back.  That is what `WholeFile` allows, and all it allows.

### Settings

A document, be it the file or one `--set`, is a function from the keys it
mentions to their values, and loading lays one after the other over the
defaults (`Load`, a recursive function on the number of documents).  A name is what it stands for and how it is spelled, so that trimming
and case folding are modelled by what they do.  Every key of the configuration
is there.  An unknown key is a document that does not decode, as with
`KnownFields`.

### Scan

`pc` goes through `runScan`'s steps; `disk`, `temp` and `call` are those of
`PrivateFile`, whose calls `Scan` begins and awaits, so that an interruption
can come between any two system calls.  A fetch returns any set of jobs,
complete or not, or fails; what is inside those steps is `Fetch`'s, `Evaluate`'s
and `Verdict`'s.  Every signal but SIGKILL only cancels the context (`Interrupt`):
the steps after the fetch do not look at it, except that policies may fail.
`log` is a history of the invocations that ended by themselves; the properties
that compare two of them read it.

A snapshot on disk is a JSON document: `Encode` leaves out what is empty and
marked `omitempty`, `Decode` starts from Go's zero values, and `Acceptable` is
what `readSnapshot` checks.  A snapshot carries the invocation that captured it
(`by`, its `generatedAt`), so that two copies of one capture can be compared
wherever they have been.  An exception is applied by the clock: `today` is the
day of the last evaluation, an evaluation moves it on by any number of days up to
`LastDay`, and `ReportOf` has the failures that the exceptions accept on that
day.  Of what can be accepted only failures are there, and of `exitStatus` the
gates that are on by default; `Verdict` has manual findings and the other two.
  `in`, `out` and `report` stand for
`--snapshot-in`, `--snapshot-out` and `--output-file`, which may be one path.

### Progress

The terminal is the row of the cursor: how many columns show something.  `mu`
is `progressWriter.mu`.  `clear` takes the channels under the lock, closes
`stop` without it, waits for `done`, and erases under the lock again, which is
four actions.  `jobsRead` does not look whether the line is up.  A drawing pads
with blanks to the width before, so that a narrower line leaves nothing behind.

### Report

A rendering is a set of entries, each standing for some findings and accepted
or not, a number of units that are only counted, and what is said of the whole
scan.  The findings are built cell by cell, sorted by `FindingKey`, and rendered
by the options: `Body` is what a format lists of the findings it is given, and
`Page` adds what it says of the scan.  An order is a function from what is
sorted to sequences of numbers, of which the first difference decides.  The
code's sort is stable and `sortFindings` compares neither the kind of resource
nor, past its number, the control; `FindingKey` ends in both, in the order in
which `Evaluate` merges, so that equal findings stay as they were.  Whatever depends on the order (the first finding of a control,
the worst resources, the results under the cap) depends on it in the model.

### JobConfig, Controls and Access

A configuration is a record of the fields that are read.  A field with a
`...Known` flag is a pair, and an unread one holds Go's zero, as in the code.
A policy is a chain of rules in which the first that applies decides.
`Access` is what the two are for: the controller and the job do not change
(`world`), the account is granted one part after the other (`Grant`), each time
a scan is made, and the verdicts are compared with the ones before.  The
operators under "What is so" read the world itself and never what a scan made
of it.  Of placement only "does not run on the controller" is held
against the world: the code compares label expressions case-folded and always
counts `master` and `built-in` among the node's labels, both on the safe side.
`MayEscape` is what cis-2.1.2 asks: some script is not known to be in the sandbox,
its flag being off or missing.  What has no flag is not looked at
(`findScripts`), so `ConclusionsAreSo` speaks of a PASS or NA of cis-2.1.2 only where
every script has one (`Flagged`), and `PassReadsEveryFlag` shows the rest.  The
node list may not hold the built-in node (`listed`).
No bundled policy reads the placement; it is in the snapshot only.

## Runs

| Run | Instance | Shows | Distinct states |
|---|---|---|---|
| `job_walk` | `JobWalkMC`: eight items three levels deep, two starting trees, eight ways of scoping, two stray items, three foreign listings, depth limit 2, two changes | no job lost or taken twice; no container listed outside the folders named, and no job out of scope but by a lookup answered with another item; the walk ends | 149 094 |
| `job_walk_unlisted` | the same | a folder can be both read and named unlisted (see below) | |
| `job_pool` | `JobPoolMC`: three jobs, two slots | all interleavings with refusals and a deadline | 25 976 |
| `request` | `RequestMC`: two retries, five redirects (the code's own), two final statuses | one call is one `Get` | 1 916 |
| `fetch` | `FetchMC`: two listings, two jobs | what fails, what degrades, what is available | 250 542 |
| `evaluate` | `EvaluateMC`: three jobs, two workers, two controls about jobs and one about the controller, sixteen inputs | two workers are one worker; the producer is never left alone | 57 244 |
| `verdict` | `VerdictMC`: three controls, two jobs, up to two of four exceptions, thirty sets of thresholds | score, waivers, warnings and exit code agree; repairing or accepting never hurts | 2 951 495 |
| `scan` | `ScanMC`: two invocations, two paths, two jobs, two controls, thirty-four command lines and configurations, two days | a verdict means a delivered report; a snapshot from disk is the one that was taken, and judged alike but for what lapsed; every name in a configuration counts; files stay whole | 674 928 |
| `progress` | `ProgressMC`: two fetch goroutines, six things to tell, widths up to three | the row is never shared, and the report begins on an empty one that nobody draws on | 2 954 |
| `report` | `ReportMC`: three controls, one of each kind, up to two jobs, one with the controller's name; every combination of verdicts, eleven command lines | nothing hidden, nothing partial looks clean, caps keep the worst, advice fits | 305 536 |
| `access` | `AccessMC`: every shape of definition, script, trigger and placement, on controllers of each kind | what was concluded stays concluded when more can be read, and is so | 1 022 505 |
| `access_flags` | the same | a PASS of cis-2.1.2 that did not read every flag (see below) | |

Why the bounds are enough.  `JobWalkMC` has a folder below the depth limit, a
multibranch project with a branch, a job beside each folder, targets that
contain one another in either order, a repeated target and targets of the wrong
kind; two changes allow a deletion before and another after a listing, or a
deletion and a re-creation.  The strays are a folder and a job, the foreign
listings an empty one, the top level's and an inner folder's, so that one is
taken where it fits and refused where it does not.  Three jobs through two slots leave one goroutine
waiting for a slot that a success, a refusal and a cancellation each have to
free.  `RequestMC` uses the constants of the code.  Two listings let an
unlisted container come before or after a listed one, which is all that
`available["jobs"]` can tell apart; with two jobs one can be read and the other
cut off.  Three jobs on two workers make one job wait behind another that
judges, fails to encode or is cut.  `VerdictMC` has one control of each kind
there is (about the controller, about jobs, answerable by no API) and each
threshold off, at its ends and between; two exceptions can overlap, repeat each
other or lapse.  Scores over many findings differ from those over few only in
the rounding.  Two invocations of `Scan` are a scan and one that reads or
overwrites what it left, on the same day or the next, with an exception that
lapses in between; and two paths let `--snapshot-out` and `--output-file` be
one file or two.  `Progress` needs a goroutine that waits for the lock while another holds
it and the rotor is due; six things to tell let each happen twice.  `Report`
sets the SARIF cap to 2 and the names of unread controls to 1, so that both cut
in the middle of what three controls on three resources give; a
second job is enough for a sweep and for one finding of an aggregate to be
accepted and the other not.  In `Access` the worlds are enumerated and need no
bound; one job suffices since no policy reads two.

Deadlock is not checked where the system stops by design: each of these
components ends, and each cfg says what its end is.

Type invariants are not run as properties of their own: they are proved, see
below, in every module whose properties are.

### Fairness

* `JobWalk`: weak fairness of the walking goroutine.  Go runs a runnable
  goroutine, and every request it makes ends, because the client bounds each
  attempt by its timeout and their number by `MaxRetries`.
* `JobPool`: weak fairness of the caller and of each goroutine, not of the
  context: nothing relies on the deadline.  Weak fairness suffices for the
  semaphore, since a slot that is free stays takeable until it is taken and a
  finite number of goroutines compete for it.
* `Request`: weak fairness of the call: timers fire and `http.Client.Timeout`
  ends an exchange.
* `Fetch`: weak fairness of `Fetch` itself and of the request under way.
* `Evaluate`: weak fairness of the caller, of the send and of each worker: a
  send for which a receiver waits goes through, and policies terminate.
* `Progress`: weak fairness of what a thread does without the lock, strong
  fairness of taking it and of the rotor's `stop` case.  `sync.Mutex` hands
  itself over to whoever has waited for a millisecond (its starvation mode),
  and a `select` with two ready cases chooses by chance, so the ticker cannot
  win for ever.  Nothing is assumed of how much the fetch has to tell.
* `Verdict`, `Scan`, `Report` and `Access` state no liveness: one process that
  does one thing after the other.

## Disagreements with the documentation

Two are shown by a run:

* `snapshot.go:71-73` says of `Unlisted` that the jobs inside a container named
  there are missing from `Jobs`.  The walk does not keep that: `enumerate` enters
  a `--folder` target however deep it lies (`fetcher.go:557`), while the walk of
  an enclosing target stops at `maxFolderDepth` and unlists the folder without
  looking whether it has been listed (`fetcher.go:428-432`).  With `--folder`
  given for both, the deep folder's jobs are in the snapshot and the folder is in
  `Unlisted`.  It errs on the safe side: the scan counts as incomplete.
  (`job_walk_unlisted`)
* cis-2.1.2 (`check.rego:10-11`) says that PASS needs every script's flag read.
  `findScripts` (`scripts.go:71`) leaves out an element without a `<sandbox>` flag, and
  the other scripts decide.  (`access_flags`)

Others were met while modelling, and none has a run of its own:

* `README.md:256` says that `--folder` and `--job` read only what they name.
  `lookup` takes whatever full name the answer carries (`fetcher.go:588-593`), and
  `enumerate` appends it to the jobs (`fetcher.go:570`): a `--job` answered with
  another item has that item read and judged.  Listings are checked against just
  this (`fetcher.go:417-424`).  In `JobWalk` that item is `Mistaken`, and
  `NothingOutOfScope` says that nothing else gets out of scope.
* `table.go:57-58` says that a `--details` filter that matches nothing is an
  error and not a report that looks clean.  `parseDetailFilters` asks that of
  each value alone, and `filterFindings` (`lines.go:401`) joins controls and
  resources with AND: a control and a resource that have no finding in common
  give a page without a finding.
* `README.md:428-430` says that a snapshot can be evaluated again later and
  produces byte-identical findings.  An exception applies until its last day by the clock
  of the evaluation (`engine.go:341`), and the waiver is part of the finding: once it
  lapsed, the findings differ.  `SameFromDisk` says what does hold.
* `report.go:43-44` and `51-52` say that JSON and SARIF carry every finding.
  SARIF caps its results, merges those no API can answer and has none for PASS
  and NA; it says how many it withheld, which is what `NothingHidden` asks.
* `engine.go:271` says that disabled jobs are skipped "here as well as in the
  fetcher".  The fetcher reads them and `Evaluate` alone skips them, which is
  what makes `SameFromDisk` hold.
* `scan.go:374-375` says that warnings arrive from the fetch's goroutines.  All
  of them come from the caller, before the goroutines start.
* `config.go:131` speaks of the duration of a scan; `scan.maxDuration` bounds
  `Fetch` alone (`scan.go:413-419`).
* `main.go:18-19` and `fetcher.go:62` speak of two requests per job; there is one.
* `table.go:261-263` says that the overview's count of failed controls is that of
  the closing line.  `failureSummary` leaves out what is accepted or below the
  threshold; `failedControls` does not.
* `auditPluginNames` accepts a name with blanks around it, which then matches no
  plugin: unlike the names of controls, it is compared as it is written.
* A job named `controller` shares the controller's section in the table, and
  hides the sweep of a control that failed on all jobs.  `ReportMC` has such a
  job; neither hides a finding.

## Proofs

TLAPS checks every theorem for all values of the constants, given the
assumptions named in the modules: `TreeAssumption`, `AnswerAssumption`, `FlagAssumption`,
`SizeAssumption`, `LimitAssumption`, `BoundAssumption`, `EvaluateAssumption`,
`VerdictAssumption`, `PrivateFileAssumption`, `ScanAssumption`,
`ContentAssumption` (a disk can hold every snapshot and report there is, and
holds no capture of a later invocation),
`ProgressAssumption`, `AccessAssumption` (which documents Jenkins writes: a job
of its own making has no script where only plugins put one, and a flag is on,
off or absent) and
`ReportAssumption` (numbers are numbers, and there are finitely many jobs).
TLC evaluates each of them on its instance.  Every proof module has an inductive
invariant, `Init => IInv`, one lemma per conjunct (or per action) for
`IInv /\ [Next]_vars => IInv'`, and the properties as consequences.  Each
contains type correctness, or, for `Scan`, `Report` and `Access`, as much of it
as the proofs need.

Every safety invariant and every action property of a passing run is a theorem,
and so is the safety part of every refinement.

* `JobPoolProofs`: all four safety properties.  `IInv` ties the counters to the
  places of the goroutines: `wg` is the number alive, `sem` the number holding
  a slot, `done` the number that were handed a count, and the counts handed out are
  distinct and at most `done`.  `ConcurrencyBound` alone is not inductive: it
  needs that `sem` really counts the holders.
* `RequestProofs`: all invariants, that the last attempt decides what a call
  returns, and `SafelyImplementsGet`, the safety part of `ImplementsGet`.
  `IInv` says for every place in the loop what the history can have been.
* `JobWalkProofs`: all invariants.  The core is
  `Covered`: for a job in scope that was always there, and a container already
  listed on the way to it, the job is found, lies below an unlisted container,
  or is still due — in some frame's `todo`, or behind the container `call`
  names.  When the walk is over no frame is left, so nothing is due, which is
  `NoJobLost`.  `Frames` says that only frames
  between `base` and `at` still hold items; `FoundOnce` that, in a walk of the
  whole tree, a job that was found is not due again in its holder's listing.
  `OnlyInScope` rests on `BaseAnswered`: the container `enumerate` called
  `listJobs` on is one that can be listed, or its lookup brought another item.
* `FetchProofs`, of `Fetch`: all four safety properties.  `DeadlineFails` is not inductive:
  four optional reads take the context's error for the controller's, and go on.
  `Late` says why they get away with it: once a read was cut off, the request
  under way was begun on a dead context and can only be cancelled, and the
  listings, of which there is at least one, are not got past that way.
* `FetchProofs`, of `Progress`: `RowIsClean`, for any number of threads and any
  widths.  `LockHeld` says who holds the lock at which place, `RotorOver` that
  the rotor has ended where `done` is closed, and so where the caller is past its
  wait, and `RowKnown` that the row shows what `last` says and nothing when another
  line is printed.
* `EvaluateProofs`, of `Evaluate`: type correctness, that no two workers hold
  one index, and `SomeoneReceives`.  `IInv` says which workers exist in each
  phase of the caller, that `wg` counts those that are looping, and that an
  index is held from its receipt to the worker's return and was sent before;
  without that last part a new index could be one that somebody still holds.
  `SafelyImplementsEvaluation` adds what has been written (`Faithful`): a slot
  covers its job's controls up to the one being judged, the report what the caller
  judged and merged so far, and an index that was sent is held, judged, or an
  encoding error has been recorded; the last is why nobody returns a report with a
  job missing, and the first two are closed under appending and joining
  (`CoversOneMore`, `CoversJoined`).  `Evaluation` chooses each entry of its report by
  its place in the order; `ReadingIs` says that a sequence that rises is the only
  such choice, so that the report returned is the one promised.
* `EvaluateProofs`, of `Access`: `IgnoranceNeverDecides` and `ConclusionsAreSo`,
  for every set of worlds.  `InTurn` says that what was read and concluded is a
  function of the world and of the parts granted (`ReadController`, `FetchJob`,
  `VerdictsOn`); then the action property is monotony in the parts
  (`ControllerMonotone`, `JobMonotone`, `PlacementMonotone`), and
  `ConclusionsAreSo` follows rule by rule from what a document says
  (`ScriptsAreSo`, `StartsAreSo`, `WhereItBuildsFrom`, `PlacementIsSo`).  `Decided` and
  `PlacedForGood` carry a conclusion from one scan to the next, since a part is
  granted two steps before it is read.
* `VerdictProofs`: all five.  `IInv` says that the gates before `gate` have passed
  and that the exit code is the last one's answer.  `AcceptingIsSafe` rests on
  `SmallerShare`: taking findings out of both sides of the manual quotient
  never raises it, as long as `maxManual` is at most 100, which `Validate`
  sees to.  `WarningsAreSafe` rests on `Applied`: what is accepted is the union
  of what the exceptions match one by one, and those warned of match nothing.
  `FixingIsSafe` moves one cell from one status to another: `WeightOf` is a sum of
  three products, one per severity, so that the two sums differ by one weight,
  and the floored quotient with them in the right direction.
* `ScanProofs`, of `PrivateFile`: `FileSpec` implements `WholeFile`.  `TempSound`
  says step by step what the temporary file is: private from its creation, and
  whole and synced at `close` unless the call is already broken.
* `ScanProofs`, of `Scan`: `ImplementsWholeFile`, `ReportIsTheVerdict`,
  `SameFromDisk` and `EveryNameHeeded`.
  The files' invariant needs to know that nobody but `Scan` begins a call, and
  `Scan`'s needs what a returned call left on the disk, so they are proved
  together (`Together`).  `Saves` ties a step that waits to the call it began;
  `Logged` says of the earlier invocations what `InMemory` says of this one.
  `LaterNeverMilder` is `SameFromDisk`.  It rests on `RoundTrip` (what is encoded
  and decoded is what it was, omitted fields included) and on `Faithful`: whatever
  files were torn, lost or overwritten, two copies of one capture, on disk, in a
  write under way or in memory, are equal, and only the invocation under way can
  make a capture of its own.  `Lapsing` and `StricterVerdict` then compare
  what two days accept.
  `NamesAreHeeded` needs that `Load` gives each key the value of the last
  document that has it (`LoadIsLastSaid`), for any number of documents.
* `ReportProofs`: all four.  `ReportInv` says that there is one finding for each
  cell judged, that `findings` is them sorted, and that the page is the one
  `Page` makes.  `Enumerates` says that sorting by keys that all differ gives a
  sequence of all there is, in order, each once; `Capped` that what a cap cuts off
  is as many as is counted and comes no earlier.  The keys of findings,
  results and sections are shown to be an order (`KeysAreOrdered`) and to differ
  (`FindingsCompare`, `ResultsCompare`, `SectionsAre`).  Then a lemma for each
  format says which findings it lists.

Two lemmas are about recursive definitions and hold for every length:
`LoadIsLastSaid`, and the least element of a set of numbers (`Least`).  No theorem
with an operator for a parameter is used: a least counterexample is taken, by
well-foundedness (`WFMin`) of inclusion on finite sets, and refuted.

Model-checked only:

* liveness (`WalkEnds`, `PoolEnds`, `FetchEnds`, `ClearReturns`, the liveness
  part of `ImplementsGet` and of `ImplementsEvaluation`), because the prover does
  not handle fairness.

## Not modelled

XML and YAML decoding, OPA itself and JSON: libraries, taken for what `src/`
uses of them.  TLS set-up and URL hygiene (`tls.go`, `urls.go`): string work
without state, whose refusals are one outcome of `Connect`.  The registry loads
embedded data once and yields the constants of other modules.  Controls that
are MANUAL whatever was read have no rule to model.  The console layout and all
wording: no property is about them.  `init`, `list-checks`, `version` and the
build information print or write a constant.  The scripts under `hack/` are a
test harness.
