------------------------------- MODULE ScanMC -------------------------------
(***************************************************************************)
(* Two invocations over two paths: two jobs, one of them disabled; a       *)
(* control about jobs and one about the controller; every way to be        *)
(* misused; a snapshot written, read, rewritten and overwritten by its own *)
(* report; an exception that lapses between the two; and documents that    *)
(* say, override, misspell or spoil a setting.                             *)
(***************************************************************************)
EXTENDS Scan

CONSTANTS s, r, j1, j2, plugins, script

MCPlain ==
  [format |-> "known", legacyFormat |-> "unset", narrowed |-> FALSE, maxResources |-> "unset",
   details |-> FALSE, url |-> TRUE, username |-> TRUE, token |-> TRUE,
   in |-> None, out |-> None, report |-> None,
   given |-> Absent, places |-> <<Absent, Absent, Absent>>, sets |-> <<>>]

MCMisused ==
  {[MCPlain EXCEPT !.legacyFormat = "disagrees"],
   [MCPlain EXCEPT !.in = s, !.narrowed = TRUE],
   [MCPlain EXCEPT !.maxResources = "some"],
   [MCPlain EXCEPT !.details = TRUE, !.maxResources = "negative"],
   [MCPlain EXCEPT !.format = "unknown"],
   [MCPlain EXCEPT !.url = FALSE],
   [MCPlain EXCEPT !.username = FALSE]}

MCSkip == [skipDisabledJobs |-> TRUE]

MCPadded(id) == [id |-> id, upper |-> FALSE, padded |-> TRUE]
MCAccept(name) ==
  [control |-> name, resources |-> {"controller", j1}, reason |-> TRUE, expires |-> 0]
MCTolerant == [exceptions |-> {MCAccept(MCPadded(script))}]

MCWriters ==
  {[MCPlain EXCEPT !.out = s, !.legacyFormat = "agrees"],
   [MCPlain EXCEPT !.out = s, !.sets = <<MCSkip, MCTolerant>>]}

MCReaders ==
  {[MCPlain EXCEPT !.in = s, !.report = r],
   [MCPlain EXCEPT !.in = s, !.sets = <<MCSkip, MCTolerant>>],
   [MCPlain EXCEPT !.in = s, !.out = s, !.report = s]}

(* Documents that can be decoded, then ones that spoil the configuration.  *)
MCGood ==
  {[include |-> {MCPadded(script)}, exceptions |-> {MCAccept(MCPadded(plugins))}],
   [exclude |-> {MCPadded(script)}, failOn |-> "none", allowIncomplete |-> TRUE]}

MCBad ==
  {[include |-> {Exact(Blank)}], [exclude |-> {Exact("unknown")}],
   [exceptions |-> {MCAccept(Exact("unknown"))}],
   [exceptions |-> {[MCAccept(Exact(script)) EXCEPT !.expires = NoDate]}],
   [minApprover |-> 1], [updateSiteMaxAgeDays |-> -1],
   [caFile |-> TRUE, insecure |-> TRUE], [concurrency |-> 0],
   [exclude |-> {Exact(plugins), Exact(script)}]}

MCConfigured ==
  {[MCPlain EXCEPT !.places = <<Absent, [exclude |-> {MCPadded(plugins)}], MCSkip>>,
                        !.narrowed = TRUE, !.details = TRUE, !.maxResources = "some"]}
  \cup {[MCPlain EXCEPT !.given = d, !.places = <<MCSkip, Absent, Absent>>] : d \in MCGood \cup MCBad}
  \cup {[MCPlain EXCEPT !.places = <<Absent, Absent, [failOn |-> "none"]>>,
                        !.sets = <<[failOn |-> "low"], [failOn |-> "high"]>>]}
  \cup {[MCPlain EXCEPT !.sets = <<d>>] : d \in MCBad}

MCOptions == <<MCMisused \cup MCWriters \cup MCConfigured, MCReaders>>

(* A file of an older build, and one that somebody edited.                 *)
MCOld == [Zero EXCEPT !.jobs = {j1, j2}, !.schemaVersion = "another", !.platform = "jenkins"]
MCEdited ==
  [kind |-> "snapshot", jobs |-> {j1}, schemaVersion |-> "this build's", platform |-> "jenkins"]

MCContent ==
  {MCOld, MCEdited} \cup {Encode(snap) : snap \in Snapshots} \cup
  [kind: {"report"}, of: Snapshots, controls: SUBSET Control, errors: BOOLEAN,
   judged: SUBSET Job, accepted: SUBSET (Control \X Job), on: 0 .. LastDay]

(* Nothing, or the older file, that everybody can read.                    *)
MCBefore ==
  {NoFile, [content |-> MCOld, whole |-> TRUE, private |-> FALSE, synced |-> TRUE]}
=============================================================================
