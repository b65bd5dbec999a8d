------------------------------- MODULE Fetch -------------------------------
(***************************************************************************)
(* Fetcher.Fetch of internal/ci/jenkins/fetcher.go: the controller's       *)
(* endpoints one after the other, then the job tree, then the jobs, all    *)
(* under one context.  Some reads fail the scan, most degrade: a snapshot  *)
(* says of each part whether it is available.  Every request is a Get; the *)
(* walk and the pool of jobs are JobWalk and JobPool, of which this module *)
(* keeps what they tell Fetch.                                             *)
(***************************************************************************)
EXTENDS Naturals

CONSTANTS
  MaxListings,   \* bound: containers the walk lists
  MaxJobs        \* bound: jobs it finds

ASSUME BoundAssumption == MaxListings \in Nat \ {0} /\ MaxJobs \in Nat

Refusals == {"401", "403", "404", "405", "302"}

(* deniedNotBroken: the controller said no, which is not a failure.        *)
DeniedNotBroken == {"401", "403", "404", "405"}

(* The reads that degrade to MANUAL whatever goes wrong with them.         *)
Optional == {"agents", "plugins", "updateSite", "credentials"}
Keys == {"root", "jobs"} \cup Optional

VARIABLES
  ctx, late, result,   \* the request under way: a Get
  credentialed,        \* Client.HasCredentials
  opensToAll,          \* the controller serves its API to anonymous clients
  at,                  \* the read under way, "configs", or how Fetch returned
  rootAnswer,          \* history: what the read of the root came to
  available,           \* controller.Available
  anonymous,           \* Security.AnonymousRead and AnonymousReadKnown
  storesSeen,          \* history: what the credentials page held
  listings,            \* containers listed so far
  unlisted,            \* how many of them could not be
  pending,             \* jobs whose configuration is still to be read
  ctxErr,              \* firstErr of fetchJobs
  cut,                 \* history: the reads that failed on a dead context
  snapshot             \* snap.Controller.Available of the snapshot returned

get == <<late, result>>
known == <<rootAnswer, available, anonymous, storesSeen>>
jobs == <<listings, unlisted, pending, ctxErr>>
given == <<credentialed, opensToAll>>
vars == <<ctx, get, given, at, known, jobs, cut, snapshot>>

Request == INSTANCE Get
  WITH Refusals <- Refusals, ctx <- ctx, late <- late, result <- result

Reads == {"root", "probe", "listing"} \cup Optional
NotYet == [k \in Keys |-> FALSE]

TypeOK ==
  /\ Request!TypeOK
  /\ given \in BOOLEAN \X BOOLEAN
  /\ at \in Reads \cup {"configs", "returned", "failed"}
  /\ rootAnswer \in {"none", "page"} \cup Request!Outcomes
  /\ available \in [Keys -> BOOLEAN]
  /\ anonymous \in {"unknown", "allowed", "denied"}
  /\ storesSeen \in {"none", "partial", "whole"}
  /\ listings \in 0 .. MaxListings
  /\ unlisted \in 0 .. MaxListings
  /\ pending \in 0 .. MaxJobs
  /\ ctxErr \in BOOLEAN
  /\ cut \subseteq Reads \cup {"configs"}
  /\ snapshot \in [Keys -> BOOLEAN]

Init ==
  /\ Request!Init
  /\ credentialed \in BOOLEAN
  /\ opensToAll \in BOOLEAN
  /\ at = "root"
  /\ rootAnswer = "none"
  /\ available = NotYet
  /\ anonymous = "unknown"
  /\ storesSeen = "none"
  /\ listings = 0
  /\ unlisted = 0
  /\ pending = 0
  /\ ctxErr = FALSE
  /\ cut = {}
  /\ snapshot = NotYet

-----------------------------------------------------------------------------
(* Between two reads *)

Answered(read) == at = read /\ result # "pending"

(* A success may still carry a page that is not the API's JSON.            *)
Decoded == result = "ok"
Cut(read) == cut' = IF ctx = "dead" THEN cut \cup {read} ELSE cut

Ask(read) ==
  /\ at' = read
  /\ result' = "pending"
  /\ late' = (ctx = "dead")

(* The controller denies its API only to clients it does not admit.        *)
RequestStep ==
  /\ at \in Reads
  /\ Request!Next
  /\ at = "probe" /\ result' \in {"401", "403"} => ~opensToAll
  /\ UNCHANGED <<given, at, known, jobs, cut, snapshot>>

-----------------------------------------------------------------------------
(* fetchController *)

RootRead ==
  /\ Answered("root") /\ Decoded
  /\ rootAnswer' = "ok"
  /\ available' = [available EXCEPT !["root"] = TRUE]
  /\ Ask("probe")
  /\ UNCHANGED <<ctx, given, anonymous, storesSeen, jobs, cut, snapshot>>

(* Mutant: a read that failed altogether degrades like a denied one.       *)
MutantTolerable(answer) == answer # "ok"

(* What the root may answer without failing the scan: a denial, but not of *)
(* the credentials, and not by a URL that is no controller's root.         *)
Tolerable(answer) ==
  /\ answer \in DeniedNotBroken
  /\ ~(answer = "401" /\ credentialed)
  /\ answer # "404"

RootDenied ==
  /\ Answered("root") /\ ctx = "live"
  /\ Tolerable(result)
  /\ rootAnswer' = result
  /\ Ask("probe")
  /\ UNCHANGED <<ctx, given, available, anonymous, storesSeen, jobs, cut, snapshot>>

RootFailed ==
  /\ Answered("root")
  /\ \/ result # "ok" /\ (ctx = "dead" \/ ~Tolerable(result))
     \/ result = "ok"   \* a page that does not decode
  /\ rootAnswer' = IF result = "ok" THEN "page" ELSE result
  /\ Cut("root")
  /\ at' = "failed"
  /\ UNCHANGED <<ctx, get, given, available, anonymous, storesSeen, jobs, snapshot>>

(* ProbeAnonymous.  The API's root object is served only to those it       *)
(* admits; a sign-in page, a redirect and a failure settle nothing.        *)
(* Mutant: a 200 is taken for access.                                      *)
MutantVerdict(answer, isRoot) ==
  CASE answer = "ok" -> "allowed"
    [] answer \in {"401", "403"} -> "denied"
    [] OTHER -> "unknown"

Verdict(answer, isRoot) ==
  CASE answer = "ok" /\ isRoot -> "allowed"
    [] answer \in {"401", "403"} -> "denied"
    [] OTHER -> "unknown"

Probe ==
  /\ Answered("probe")
  /\ \E isRoot \in BOOLEAN :
       /\ isRoot => result = "ok" /\ opensToAll
       /\ anonymous' = Verdict(result, isRoot)
  /\ IF result \in {"broken", "cancelled"} THEN Cut("probe") ELSE UNCHANGED cut
  /\ Ask("agents")
  /\ UNCHANGED <<ctx, given, rootAnswer, available, storesSeen, jobs, snapshot>>

After == [agents |-> "plugins", plugins |-> "updateSite", updateSite |-> "credentials"]

(* fetchNodes, fetchPlugins and fetchUpdateSite do not look at the context.*)
OptionalRead(k) ==
  /\ Answered(k) /\ k \in DOMAIN After
  /\ \/ Decoded /\ available' = [available EXCEPT ![k] = TRUE] /\ UNCHANGED cut
     \/ UNCHANGED available /\ Cut(k)
  /\ Ask(After[k])
  /\ UNCHANGED <<ctx, given, rootAnswer, anonymous, storesSeen, jobs, snapshot>>

(* fetchCredentials: availability is earned from the body.                 *)
Earned(seen) == seen = "whole"

Credentials ==
  /\ Answered("credentials")
  /\ \/ /\ Decoded
        /\ storesSeen' \in {"none", "partial", "whole"}
        /\ available' = [available EXCEPT !["credentials"] = Earned(storesSeen')]
        /\ UNCHANGED cut
     \/ UNCHANGED <<available, storesSeen>> /\ Cut("credentials")
  /\ Ask("listing")
  /\ UNCHANGED <<ctx, given, rootAnswer, anonymous, jobs, snapshot>>

-----------------------------------------------------------------------------
(* fetchJobs *)

(* Mutant: the job list counts as complete once the walk is over.          *)
MutantMoreOrConfigs(failures) ==
  \/ /\ listings + 1 < MaxListings
     /\ Ask("listing")
     /\ UNCHANGED <<pending, available>>
  \/ /\ at' = "configs"
     /\ pending' \in 0 .. MaxJobs
     /\ available' = [available EXCEPT !["jobs"] = TRUE]
     /\ UNCHANGED get

(* One container listed or one flag looked up, or not; then the next one,  *)
(* or the jobs.                                                            *)
MoreOrConfigs(failures) ==
  \/ /\ listings + 1 < MaxListings
     /\ Ask("listing")
     /\ UNCHANGED <<pending, available>>
  \/ /\ at' = "configs"
     /\ pending' \in 0 .. MaxJobs
     /\ available' = [available EXCEPT !["jobs"] = (failures = 0)]
     /\ UNCHANGED get

Listed ==
  /\ Answered("listing") /\ Decoded
  /\ listings' = listings + 1
  /\ MoreOrConfigs(unlisted)
  /\ UNCHANGED <<ctx, given, rootAnswer, anonymous, storesSeen, unlisted, ctxErr, cut, snapshot>>

(* The request failed on a live context, or brought a listing that is not  *)
(* the container's: that one is judged without a look at the context,      *)
(* which may have died since it arrived.                                   *)
Unlisted ==
  /\ Answered("listing") /\ (Decoded \/ ctx = "live")
  /\ listings' = listings + 1
  /\ unlisted' = unlisted + 1
  /\ MoreOrConfigs(unlisted + 1)
  /\ UNCHANGED <<ctx, given, rootAnswer, anonymous, storesSeen, ctxErr, cut, snapshot>>

(* A lookup of a --folder or --job target fails the scan, whatever the     *)
(* reason.                                                                 *)
LookupRefused ==
  /\ Answered("listing")
  /\ at' = "failed"
  /\ Cut("listing")
  /\ UNCHANGED <<ctx, get, given, known, jobs, snapshot>>

(* Mutant: the walk goes on with the next container.                       *)
MutantListingCut ==
  /\ Answered("listing") /\ result # "ok" /\ ctx = "dead"
  /\ Ask("listing")
  /\ Cut("listing")
  /\ UNCHANGED <<ctx, given, known, jobs, snapshot>>

ListingCut ==
  /\ Answered("listing") /\ result # "ok" /\ ctx = "dead"
  /\ at' = "failed"
  /\ Cut("listing")
  /\ UNCHANGED <<ctx, get, given, known, jobs, snapshot>>

(* One more job's goroutine has ended: with its configuration, with the    *)
(* reason it could not be read, or with the context's error.               *)
JobRead ==
  /\ at = "configs" /\ pending > 0 /\ ctx = "live"
  /\ pending' = pending - 1
  /\ UNCHANGED <<ctx, get, given, at, known, listings, unlisted, ctxErr, cut, snapshot>>

JobCut ==
  /\ at = "configs" /\ pending > 0 /\ ctx = "dead"
  /\ pending' = pending - 1
  /\ ctxErr' = TRUE
  /\ Cut("configs")
  /\ UNCHANGED <<ctx, get, given, at, known, listings, unlisted, snapshot>>

ExpireInPool ==
  /\ at = "configs" /\ ctx = "live"
  /\ ctx' = "dead"
  /\ UNCHANGED <<get, given, at, known, jobs, cut, snapshot>>

(* Mutant: the jobs that were read are returned in spite of the error.     *)
MutantReturn ==
  /\ at = "configs" /\ pending = 0
  /\ at' = "returned"
  /\ snapshot' = available
  /\ UNCHANGED <<ctx, get, given, known, jobs, cut>>

Return ==
  /\ at = "configs" /\ pending = 0
  /\ at' = IF ctxErr THEN "failed" ELSE "returned"
  /\ snapshot' = IF ctxErr THEN snapshot ELSE available
  /\ UNCHANGED <<ctx, get, given, known, jobs, cut>>

-----------------------------------------------------------------------------
Step ==
  \/ RootRead \/ RootDenied \/ RootFailed \/ Probe
  \/ (\E k \in Optional : OptionalRead(k)) \/ Credentials
  \/ Listed \/ Unlisted \/ LookupRefused \/ ListingCut
  \/ JobRead \/ JobCut \/ Return

Next == Step \/ RequestStep \/ ExpireInPool

(* Fetch runs on, and each of its requests ends: Get is implemented by     *)
(* Request.                                                                *)
Spec == Init /\ [][Next]_vars /\ WF_vars(Step) /\ WF_vars(RequestStep)

-----------------------------------------------------------------------------
(* Properties *)

(* The deadline fails a scan and never shapes a snapshot.  The probe and   *)
(* the four optional reads take an error for what the controller says      *)
(* even when it is the context's, so this rests on what comes after them:  *)
(* at least one listing or lookup, which a dead context always fails.      *)
DeadlineFails == at = "returned" => cut = {}

(* A scan that learned nothing about the controller returns no snapshot of *)
(* MANUALs: the root answered, or refused in a way that leaves something   *)
(* to say.                                                                 *)
SomethingWasRead ==
  at = "returned" =>
    rootAnswer \in {"ok", "403", "405"} \/ (rootAnswer = "401" /\ ~credentialed)

(* The anonymous probe concludes nothing that is not so.                   *)
AnonymousIsMeasured ==
  /\ anonymous = "allowed" => opensToAll
  /\ anonymous = "denied" => ~opensToAll

(* The availability a policy reads in the snapshot is what the whole fetch *)
(* established, the walk included, which comes last and speaks for the job *)
(* list.                                                                   *)
AvailabilityIsEarned ==
  at = "returned" =>
    /\ snapshot["root"] <=> rootAnswer = "ok"
    /\ snapshot["credentials"] <=> storesSeen = "whole"
    /\ snapshot["jobs"] <=> unlisted = 0

(* Fetch returns.                                                          *)
FetchEnds == <>(at \in {"returned", "failed"})
=============================================================================
