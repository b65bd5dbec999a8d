------------------------------ MODULE JobWalk ------------------------------
(***************************************************************************)
(* The walk that decides which jobs a scan covers: enumerate, listJobs,    *)
(* lookup and unlist of internal/ci/jenkins/fetcher.go.  One goroutine     *)
(* lists containers one request at a time, while the controller it reads   *)
(* keeps changing, some requests fail, some are answered by something      *)
(* other than the controller, and the context may expire at any moment.    *)
(* An answer is data: what a lookup or a listing holds is judged only as   *)
(* far as the code judges it.                                              *)
(*                                                                         *)
(* A full name such as platform/backend/api is the sequence of its         *)
(* segments; the top level is the empty sequence.                          *)
(***************************************************************************)
EXTENDS Naturals, Sequences

CONSTANTS
  Item,            \* every full name the controller, or an answer, may hold
  Container,       \* the items isContainer reports: folders, not multibranch projects
  Trees,           \* the item sets the scan may start on (visible to its token)
  Scopes,          \* the --folder and --job flags, [folders |-> ..., jobs |-> ...]
  Strays,          \* the items something else may answer a lookup with
  Pages,           \* the listings something else may answer with
  MaxFolderDepth,  \* maxFolderDepth: 64 in the code
  MaxChanges,      \* bound: changes users make to the job tree during the walk
  None             \* no container, no page

TopLevel == <<>>
Place == Item \cup {TopLevel}

(* The folder that holds an item, and every container on the way to it.    *)
Holder(n) == SubSeq(n, 1, Len(n) - 1)
Above(n) == {SubSeq(n, 1, k) : k \in 0 .. Len(n) - 1}

(* Mutant: a listing is taken for the container's, whatever it holds.       *)
MutantAnyItem(c, n) == TRUE

(* childOf: fullName is an item directly inside container.                 *)
ChildOf(c, n) == Len(n) = Len(c) + 1 /\ SubSeq(n, 1, Len(c)) = c

(* A container is held by containers all the way up; a multibranch project *)
(* holds its branch jobs and is not one.                                   *)
ASSUME TreeAssumption ==
  /\ Item \subseteq Seq(STRING) \ {TopLevel}
  /\ \A i \in Item : Above(i) \subseteq Place
  /\ Container \subseteq Item
  /\ \A c \in Container : Above(c) \subseteq Container \cup {TopLevel}
  /\ \A T \in Trees : T \subseteq Item /\ \A i \in T : Above(i) \subseteq T \cup {TopLevel}

(* A listing of something else may hold an item without a full name.       *)
ASSUME AnswerAssumption == Strays \subseteq Item /\ Pages \subseteq SUBSET Place

ASSUME FlagAssumption ==
  /\ \A s \in Scopes : s \in [folders : Seq(Item), jobs : Seq(Item)]
  /\ MaxFolderDepth \in Nat
  /\ MaxChanges \in Nat
  /\ None \notin Place /\ \A listing \in SUBSET Place : listing # None

VARIABLES
  there,     \* the items a listing can hold now
  gone,      \* history: the items missing from the tree at some moment, or from a listing taken
  changes,   \* how often the tree has changed
  ctx,       \* the scan's context: "live", or "dead" once cancelled or past its deadline
  scope,     \* the scoping flags of this scan
  phase,     \* "enumerate", "done" or "failed"
  next,      \* the next target; 0 while the whole tree is still to be walked
  answers,   \* the item each target's lookup was answered with
  base,      \* the container enumerate called listJobs on
  call,      \* the container listJobs has just been called on
  page,      \* the listing received for call and not judged yet, or None
  at,        \* the container whose listing the innermost listJobs is going through
  todo,      \* the items of each listing not gone through yet: listJobs' frames
  listed,    \* f.listed
  unlisted,  \* f.unlisted
  found      \* items: how often each job is in the slice

controller == <<there, gone, changes>>
walk == <<phase, next, answers, base, call, page, at, todo, listed, unlisted, found>>
vars == <<controller, ctx, scope, walk>>

Job == Item \ Container
Targets == scope.folders \o scope.jobs

TypeOK ==
  /\ there \subseteq Item
  /\ gone \subseteq Item
  /\ changes \in 0 .. MaxChanges
  /\ ctx \in {"live", "dead"}
  /\ scope \in Scopes
  /\ phase \in {"enumerate", "done", "failed"}
  /\ next \in 0 .. Len(Targets) + 1
  /\ answers \in Seq(Item)
  /\ base \in Place
  /\ call \in Place \cup {None}
  /\ page = None \/ page \in SUBSET Place
  /\ at \in Place \cup {None}
  /\ todo \in [Place -> SUBSET Item]
  /\ listed \subseteq Place
  /\ unlisted \subseteq Place
  /\ found \in [Item -> Nat]

Init ==
  /\ there \in Trees
  /\ gone = Item \ there
  /\ changes = 0
  /\ ctx = "live"
  /\ scope \in Scopes
  /\ phase = "enumerate"
  /\ next = IF Targets = <<>> THEN 0 ELSE 1
  /\ answers = <<>>
  /\ base = TopLevel
  /\ call = None
  /\ page = None
  /\ at = None
  /\ todo = [c \in Place |-> {}]
  /\ listed = {}
  /\ unlisted = {}
  /\ found = [i \in Item |-> 0]

-----------------------------------------------------------------------------
(* The controller's users create, delete and rename items meanwhile.       *)

Remove(i) ==
  /\ phase = "enumerate" /\ changes < MaxChanges
  /\ i \in there
  /\ LET subtree == {k \in there : k = i \/ i \in Above(k)}
     IN  there' = there \ subtree /\ gone' = gone \cup subtree
  /\ changes' = changes + 1
  /\ UNCHANGED <<ctx, scope, walk>>

Add(i) ==
  /\ phase = "enumerate" /\ changes < MaxChanges
  /\ i \in Item \ there
  /\ Holder(i) \in there \cup {TopLevel}
  /\ there' = there \cup {i}
  /\ changes' = changes + 1
  /\ UNCHANGED <<gone, ctx, scope, walk>>

(* scan.maxDuration passes or the user interrupts.                         *)
Expire ==
  /\ phase = "enumerate" /\ ctx = "live"
  /\ ctx' = "dead"
  /\ UNCHANGED <<controller, scope, walk>>

-----------------------------------------------------------------------------
(* enumerate *)

BetweenTargets == phase = "enumerate" /\ call = None /\ at = None

WalkWholeTree ==
  /\ BetweenTargets /\ next = 0
  /\ call' = TopLevel
  /\ base' = TopLevel
  /\ next' = 1
  /\ UNCHANGED <<controller, ctx, scope, phase, answers, page, at, todo, listed, unlisted, found>>

AtFolderFlag == BetweenTargets /\ next \in DOMAIN scope.folders
AtJobFlag == BetweenTargets /\ next > Len(scope.folders) /\ next \in DOMAIN Targets

(* What a lookup may be answered with: the item the flag names, if it is   *)
(* there, or a stray one.  An answer without a full name takes the flag's. *)
Answers == ({Targets[next]} \cap there) \cup Strays

(* Only the answered item's kind is looked at, and the walk goes on from   *)
(* the name on the flag.                                                   *)
LookupFolder(i) ==
  /\ AtFolderFlag /\ ctx = "live"
  /\ i \in Answers \cap Container
  /\ answers' = Append(answers, i)
  /\ call' = Targets[next]
  /\ base' = Targets[next]
  /\ next' = next + 1
  /\ UNCHANGED <<controller, ctx, scope, phase, page, at, todo, listed, unlisted, found>>

(* The answered item joins the jobs under its own full name.               *)
LookupJob(i) ==
  /\ AtJobFlag /\ ctx = "live"
  /\ i \in Answers \ Container
  /\ answers' = Append(answers, i)
  /\ found' = [found EXCEPT ![i] = @ + 1]
  /\ next' = next + 1
  /\ UNCHANGED <<controller, ctx, scope, phase, base, call, page, at, todo, listed, unlisted>>

(* The lookup failed, the item is of the wrong kind, or the context is     *)
(* dead: an error naming the target, never a scan of nothing.              *)
LookupRefused ==
  /\ AtFolderFlag \/ AtJobFlag
  /\ phase' = "failed"
  /\ UNCHANGED <<controller, ctx, scope, next, answers, base, call, page, at, todo, listed, unlisted, found>>

(* The return of enumerate.  A job named twice is one job; the whole-tree  *)
(* walk returns its items as they are.                                     *)
MutantNoDedup == found
Deduplicated == [i \in Item |-> IF found[i] > 0 THEN 1 ELSE 0]

Finish ==
  /\ BetweenTargets /\ next = Len(Targets) + 1
  /\ found' = IF Targets = <<>> THEN found ELSE Deduplicated
  /\ phase' = "done"
  /\ UNCHANGED <<controller, ctx, scope, next, answers, base, call, page, at, todo, listed, unlisted>>

-----------------------------------------------------------------------------
(* listJobs *)

Called == phase = "enumerate" /\ call # None /\ page = None

ListedBefore ==
  /\ Called /\ call \in listed
  /\ call' = None
  /\ UNCHANGED <<controller, ctx, scope, phase, next, answers, base, page, at, todo, listed, unlisted, found>>

(* The request failed: unlist.                                             *)
ListRefused ==
  /\ Called /\ call \notin listed /\ ctx = "live"
  /\ listed' = listed \cup {call}
  /\ unlisted' = unlisted \cup {call}
  /\ call' = None
  /\ UNCHANGED <<controller, ctx, scope, phase, next, answers, base, page, at, todo, found>>

(* A dead context fails the request, and its error comes first.            *)
ListCancelled ==
  /\ Called /\ call \notin listed /\ ctx = "dead"
  /\ listed' = listed \cup {call}
  /\ phase' = "failed"
  /\ UNCHANGED <<controller, ctx, scope, next, answers, base, call, page, at, todo, unlisted, found>>

(* The listing arrived: the controller's, or something else's.             *)
Children(c) == {i \in there : Holder(i) = c}

ListAnswered ==
  /\ Called /\ call \notin listed /\ ctx = "live"
  /\ \/ call \in there \cup {TopLevel} /\ page' = Children(call)
     \/ page' \in Pages
  /\ listed' = listed \cup {call}
  /\ UNCHANGED <<controller, ctx, scope, phase, next, answers, base, call, at, todo, unlisted, found>>

(* The listing is judged, whatever became of the context meanwhile.        *)
Judging == phase = "enumerate" /\ page # None

(* It holds an item that is not directly inside the container: unlist.     *)
ListForeign ==
  /\ Judging /\ \E n \in page : ~ChildOf(call, n)
  /\ unlisted' = unlisted \cup {call}
  /\ call' = None /\ page' = None
  /\ UNCHANGED <<controller, ctx, scope, phase, next, answers, base, at, todo, listed, found>>

(* What a listing of container c leaves out, with all that is below it.    *)
LeftOut(c, listing) ==
  {k \in Item : \E b \in Above(k) \cup {k} : b # TopLevel /\ Holder(b) = c /\ b \notin listing}

ListTaken ==
  /\ Judging /\ \A n \in page : ChildOf(call, n)
  /\ at' = call
  /\ todo' = [todo EXCEPT ![call] = page]
  /\ gone' = gone \cup LeftOut(call, page)
  /\ call' = None /\ page' = None
  /\ UNCHANGED <<there, changes, ctx, scope, phase, next, answers, base, listed, unlisted, found>>

(* The loop over one listing; the order of its items is the controller's.  *)
Visiting(i) == phase = "enumerate" /\ call = None /\ at # None /\ i \in todo[at]

TakeJob(i) ==
  /\ Visiting(i) /\ i \notin Container
  /\ todo' = [todo EXCEPT ![at] = @ \ {i}]
  /\ found' = [found EXCEPT ![i] = @ + 1]
  /\ UNCHANGED <<controller, ctx, scope, phase, next, answers, base, call, page, at, listed, unlisted>>

Descend(c) ==
  /\ Visiting(c) /\ c \in Container
  /\ Len(c) <= MaxFolderDepth
  /\ todo' = [todo EXCEPT ![at] = @ \ {c}]
  /\ call' = c
  /\ UNCHANGED <<controller, ctx, scope, phase, next, answers, base, page, at, listed, unlisted, found>>

(* Mutant: the depth limit skips the folder without recording it.           *)
MutantSkipTooDeep(c) ==
  /\ Visiting(c) /\ c \in Container
  /\ Len(c) > MaxFolderDepth
  /\ todo' = [todo EXCEPT ![at] = @ \ {c}]
  /\ UNCHANGED <<controller, ctx, scope, phase, next, answers, base, call, page, at, listed, unlisted, found>>

TooDeep(c) ==
  /\ Visiting(c) /\ c \in Container
  /\ Len(c) > MaxFolderDepth
  /\ todo' = [todo EXCEPT ![at] = @ \ {c}]
  /\ unlisted' = unlisted \cup {c}
  /\ UNCHANGED <<controller, ctx, scope, phase, next, answers, base, call, page, at, listed, found>>

(* Mutant: a --folder walk returns into the folder that holds its target.   *)
MutantReturnPastBase ==
  /\ phase = "enumerate" /\ call = None /\ at # None
  /\ todo[at] = {}
  /\ at' = IF at = TopLevel /\ base = TopLevel THEN None ELSE Holder(at)
  /\ UNCHANGED <<controller, ctx, scope, phase, next, answers, base, call, page, todo>>
  /\ UNCHANGED <<listed, unlisted, found>>

(* The loop is over: back to the caller's frame, or to enumerate.          *)
Return ==
  /\ phase = "enumerate" /\ call = None /\ at # None
  /\ todo[at] = {}
  /\ at' = IF at = base THEN None ELSE Holder(at)
  /\ UNCHANGED <<controller, ctx, scope, phase, next, answers, base, call, page, todo>>
  /\ UNCHANGED <<listed, unlisted, found>>

-----------------------------------------------------------------------------
Environment == Expire \/ \E i \in Item : Remove(i) \/ Add(i)

Enumerate ==
  \/ WalkWholeTree \/ LookupRefused \/ Finish
  \/ \E i \in Item : LookupFolder(i) \/ LookupJob(i)

ListJobs ==
  \/ ListedBefore \/ ListRefused \/ ListCancelled \/ ListAnswered \/ ListForeign \/ ListTaken \/ Return
  \/ \E i \in Item : TakeJob(i) \/ Descend(i) \/ TooDeep(i)

Walk == Enumerate \/ ListJobs
Next == Walk \/ Environment

(* The goroutine runs: Go's scheduler never abandons a runnable one, and   *)
(* the client bounds every request (module Request).                       *)
Spec == Init /\ [][Next]_vars /\ WF_vars(Walk)

-----------------------------------------------------------------------------
(* Properties *)

(* The jobs a listing of container c and of everything below it leads to:  *)
(* a multibranch project is one job, so its branches are not among them.   *)
Leads(c, j) == c \in Above(j) /\ Holder(j) \in Container \cup {TopLevel}

InScopeOfFolders(j) ==
  \/ Targets = <<>> /\ Leads(TopLevel, j)
  \/ \E k \in DOMAIN scope.folders : Leads(scope.folders[k], j)

InScope(j) == InScopeOfFolders(j) \/ \E k \in DOMAIN scope.jobs : scope.jobs[k] = j

(* A target whose lookup was answered with another item than it names.     *)
Strayed(k) == k \in DOMAIN answers /\ answers[k] # Targets[k]

(* What came of such answers: an item for a --job, and for a --folder that *)
(* names a job what a listing of that job holds, the branches of a         *)
(* multibranch project for one.                                            *)
Mistaken(i) ==
  \E k \in DOMAIN answers :
    /\ Strayed(k)
    /\ \/ k > Len(scope.folders) /\ i = answers[k]
       \/ k <= Len(scope.folders) /\ Targets[k] \notin Container /\ Targets[k] \in Above(i)

(* No job is lost in silence: when the walk ends well, every job in scope  *)
(* that was there throughout, in the tree and in every listing taken, is   *)
(* either found or inside a container that is named as unlisted - whatever *)
(* failed, was deleted or renamed, and however the --folder flags overlap. *)
(* Only a --job whose lookup brought another item is missing unsaid.       *)
NoJobLost ==
  phase = "done" =>
    \A j \in Job \ gone :
      \/ InScopeOfFolders(j)
      \/ \E k \in DOMAIN scope.jobs : scope.jobs[k] = j /\ ~Strayed(Len(scope.folders) + k)
      => found[j] > 0 \/ Above(j) \cap unlisted # {}

(* A job that several flags name, or that lies in several of the named     *)
(* folders, is in the snapshot once; the whole-tree walk needs no          *)
(* deduplication for this.                                                 *)
EachJobOnce == phase = "done" => \A i \in Item : found[i] <= 1

(* The containers the flags name.                                          *)
Roots == IF Targets = <<>> THEN {TopLevel} ELSE {scope.folders[k] : k \in DOMAIN scope.folders}

(* Whatever a listing holds, the walk stays inside the folders it was sent *)
(* into: it asks for no container outside them, takes no folder for a job  *)
(* and, but for a lookup answered with another item than the flag names,   *)
(* brings no job that was not asked for and no branch of a multibranch     *)
(* project.                                                                *)
NothingOutOfScope ==
  /\ \A c \in listed : (Above(c) \cup {c}) \cap Roots # {}
  /\ \A i \in Item : found[i] > 0 => i \in Job /\ (InScope(i) \/ Mistaken(i))

(* The walk ends, on any tree and any answers.                             *)
WalkEnds == <>(phase \in {"done", "failed"})

(* What snapshot.go says of Controller.Unlisted: it names the containers   *)
(* whose job list could not be read, and the jobs in them are missing.  A  *)
(* folder named by --folder can be below the depth at which the walk of    *)
(* another named folder gives up: it is read and unlisted.                 *)
UnlistedJobsMissing ==
  phase = "done" =>
    \A j \in Job : found[j] > 0 /\ Holder(j) \in unlisted =>
      \E k \in DOMAIN answers : k > Len(scope.folders) /\ answers[k] = j

=============================================================================
