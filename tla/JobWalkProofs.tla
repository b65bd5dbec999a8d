--------------------------- MODULE JobWalkProofs ---------------------------
(***************************************************************************)
(* The walk of the job tree, for every tree, every set of flags, every     *)
(* depth limit, any number of changes made meanwhile and any answers of    *)
(* something else: no job is lost in silence, none is scanned twice, and   *)
(* the walk stays inside the folders it was sent into.                     *)
(***************************************************************************)
EXTENDS JobWalk, Integers, SequenceTheorems, TLAPS

Name == Seq(STRING)

-----------------------------------------------------------------------------
(* Full names and the containers on the way to them                        *)

(* A prefix of a name is a name, and a prefix of a prefix is a prefix.     *)
LEMMA Prefixes ==
  ASSUME NEW s \in Name, NEW k \in 0 .. Len(s)
  PROVE  /\ SubSeq(s, 1, k) \in Name
         /\ Len(SubSeq(s, 1, k)) = k
         /\ \A m \in 0 .. k : SubSeq(SubSeq(s, 1, k), 1, m) = SubSeq(s, 1, m)
  <1>1. \A n \in 0 .. Len(s) : \A i \in 1 .. n : s[i] \in STRING
    BY ElementOfSeq DEF Name
  <1>2. ASSUME NEW n \in 0 .. Len(s)
        PROVE  /\ SubSeq(s, 1, n) \in Name
               /\ Len(SubSeq(s, 1, n)) = n
               /\ \A i \in 1 .. n : SubSeq(s, 1, n)[i] = s[i]
    BY <1>1 DEF Name
  <1>3. ASSUME NEW m \in 0 .. k PROVE SubSeq(SubSeq(s, 1, k), 1, m) = SubSeq(s, 1, m)
    <2> DEFINE t == SubSeq(s, 1, k)
    <2>1. t \in Name /\ Len(t) = k /\ \A i \in 1 .. k : t[i] = s[i]
      BY <1>2
    <2>2. m \in 0 .. Len(s)
      BY DEF Name
    <2> QED
      BY <2>1, <2>2, <1>2 DEF Name
  <1> QED
    BY <1>2, <1>3

(* The containers above a name are its proper prefixes.                    *)
LEMMA AboveIs ==
  ASSUME NEW s \in Name, NEW a
  PROVE  a \in Above(s) <=> a \in Name /\ Len(a) < Len(s) /\ a = SubSeq(s, 1, Len(a))
  <1>1. ASSUME a \in Above(s) PROVE a \in Name /\ Len(a) < Len(s) /\ a = SubSeq(s, 1, Len(a))
    <2>1. PICK k \in 0 .. Len(s) - 1 : a = SubSeq(s, 1, k)
      BY <1>1 DEF Above
    <2>2. k \in 0 .. Len(s) /\ k < Len(s)
      BY DEF Name
    <2> QED
      BY <2>1, <2>2, Prefixes
  <1>2. ASSUME a \in Name, Len(a) < Len(s), a = SubSeq(s, 1, Len(a)) PROVE a \in Above(s)
    <2>1. Len(a) \in 0 .. Len(s) - 1
      BY <1>2 DEF Name
    <2> QED
      BY <1>2, <2>1 DEF Above
  <1> QED
    BY <1>1, <1>2

LEMMA AboveIsTransitive ==
  ASSUME NEW s \in Name, NEW b \in Above(s), NEW a \in Above(b)
  PROVE  a \in Above(s)
  <1>1. b \in Name /\ Len(b) < Len(s) /\ b = SubSeq(s, 1, Len(b))
    BY AboveIs
  <1>2. a \in Name /\ Len(a) < Len(b) /\ a = SubSeq(b, 1, Len(a))
    BY <1>1, AboveIs
  <1>3. Len(b) \in 0 .. Len(s) /\ Len(a) \in 0 .. Len(b)
    BY <1>1, <1>2 DEF Name
  <1>4. SubSeq(b, 1, Len(a)) = SubSeq(s, 1, Len(a))
    BY <1>1, <1>3, Prefixes
  <1>5. Len(a) < Len(s)
    BY <1>1, <1>2, <1>3 DEF Name
  <1> QED
    BY <1>2, <1>4, <1>5, AboveIs

(* The holder is the lowest container above.                               *)
LEMMA HolderIs ==
  ASSUME NEW s \in Name, s # TopLevel
  PROVE  /\ Holder(s) \in Name
         /\ Len(Holder(s)) = Len(s) - 1
         /\ Holder(s) \in Above(s)
         /\ \A a \in Above(s) : a = Holder(s) \/ a \in Above(Holder(s))
         /\ \A c \in Name : ChildOf(c, s) <=> c = Holder(s)
  <1>1. Len(s) \in Nat \ {0}
    BY DEF Name, TopLevel
  <1>2. Len(s) - 1 \in 0 .. Len(s)
    BY <1>1
  <1>3. Holder(s) \in Name /\ Len(Holder(s)) = Len(s) - 1
    BY <1>2, Prefixes DEF Holder
  <1>4. Holder(s) \in Above(s)
    BY <1>1 DEF Holder, Above
  <1>5. ASSUME NEW a \in Above(s), a # Holder(s) PROVE a \in Above(Holder(s))
    <2>1. a \in Name /\ Len(a) < Len(s) /\ a = SubSeq(s, 1, Len(a))
      BY AboveIs
    <2>2. Len(a) \in 0 .. Len(s) - 1 /\ Len(a) # Len(s) - 1
      BY <1>1, <1>5, <2>1 DEF Name, Holder
    <2>3. SubSeq(Holder(s), 1, Len(a)) = SubSeq(s, 1, Len(a))
      BY <1>2, <2>2, Prefixes DEF Holder
    <2> QED
      BY <1>1, <1>3, <2>1, <2>2, <2>3, AboveIs
  <1>6. ASSUME NEW c \in Name PROVE ChildOf(c, s) <=> c = Holder(s)
    <2>1. ASSUME ChildOf(c, s) PROVE c = Holder(s)
      BY <1>1, <2>1 DEF ChildOf, Holder, Name
    <2>2. ASSUME c = Holder(s) PROVE ChildOf(c, s)
      BY <1>1, <1>3, <2>2 DEF ChildOf, Holder
    <2> QED
      BY <2>1, <2>2
  <1> QED
    BY <1>3, <1>4, <1>5, <1>6

(* Below a container on the way to a name comes the next one, or the name. *)
LEMMA NextOnTheWay ==
  ASSUME NEW s \in Name, s # TopLevel, NEW a \in Above(s)
  PROVE  \E b \in Above(s) \cup {s} : b \in Name /\ b # TopLevel /\ a = Holder(b)
  <1>1. a \in Name /\ Len(a) < Len(s) /\ a = SubSeq(s, 1, Len(a))
    BY AboveIs
  <1> DEFINE b == SubSeq(s, 1, Len(a) + 1)
  <1>2. Len(a) \in 0 .. Len(a) + 1 /\ Len(a) + 1 \in 0 .. Len(s) /\ Len(a) + 1 # 0
    BY <1>1 DEF Name
  <1>3. b \in Name /\ Len(b) = Len(a) + 1 /\ SubSeq(b, 1, Len(a)) = a
    BY <1>1, <1>2, Prefixes
  <1>4. b # TopLevel /\ Holder(b) = a
    BY <1>2, <1>3 DEF Holder, TopLevel, Name
  <1>5. CASE Len(b) = Len(s)
    BY <1>1, <1>3, <1>4, <1>5, SubSeqFull DEF Name
  <1>6. CASE Len(b) # Len(s)
    <2>1. Len(b) < Len(s) /\ b = SubSeq(s, 1, Len(b))
      BY <1>2, <1>3, <1>6 DEF Name
    <2>2. b \in Above(s)
      BY <1>3, <2>1, AboveIs
    <2> QED
      BY <1>3, <1>4, <2>2
  <1> QED
    BY <1>5, <1>6

-----------------------------------------------------------------------------
(* The inductive invariant                                                 *)

(* The places that are no job.                                             *)
Listable == Container \cup {TopLevel}

(* The container whose listing has arrived and is not judged yet.          *)
Pending == IF page # None THEN {call} ELSE {}

(* The frames of listJobs lie on the path from base down to at: what is    *)
(* left of a listing belongs to one of them.  Below base they are folders, *)
(* and base is one unless its lookup went astray.                          *)
Frames ==
  /\ \A p \in Place : \A i \in todo[p] : Holder(i) = p
  /\ \A p \in Place : todo[p] # {} =>
       p \in listed /\ at # None /\ p \in Above(at) \cup {at} /\ p \notin Above(base)
  /\ at # None => base \in Above(at) \cup {at}
  /\ call # None /\ at = None => call = base
  /\ call # None /\ at # None => call \in Container /\ Holder(call) = at
  /\ call # None \/ at # None => base \in Roots
  /\ at # None => at \in Listable \cup {base}
  /\ page # None => call # None /\ call \in listed

BaseAnswered ==
  call # None \/ at # None =>
    \/ base \in Listable
    \/ \E k \in DOMAIN answers : k <= Len(scope.folders) /\ Targets[k] = base /\ Strayed(k)

(* What enumerate has gone through so far.                                 *)
Visited ==
  /\ next = 0 => Targets = <<>>
  /\ Targets = <<>> /\ next = 1 => TopLevel \in listed \cup {call}
  /\ \A k \in DOMAIN scope.folders : k < next => scope.folders[k] \in listed \cup {call}
  /\ Targets # <<>> => Len(answers) + 1 = next
  /\ \A k \in DOMAIN answers : k > Len(scope.folders) => found[answers[k]] > 0
  /\ phase = "done" => call = None /\ at = None /\ next = Len(Targets) + 1

(* What the walk has still to visit, and the promise it keeps at every     *)
(* step: a job below a listed container is found, or due, or a container   *)
(* between the two is unlisted, or due and not listed yet, or being listed. *)
Due == {i \in Item : \E p \in Place : i \in todo[p]}
Calling == IF page # None THEN {call} ELSE {call} \ listed

Cover(c, j) ==
  \/ found[j] > 0
  \/ j \in Due
  \/ \E a \in Above(j) : Len(a) >= Len(c) /\ a \in unlisted \cup Calling \cup (Due \ listed)

Covered ==
  phase # "failed" =>
    \A c \in listed : \A j \in Job \ gone : Leads(c, j) => Cover(c, j)

(* A job found by the walk of the whole tree is not due again.             *)
FoundOnce ==
  /\ Targets = <<>> =>
       \A j \in Item : found[j] > 0 =>
         found[j] = 1 /\ Holder(j) \in listed \ Pending /\ j \notin todo[Holder(j)]
  /\ EachJobOnce

IInv ==
  /\ TypeOK
  /\ Frames
  /\ BaseAnswered
  /\ Visited
  /\ Covered
  /\ FoundOnce
  /\ NothingOutOfScope

-----------------------------------------------------------------------------
(* What the assumptions say                                                *)

LEMMA Domains ==
  /\ Item \subseteq Name /\ TopLevel \notin Item
  /\ Container \subseteq Item
  /\ Place \subseteq Name /\ TopLevel \in Place /\ Item \subseteq Place
  /\ Listable \subseteq Place
  /\ None \notin Place /\ None \notin Item
  /\ \A P \in SUBSET Place : P # None
  /\ Job \subseteq Item
  <1>1. TopLevel \in Name
    BY DEF TopLevel, Name
  <1> QED
    BY <1>1, TreeAssumption, FlagAssumption DEF Place, Job, Name, Listable

(* Above a place are places, and above one that is no job there is none.   *)
LEMMA PlacesAbove ==
  /\ \A p \in Place : Above(p) \subseteq Place
  /\ \A p \in Listable : Above(p) \subseteq Listable
  /\ \A p \in Place : p # TopLevel => Holder(p) \in Place
  /\ \A p \in Listable : p # TopLevel => Holder(p) \in Listable
  /\ Above(TopLevel) = {}
  <1>1. Above(TopLevel) = {}
    BY Domains, AboveIs, EmptySeq DEF TopLevel, Name
  <1>2. /\ \A p \in Place : Above(p) \subseteq Place
        /\ \A p \in Listable : Above(p) \subseteq Listable
    BY <1>1, TreeAssumption DEF Place, Listable
  <1> QED
    BY <1>1, <1>2, Domains, HolderIs

(* A name appended to what was answered so far.                            *)
LEMMA OneMoreAnswer ==
  ASSUME NEW s \in Seq(Item), NEW i \in Item
  PROVE  /\ Append(s, i) \in Seq(Item)
         /\ Len(Append(s, i)) = Len(s) + 1
         /\ Len(s) \in Nat /\ DOMAIN s = 1 .. Len(s)
         /\ DOMAIN Append(s, i) = 1 .. Len(s) + 1
         /\ \A k \in DOMAIN s : Append(s, i)[k] = s[k]
         /\ Append(s, i)[Len(s) + 1] = i
  OBVIOUS

(* T is F followed by J.                                                   *)
Parts(F, J, T) ==
  /\ T \in Seq(Item)
  /\ Len(T) = Len(F) + Len(J)
  /\ Len(F) \in Nat /\ DOMAIN F = 1 .. Len(F)
  /\ Len(J) \in Nat /\ DOMAIN J = 1 .. Len(J)
  /\ Len(T) \in Nat /\ DOMAIN T = 1 .. Len(T)
  /\ \A k \in DOMAIN T : T[k] \in Item
  /\ \A k \in DOMAIN F : k \in DOMAIN T /\ T[k] = F[k]
  /\ \A k \in DOMAIN T : k > Len(F) => k - Len(F) \in DOMAIN J /\ T[k] = J[k - Len(F)]
  /\ T = <<>> => F = <<>> /\ J = <<>>

LEMMA Concatenated == \A F, J \in Seq(Item) : \A T : T = F \o J => Parts(F, J, T)
  <1> SUFFICES ASSUME NEW F \in Seq(Item), NEW J \in Seq(Item), NEW T, T = F \o J
               PROVE  Parts(F, J, T)
    OBVIOUS
  <1>1. /\ T \in Seq(Item)
        /\ Len(T) = Len(F) + Len(J)
        /\ \A i \in 1 .. Len(F) + Len(J) : T[i] = IF i <= Len(F) THEN F[i] ELSE J[i - Len(F)]
    BY ConcatProperties
  <1>2. /\ Len(F) \in Nat /\ DOMAIN F = 1 .. Len(F)
        /\ Len(J) \in Nat /\ DOMAIN J = 1 .. Len(J)
        /\ Len(T) \in Nat /\ DOMAIN T = 1 .. Len(T)
    BY <1>1
  <1>3. \A k \in DOMAIN F : k \in DOMAIN T /\ T[k] = F[k]
    BY <1>1, <1>2
  <1>4. \A k \in DOMAIN T : k > Len(F) => k - Len(F) \in DOMAIN J /\ T[k] = J[k - Len(F)]
    BY <1>1, <1>2
  <1>5. T = <<>> => F = <<>> /\ J = <<>>
    <2> SUFFICES ASSUME T = <<>> PROVE F = <<>> /\ J = <<>>
      OBVIOUS
    <2>1. Len(F) + Len(J) = 0
      BY <1>1
    <2>2. Len(F) = 0 /\ Len(J) = 0
      BY <1>2, <2>1
    <2> QED
      BY <2>2, EmptySeq
  <1>6. \A k \in DOMAIN T : T[k] \in Item
    BY <1>1, <1>2, ElementOfSeq
  <1> QED
    BY <1>1, <1>2, <1>3, <1>4, <1>5, <1>6 DEF Parts

LEMMA TargetsAre ==
  ASSUME scope \in Scopes
  PROVE  /\ scope.folders \in Seq(Item)
         /\ scope.jobs \in Seq(Item)
         /\ Parts(scope.folders, scope.jobs, Targets)
  <1>1. scope.folders \in Seq(Item) /\ scope.jobs \in Seq(Item)
    BY FlagAssumption
  <1>2. Targets = scope.folders \o scope.jobs
    BY DEF Targets
  <1> QED
    BY <1>1, <1>2, Concatenated, Zenon

-----------------------------------------------------------------------------
(* Types *)

LEMMA StepType == TypeOK /\ Frames /\ [Next]_vars => TypeOK'
  <1> SUFFICES ASSUME TypeOK, Frames, [Next]_vars PROVE TypeOK'
    OBVIOUS
  <1> USE DEF TypeOK
  <1>1. ASSUME NEW i \in Item, Remove(i) PROVE TypeOK'
    <2>1. changes' \in 0 .. MaxChanges
      BY <1>1, FlagAssumption DEF Remove
    <2>2. there' \subseteq Item /\ gone' \subseteq Item
      BY <1>1 DEF Remove
    <2> QED
      BY <1>1, <2>1, <2>2 DEF Remove, walk, Targets
  <1>2. ASSUME NEW i \in Item, Add(i) PROVE TypeOK'
    <2>1. changes' \in 0 .. MaxChanges
      BY <1>2, FlagAssumption DEF Add
    <2>2. there' \subseteq Item
      BY <1>2 DEF Add
    <2> QED
      BY <1>2, <2>1, <2>2 DEF Add, walk, Targets
  <1>3. CASE Expire
    BY <1>3 DEF Expire, walk, controller, Targets
  <1>4. CASE WalkWholeTree
    <2>1. Targets' = Targets /\ Len(Targets) \in Nat
      BY <1>4, TargetsAre DEF Parts, WalkWholeTree, Targets
    <2> QED
      BY <1>4, <2>1, Domains DEF WalkWholeTree, controller
  <1>5. ASSUME NEW i \in Item, LookupFolder(i) PROVE TypeOK'
    <2>1. next \in DOMAIN Targets /\ Targets[next] \in Place /\ Targets' = Targets
      BY <1>5, TargetsAre DEF Parts, LookupFolder, AtFolderFlag, Place, Targets
    <2>2. next' \in 0 .. Len(Targets) + 1
      <3>1. Len(Targets) \in Nat /\ DOMAIN Targets = 1 .. Len(Targets)
        BY TargetsAre DEF Parts
      <3>2. next' = next + 1
        BY <1>5 DEF LookupFolder
      <3> QED
        BY <2>1, <3>1, <3>2
    <2>3. answers' \in Seq(Item)
      BY <1>5, OneMoreAnswer DEF LookupFolder
    <2> QED
      BY <1>5, <2>1, <2>2, <2>3 DEF LookupFolder, controller
  <1>6. ASSUME NEW i \in Item, LookupJob(i) PROVE TypeOK'
    <2>1. next \in DOMAIN Targets /\ Targets' = Targets
      BY <1>6 DEF LookupJob, AtJobFlag, Targets
    <2>2. next' \in 0 .. Len(Targets) + 1
      <3>1. Len(Targets) \in Nat /\ DOMAIN Targets = 1 .. Len(Targets)
        BY TargetsAre DEF Parts
      <3>2. next' = next + 1
        BY <1>6 DEF LookupJob
      <3> QED
        BY <2>1, <3>1, <3>2
    <2>3. found' \in [Item -> Nat] /\ answers' \in Seq(Item)
      BY <1>6, OneMoreAnswer DEF LookupJob
    <2> QED
      BY <1>6, <2>1, <2>2, <2>3 DEF LookupJob, controller
  <1>7. CASE LookupRefused \/ Finish
    <2>1. Targets' = Targets
      BY <1>7 DEF LookupRefused, Finish, Targets
    <2>2. found' \in [Item -> Nat]
      BY <1>7 DEF LookupRefused, Finish, Deduplicated
    <2> QED
      BY <1>7, <2>1, <2>2 DEF LookupRefused, Finish, controller
  <1>8. CASE ListedBefore \/ ListRefused \/ ListCancelled \/ ListForeign
    <2>1. call \in Place /\ Targets' = Targets
      BY <1>8 DEF ListedBefore, ListRefused, ListCancelled, ListForeign, Called, Judging, Frames, Targets
    <2> QED
      BY <1>8, <2>1 DEF ListedBefore, ListRefused, ListCancelled, ListForeign, controller
  <1>9. CASE ListAnswered
    <2>1. call \in Place /\ Targets' = Targets /\ page' \in SUBSET Place
      BY <1>9, AnswerAssumption, Domains DEF ListAnswered, Called, Targets, Children
    <2> QED
      BY <1>9, <2>1 DEF ListAnswered, controller
  <1>t. CASE ListTaken
    <2>1. call \in Place /\ call \in Name /\ Targets' = Targets /\ page \subseteq Place
      BY <1>t, Domains DEF ListTaken, Judging, Frames, Targets
    <2>2. page \subseteq Item
      <3>1. ~ChildOf(call, TopLevel)
        BY <2>1 DEF ChildOf, TopLevel, Name
      <3> QED
        BY <1>t, <2>1, <3>1 DEF ListTaken, Place
    <2>3. gone' \subseteq Item /\ todo' \in [Place -> SUBSET Item]
      BY <1>t, <2>1, <2>2 DEF ListTaken, LeftOut
    <2> QED
      BY <1>t, <2>1, <2>3 DEF ListTaken
  <1>10. ASSUME NEW i \in Item, TakeJob(i) \/ Descend(i) \/ TooDeep(i) PROVE TypeOK'
    <2>1. at \in Place /\ Targets' = Targets
      BY <1>10 DEF TakeJob, Descend, TooDeep, Visiting, Targets
    <2>2. todo' \in [Place -> SUBSET Item]
      BY <1>10, <2>1 DEF TakeJob, Descend, TooDeep
    <2>3. found' \in [Item -> Nat]
      BY <1>10 DEF TakeJob, Descend, TooDeep
    <2> QED
      BY <1>10, <2>1, <2>2, <2>3 DEF TakeJob, Descend, TooDeep, Place, controller
  <1>11. CASE Return
    <2>1. at \in Place /\ Targets' = Targets
      BY <1>11 DEF Return, Targets
    <2>2. CASE at = base
      BY <1>11, <2>1, <2>2 DEF Return, controller
    <2>3. CASE at # base
      <3>1. at # TopLevel
        BY <1>11, <2>3, PlacesAbove DEF Return, Frames
      <3>2. Holder(at) \in Place
        BY <2>1, <3>1, PlacesAbove
      <3> QED
        BY <1>11, <2>1, <2>3, <3>2 DEF Return, controller
    <2> QED
      BY <2>2, <2>3
  <1>12. CASE UNCHANGED vars
    BY <1>12 DEF vars, walk, controller, Targets
  <1> QED
    BY <1>1, <1>2, <1>3, <1>4, <1>5, <1>6, <1>7, <1>8, <1>9, <1>t, <1>10, <1>11, <1>12
    DEF Next, Walk, Environment, Enumerate, ListJobs

-----------------------------------------------------------------------------
(* The frames stay on one path                                             *)

(* The environment changes neither the flags nor the walk.                 *)
LEMMA EnvironmentLeavesWalk ==
  (Environment \/ UNCHANGED vars) => UNCHANGED <<scope, walk>>
  BY DEF Environment, Remove, Add, Expire, vars, walk

(* The container just called is the next one down the path.                *)
LEMMA CallIsBelow ==
  ASSUME TypeOK, Frames, call # None
  PROVE  /\ call \in Place
         /\ call \notin Above(call)
         /\ base \in Above(call) \cup {call}
         /\ call \notin Above(base)
         /\ at # None => Above(at) \cup {at} \subseteq Above(call)
  <1>1. call \in Place /\ call \in Name
    BY Domains DEF TypeOK
  <1>2. call \notin Above(call)
    BY <1>1, AboveIs DEF Name
  <1>3. ASSUME at # None PROVE Above(at) \cup {at} \subseteq Above(call)
    <2>1. call # TopLevel /\ Holder(call) = at
      BY <1>3, Domains DEF Frames
    <2>2. at \in Above(call)
      BY <1>1, <2>1, HolderIs
    <2> QED
      BY <1>1, <2>2, AboveIsTransitive
  <1>4. base \in Above(call) \cup {call}
    BY <1>3 DEF Frames
  <1>5. call \notin Above(base)
    BY <1>1, <1>2, <1>4, AboveIsTransitive
  <1> QED
    BY <1>1, <1>2, <1>3, <1>4, <1>5

LEMMA StepFrames == TypeOK /\ Frames /\ Visited /\ [Next]_vars => Frames'
  <1> SUFFICES ASSUME TypeOK, Frames, Visited, [Next]_vars PROVE Frames'
    OBVIOUS
  <1>1. ASSUME WalkWholeTree \/ \E i \in Item : LookupFolder(i) PROVE Frames'
    <2>1. at = None /\ at' = None /\ todo' = todo /\ page = None /\ page' = None
          /\ \A p \in Place : todo[p] = {}
      BY <1>1 DEF WalkWholeTree, LookupFolder, AtFolderFlag, BetweenTargets, Frames
    <2>2. call' = base'
      BY <1>1 DEF WalkWholeTree, LookupFolder
    <2>3. base' \in Roots'
      <3>1. CASE WalkWholeTree
        BY <3>1 DEF WalkWholeTree, Visited, Roots, Targets
      <3>2. ASSUME NEW i \in Item, LookupFolder(i) PROVE base' \in Roots'
        <4>1. next \in DOMAIN scope.folders /\ scope' = scope /\ base' = Targets[next]
          BY <3>2 DEF LookupFolder, AtFolderFlag
        <4>2. Targets[next] = scope.folders[next] /\ next \in DOMAIN Targets
          BY <4>1, TargetsAre DEF TypeOK, Parts
        <4>3. Targets # <<>>
          BY <4>2
        <4> QED
          BY <4>1, <4>2, <4>3 DEF Roots, Targets
      <3> QED
        BY <1>1, <3>1, <3>2
    <2> QED
      BY <2>1, <2>2, <2>3 DEF Frames
  <1>2. ASSUME LookupRefused \/ Finish \/ \E i \in Item : LookupJob(i) PROVE Frames'
    BY <1>2 DEF LookupJob, LookupRefused, Finish, Frames, Roots, Targets
  <1>3. CASE ListedBefore \/ ListRefused \/ ListCancelled
    BY <1>3 DEF ListedBefore, ListRefused, ListCancelled, Called, Frames, Roots, Targets
  <1>4. CASE ListAnswered
    BY <1>4 DEF ListAnswered, Called, Frames, Roots, Targets
  <1>g. CASE ListForeign
    BY <1>g DEF ListForeign, Judging, Frames, Roots, Targets
  <1>t. CASE ListTaken
    <2>1. /\ call # None /\ call \in listed /\ page' = None /\ page \subseteq Place
          /\ \A n \in page : ChildOf(call, n)
          /\ listed' = listed /\ at' = call /\ call' = None /\ base' = base /\ scope' = scope
          /\ todo' = [todo EXCEPT ![call] = page]
      BY <1>t DEF ListTaken, Judging, Frames, TypeOK
    <2>2. call \in Place /\ call \in Name
      BY <2>1, CallIsBelow, Domains
    <2>3. ASSUME NEW p \in Place, NEW i \in todo'[p] PROVE Holder(i) = p
      <3>1. CASE p = call
        <4>1. i \in page /\ ChildOf(call, i) /\ i \in Place
          BY <2>1, <2>2, <2>3, <3>1 DEF TypeOK
        <4>2. i # TopLevel
          BY <2>2, <4>1 DEF ChildOf, TopLevel, Name
        <4> QED
          BY <2>2, <3>1, <4>1, <4>2, HolderIs, Domains
      <3>2. CASE p # call
        BY <2>1, <2>3, <3>2 DEF Frames, TypeOK
      <3> QED
        BY <3>1, <3>2
    <2>4. ASSUME NEW p \in Place, todo'[p] # {}
          PROVE  p \in listed' /\ p \in Above(call) \cup {call} /\ p \notin Above(base)
      <3>1. CASE p = call
        BY <2>1, <3>1, CallIsBelow
      <3>2. CASE p # call
        BY <2>1, <2>4, <3>2, CallIsBelow DEF Frames, TypeOK
      <3> QED
        BY <3>1, <3>2
    <2>5. base \in Above(call) \cup {call} /\ base \in Roots
      BY <2>1, CallIsBelow DEF Frames
    <2>6. call # None /\ Roots' = Roots /\ call \in Listable \cup {base}
      BY <2>1 DEF Roots, Targets, Frames, Listable
    <2> QED
      BY <2>1, <2>3, <2>4, <2>5, <2>6 DEF Frames
  <1>5. ASSUME NEW i \in Item, TakeJob(i) \/ TooDeep(i) PROVE Frames'
    <2>1. /\ at # None /\ at \in Place /\ call = None /\ page = None
          /\ todo' = [todo EXCEPT ![at] = @ \ {i}] /\ scope' = scope
          /\ UNCHANGED <<at, call, page, base, listed>>
      <3>1. page = None
        BY <1>5 DEF TakeJob, TooDeep, Visiting, Frames
      <3> QED
        BY <1>5, <3>1 DEF TakeJob, TooDeep, Visiting, TypeOK
    <2>2. Roots' = Roots /\ \A p \in Place : todo'[p] \subseteq todo[p]
      BY <2>1 DEF TypeOK, Roots, Targets
    <2> QED
      BY <2>1, <2>2 DEF Frames
  <1>6. ASSUME NEW i \in Item, Descend(i) PROVE Frames'
    <2>1. /\ at # None /\ at \in Place /\ i \in todo[at] /\ call' = i /\ i \in Container
          /\ page = None /\ page' = None
          /\ at' = at /\ base' = base /\ listed' = listed /\ Roots' = Roots
          /\ todo' = [todo EXCEPT ![at] = @ \ {i}]
      BY <1>6 DEF Descend, Visiting, TypeOK, Roots, Targets, Frames
    <2>2. Holder(i) = at
      BY <2>1 DEF Frames
    <2>3. \A p \in Place : todo'[p] \subseteq todo[p]
      BY <2>1 DEF TypeOK
    <2> QED
      BY <2>1, <2>2, <2>3 DEF Frames
  <1>7. CASE Return
    <2>1. /\ at # None /\ at \in Place /\ todo[at] = {} /\ call = None /\ page = None /\ page' = None
          /\ call' = call /\ base' = base /\ listed' = listed /\ todo' = todo /\ Roots' = Roots
          /\ at' = IF at = base THEN None ELSE Holder(at)
      BY <1>7 DEF Return, TypeOK, Roots, Targets, Frames
    <2>2. CASE at = base
      BY <2>1, <2>2 DEF Frames
    <2>3. CASE at # base
      <3>1. base \in Above(at) /\ at \in Name /\ at # TopLevel
        BY <2>1, <2>3, Domains, PlacesAbove DEF Frames
      <3>2. \A p \in Above(at) : p \in Above(Holder(at)) \cup {Holder(at)}
        BY <3>1, HolderIs
      <3>3. Holder(at) # None /\ Holder(at) \in Listable
        BY <2>1, <2>3, <3>1, PlacesAbove, Domains DEF Frames
      <3> QED
        BY <2>1, <2>3, <3>1, <3>2, <3>3 DEF Frames
    <2> QED
      BY <2>2, <2>3
  <1>8. CASE UNCHANGED <<scope, walk>>
    BY <1>8 DEF walk, Frames, Roots, Targets
  <1> QED
    BY <1>1, <1>2, <1>3, <1>4, <1>g, <1>t, <1>5, <1>6, <1>7, <1>8, EnvironmentLeavesWalk
    DEF Next, Walk, Enumerate, ListJobs

(* Answers are only added to, so what strayed stays astray.                *)
LEMMA AnswersGrow ==
  ASSUME TypeOK, [Next]_vars
  PROVE  /\ scope' = scope /\ Targets' = Targets
         /\ \A k \in DOMAIN answers : k \in DOMAIN answers' /\ answers'[k] = answers[k]
         /\ \A k \in DOMAIN answers : Strayed(k) => Strayed(k)'
         /\ \A i \in Item : Mistaken(i) => Mistaken(i)'
  <1>1. scope' = scope /\ Targets' = Targets
    BY DEF Next, Walk, Environment, Enumerate, ListJobs, Expire, Remove, Add, WalkWholeTree,
           LookupFolder, LookupJob, LookupRefused, Finish, ListedBefore, ListRefused, ListCancelled,
           ListAnswered, ListForeign, ListTaken, Return, TakeJob, Descend, TooDeep, walk, vars, Targets
  <1>2. answers' = answers \/ \E i \in Item : answers' = Append(answers, i)
    BY DEF Next, Walk, Environment, Enumerate, ListJobs, Expire, Remove, Add, WalkWholeTree,
           LookupFolder, LookupJob, LookupRefused, Finish, ListedBefore, ListRefused, ListCancelled,
           ListAnswered, ListForeign, ListTaken, Return, TakeJob, Descend, TooDeep, walk, vars
  <1>3. \A k \in DOMAIN answers : k \in DOMAIN answers' /\ answers'[k] = answers[k]
    <2>1. answers \in Seq(Item)
      BY DEF TypeOK
    <2>2. ASSUME NEW i \in Item, answers' = Append(answers, i), NEW k \in DOMAIN answers
          PROVE  k \in DOMAIN answers' /\ answers'[k] = answers[k]
      BY <2>1, <2>2, OneMoreAnswer
    <2> QED
      BY <1>2, <2>2
  <1>4. \A k \in DOMAIN answers : Strayed(k) => Strayed(k)'
    BY <1>1, <1>3 DEF Strayed
  <1> QED
    BY <1>1, <1>3, <1>4 DEF Mistaken

(* A walk that starts at a job was sent there by an answer that strayed.   *)
LEMMA StepBase == TypeOK /\ Frames /\ Visited /\ BaseAnswered /\ [Next]_vars => BaseAnswered'
  <1> SUFFICES ASSUME TypeOK, Frames, Visited, BaseAnswered, [Next]_vars PROVE BaseAnswered'
    OBVIOUS
  <1>1. CASE WalkWholeTree
    BY <1>1 DEF WalkWholeTree, BaseAnswered, Listable
  <1>2. ASSUME NEW i \in Item, LookupFolder(i) PROVE BaseAnswered'
    <2>1. /\ next \in DOMAIN scope.folders /\ base' = Targets[next] /\ i \in Container
          /\ answers' = Append(answers, i)
      BY <1>2 DEF LookupFolder, AtFolderFlag
    <2>2. next \in Nat /\ next <= Len(scope.folders) /\ Targets # <<>>
      BY <2>1, TargetsAre DEF TypeOK, Parts
    <2>3. Len(answers) + 1 = next /\ answers \in Seq(Item)
      BY <2>2 DEF Visited, TypeOK
    <2>4. next \in DOMAIN answers' /\ answers'[next] = i
      BY <2>1, <2>3, OneMoreAnswer
    <2>5. CASE base' = i
      BY <2>1, <2>5 DEF BaseAnswered, Listable
    <2>6. CASE base' # i
      BY <2>1, <2>2, <2>4, <2>6, AnswersGrow DEF BaseAnswered, Strayed
    <2> QED
      BY <2>5, <2>6
  <1>3. ASSUME base' = base, call # None \/ at # None PROVE BaseAnswered'
    BY <1>3, AnswersGrow DEF BaseAnswered
  <1>4. ASSUME NEW i \in Item, LookupJob(i) PROVE BaseAnswered'
    BY <1>4 DEF LookupJob, AtJobFlag, BetweenTargets, BaseAnswered
  <1>5. ASSUME \/ ListedBefore \/ ListRefused \/ ListCancelled \/ ListAnswered \/ ListForeign \/ ListTaken
               \/ Return \/ \E i \in Item : TakeJob(i) \/ Descend(i) \/ TooDeep(i)
        PROVE  BaseAnswered'
    <2>1. base' = base /\ (call # None \/ at # None)
      BY <1>5 DEF ListedBefore, ListRefused, ListCancelled, ListAnswered, ListForeign, ListTaken, Return,
                  TakeJob, Descend, TooDeep, Called, Judging, Visiting, Frames
    <2> QED
      BY <1>3, <2>1
  <1>6. CASE LookupRefused \/ Finish \/ UNCHANGED <<scope, walk>>
    BY <1>3, <1>6 DEF LookupRefused, Finish, walk, BaseAnswered
  <1> QED
    BY <1>1, <1>2, <1>4, <1>5, <1>6, EnvironmentLeavesWalk DEF Next, Walk, Enumerate, ListJobs

-----------------------------------------------------------------------------
(* No target is passed over                                                *)

LEMMA StepVisited == TypeOK /\ Frames /\ Visited /\ [Next]_vars => Visited'
  <1> SUFFICES ASSUME TypeOK, Frames, Visited, [Next]_vars PROVE Visited'
    OBVIOUS
  <1>f. /\ Parts(scope.folders, scope.jobs, Targets)
        /\ scope.jobs \in Seq(Item)
        /\ next \in 0 .. Len(Targets) + 1
        /\ found \in [Item -> Nat]
    BY TargetsAre DEF TypeOK
  <1>n. next \in Nat /\ (next \in DOMAIN Targets => next # 0 /\ Targets # <<>>)
    <2>1. Len(Targets) \in Nat /\ DOMAIN Targets = 1 .. Len(Targets)
      BY <1>f DEF Parts
    <2>2. next \in Nat /\ (next \in DOMAIN Targets => next # 0)
      BY <1>f, <2>1
    <2> QED
      BY <2>2
  <1>a. answers \in Seq(Item) /\ \A k \in DOMAIN answers : answers[k] \in Item
    BY DEF TypeOK
  <1>1. CASE WalkWholeTree
    <2>1. /\ Targets = <<>> /\ Targets' = Targets /\ phase' # "done"
          /\ scope' = scope /\ next' = 1 /\ call' = TopLevel
      BY <1>1 DEF WalkWholeTree, BetweenTargets, Visited, Targets
    <2>2. scope.folders = <<>>
      BY <1>f, <2>1 DEF Parts
    <2>3. answers' = answers /\ found' = found
      BY <1>1 DEF WalkWholeTree
    <2> QED
      BY <2>1, <2>2, <2>3 DEF Visited
  <1>2. ASSUME NEW i \in Item, LookupFolder(i) PROVE Visited'
    <2>1. /\ phase' # "done" /\ call = None
          /\ scope' = scope /\ Targets' = Targets /\ listed' = listed /\ found' = found
          /\ next \in DOMAIN scope.folders /\ next' = next + 1 /\ call' = Targets[next]
          /\ answers' = Append(answers, i)
      BY <1>2 DEF LookupFolder, AtFolderFlag, BetweenTargets, Targets
    <2>2. next \in Nat /\ next # 0 /\ Targets[next] = scope.folders[next] /\ Targets # <<>>
      BY <1>f, <1>n, <2>1 DEF Parts
    <2>3. \A k \in DOMAIN scope.folders : k < next' => scope.folders[k] \in listed' \cup {call'}
      <3> SUFFICES ASSUME NEW k \in DOMAIN scope.folders, k < next'
                   PROVE  scope.folders[k] \in listed' \cup {call'}
        OBVIOUS
      <3>1. CASE k = next
        BY <2>1, <2>2, <3>1
      <3>2. CASE k < next
        <4>1. scope.folders[k] \in listed \cup {None}
          BY <2>1, <3>2 DEF Visited
        <4>2. scope.folders[k] \in Item
          BY TargetsAre DEF TypeOK
        <4> QED
          BY <2>1, <4>1, <4>2, Domains
      <3> QED
        BY <1>f, <2>1, <2>2, <3>1, <3>2 DEF Parts
    <2>4. Len(answers) + 1 = next /\ Len(answers) \in Nat
      BY <1>a, <2>2 DEF Visited
    <2>5. Len(answers') + 1 = next' /\ \A k \in DOMAIN answers' : ~(k > Len(scope.folders))
      <3>1. DOMAIN answers' = 1 .. Len(answers) + 1 /\ Len(answers') = Len(answers) + 1
        BY <1>a, <2>1, OneMoreAnswer
      <3>2. Len(answers) + 1 <= Len(scope.folders) /\ Len(scope.folders) \in Nat
        BY <1>f, <2>1, <2>2, <2>4 DEF Parts
      <3> QED
        BY <2>1, <2>4, <3>1, <3>2
    <2>6. next' # 0
      BY <2>1, <2>2
    <2> QED
      BY <2>1, <2>2, <2>3, <2>5, <2>6 DEF Visited
  <1>3. ASSUME NEW i \in Item, LookupJob(i) PROVE Visited'
    <2>1. /\ phase' # "done" /\ call' = call
          /\ scope' = scope /\ Targets' = Targets /\ listed' = listed
          /\ next > Len(scope.folders) /\ next \in DOMAIN Targets /\ next' = next + 1
          /\ answers' = Append(answers, i) /\ found' = [found EXCEPT ![i] = @ + 1]
      BY <1>3 DEF LookupJob, AtJobFlag, BetweenTargets, Targets
    <2>2. next \in Nat /\ next # 0 /\ next' # 0 /\ Targets # <<>>
      BY <1>n, <2>1
    <2>3. Len(answers) + 1 = next /\ Len(answers) \in Nat
      BY <1>a, <2>2 DEF Visited
    <2>4. /\ DOMAIN answers' = 1 .. Len(answers) + 1 /\ DOMAIN answers = 1 .. Len(answers)
          /\ Len(answers') = Len(answers) + 1
          /\ answers'[Len(answers) + 1] = i
          /\ \A k \in DOMAIN answers : answers'[k] = answers[k]
      BY <1>a, <2>1, OneMoreAnswer
    <2>5. ASSUME NEW k \in DOMAIN answers', k > Len(scope.folders) PROVE found'[answers'[k]] > 0
      <3>1. CASE k = Len(answers) + 1
        BY <1>f, <2>1, <2>4, <3>1
      <3>2. CASE k \in DOMAIN answers
        <4>1. found[answers[k]] > 0 /\ answers[k] \in Item
          BY <1>a, <2>5, <3>2 DEF Visited
        <4> QED
          BY <1>f, <2>1, <2>4, <3>2, <4>1
      <3> QED
        BY <2>3, <2>4, <3>1, <3>2
    <2>6. \A k \in DOMAIN scope.folders : k < next' => k < next
      BY <1>f, <2>1, <2>2 DEF Parts
    <2> QED
      BY <2>1, <2>2, <2>3, <2>4, <2>5, <2>6 DEF Visited
  <1>4. CASE LookupRefused
    BY <1>4 DEF LookupRefused, Visited, Targets
  <1>5. CASE Finish
    <2>1. /\ next' = next /\ call' = None /\ at' = None /\ next = Len(Targets) + 1
          /\ scope' = scope /\ Targets' = Targets /\ listed' = listed /\ call = None /\ answers' = answers
          /\ found' = IF Targets = <<>> THEN found ELSE Deduplicated
      BY <1>5 DEF Finish, BetweenTargets, Targets
    <2>2. \A i \in Item : found[i] > 0 => found'[i] > 0
      BY <1>f, <2>1 DEF Deduplicated
    <2> QED
      BY <1>f, <1>a, <2>1, <2>2 DEF Visited
  <1>6. CASE ListedBefore \/ ListRefused \/ ListAnswered
    BY <1>6 DEF ListedBefore, ListRefused, ListAnswered, Called, Visited, Targets
  <1>g. CASE ListForeign \/ ListTaken
    BY <1>g DEF ListForeign, ListTaken, Judging, Frames, Visited, Targets
  <1>7. CASE ListCancelled
    BY <1>7 DEF ListCancelled, Visited, Targets
  <1>8. ASSUME NEW i \in Item, TakeJob(i) PROVE Visited'
    <2>1. \A j \in Item : found[j] > 0 => found'[j] > 0
      BY <1>8, <1>f DEF TakeJob
    <2> QED
      BY <1>8, <1>f, <1>a, <2>1 DEF TakeJob, Visiting, Visited, Targets
  <1>9. ASSUME NEW i \in Item, Descend(i) \/ TooDeep(i) PROVE Visited'
    <2>1. /\ call = None /\ phase' # "done" /\ next' = next /\ scope' = scope /\ Targets' = Targets
          /\ listed' = listed /\ found' = found /\ answers' = answers
      BY <1>9 DEF Descend, TooDeep, Visiting, Targets
    <2>2. TopLevel # None /\ \A k \in DOMAIN scope.folders : scope.folders[k] # None
      BY Domains, TargetsAre DEF TypeOK
    <2> QED
      BY <2>1, <2>2 DEF Visited
  <1>10. CASE Return
    BY <1>10 DEF Return, Visited, Targets
  <1>11. CASE UNCHANGED <<scope, walk>>
    BY <1>11 DEF walk, Visited, Targets
  <1> QED
    BY <1>1, <1>2, <1>3, <1>4, <1>5, <1>6, <1>g, <1>7, <1>8, <1>9, <1>10, <1>11, EnvironmentLeavesWalk
    DEF Next, Walk, Enumerate, ListJobs

-----------------------------------------------------------------------------
(* Every job stays covered                                                 *)

LEMMA StepCovered == TypeOK /\ Frames /\ Visited /\ Covered /\ [Next]_vars => Covered'
  <1> SUFFICES ASSUME TypeOK, Frames, Visited, Covered, [Next]_vars, phase' # "failed",
                      NEW c \in listed', NEW j \in Job \ gone', Leads(c, j)
               PROVE  Cover(c, j)'
    BY DEF Covered, Leads
  <1>j. /\ j \in Item /\ j \in Name /\ j # TopLevel
        /\ Above(j) \subseteq Place /\ None \notin Above(j) /\ c \in Above(j)
    BY Domains, PlacesAbove DEF Leads, Place
  <1>f. found \in [Item -> Nat]
    BY DEF TypeOK
  <1>1. ASSUME phase = "enumerate", gone \subseteq gone', c \in listed PROVE Cover(c, j)
    BY <1>1 DEF Covered
  <1>2. CASE Environment
    <2>1. /\ phase = "enumerate" /\ gone \subseteq gone'
          /\ UNCHANGED <<call, page, todo, listed, unlisted, found>>
      BY <1>2 DEF Environment, Remove, Add, Expire, walk, controller
    <2> QED
      BY <1>1, <2>1 DEF Cover, Due, Calling
  <1>3. ASSUME WalkWholeTree \/ \E i \in Item : LookupFolder(i) PROVE Cover(c, j)'
    <2>1. /\ phase = "enumerate" /\ gone' = gone /\ call = None
          /\ UNCHANGED <<page, todo, listed, unlisted, found>>
      BY <1>3 DEF WalkWholeTree, LookupFolder, AtFolderFlag, BetweenTargets, controller
    <2>2. Due' = Due /\ \A a \in Above(j) : a \notin Calling
      BY <1>j, <2>1 DEF Due, Calling, Frames
    <2> QED
      BY <1>1, <1>j, <2>1, <2>2 DEF Cover
  <1>4. ASSUME Finish \/ \E i \in Item : LookupJob(i) PROVE Cover(c, j)'
    <2>1. /\ phase = "enumerate" /\ gone' = gone
          /\ UNCHANGED <<call, page, todo, listed, unlisted>>
      BY <1>4 DEF LookupJob, Finish, AtJobFlag, BetweenTargets, controller
    <2>2. found[j] > 0 => found'[j] > 0
      BY <1>4, <1>j, <1>f DEF LookupJob, Finish, Deduplicated
    <2> QED
      BY <1>1, <2>1, <2>2 DEF Cover, Due, Calling
  <1>5. CASE LookupRefused \/ ListCancelled
    BY <1>5 DEF LookupRefused, ListCancelled
  <1>6. CASE ListedBefore
    <2>1. /\ phase = "enumerate" /\ gone' = gone /\ call \in listed /\ page = None
          /\ UNCHANGED <<page, todo, listed, unlisted, found>>
      BY <1>6 DEF ListedBefore, Called, controller
    <2>2. Due' = Due /\ Calling = {}
      BY <2>1 DEF Due, Calling
    <2> QED
      BY <1>1, <2>1, <2>2 DEF Cover
  <1>7. CASE ListRefused \/ ListForeign
    <2>1. /\ phase = "enumerate" /\ gone' = gone
          /\ listed' \subseteq listed \cup {call} /\ listed \subseteq listed'
          /\ unlisted' = unlisted \cup {call}
          /\ UNCHANGED <<todo, found>> /\ Calling \subseteq {call}
      BY <1>7 DEF ListRefused, ListForeign, Called, Judging, controller, Calling
    <2>2. Due' = Due
      BY <2>1 DEF Due
    <2>3. CASE c = call
      <3>1. Len(c) >= Len(c)
        BY <1>j, AboveIs DEF Name
      <3> QED
        BY <1>j, <2>1, <2>3, <3>1 DEF Cover
    <2>4. CASE c # call
      BY <1>1, <1>j, <2>1, <2>2, <2>4 DEF Cover
    <2> QED
      BY <2>3, <2>4
  <1>a. CASE ListAnswered
    <2>1. /\ phase = "enumerate" /\ gone' = gone /\ page' # None /\ call \in Place
          /\ listed' = listed \cup {call} /\ Calling \subseteq {call}
          /\ UNCHANGED <<call, unlisted, todo, found>>
      <3>1. page' # None
        BY <1>a, AnswerAssumption, Domains DEF ListAnswered, Children, TypeOK
      <3> QED
        BY <1>a, <3>1, CallIsBelow DEF ListAnswered, Called, controller, Calling
    <2>2. Due' = Due /\ Calling' = {call}
      BY <2>1 DEF Due, Calling
    <2>3. CASE c = call
      <3>1. Len(c) >= Len(c)
        BY <1>j, AboveIs DEF Name
      <3> QED
        BY <1>j, <2>2, <2>3, <3>1 DEF Cover
    <2>4. CASE c # call
      BY <1>1, <1>j, <2>1, <2>2, <2>4 DEF Cover
    <2> QED
      BY <2>3, <2>4
  <1>8. CASE ListTaken
    <2> PICK x \in Place : x = call
      BY <1>8, CallIsBelow DEF ListTaken, Judging, Frames
    <2>1. /\ phase = "enumerate" /\ gone' = gone \cup LeftOut(x, page) /\ x \in Place /\ x \in Name
          /\ x \in listed /\ x # None /\ Calling = {x}
          /\ call' = None /\ page' = None
          /\ todo' = [todo EXCEPT ![x] = page] /\ page \subseteq Place
          /\ UNCHANGED <<unlisted, listed, found>>
      BY <1>8, Domains DEF ListTaken, Judging, Frames, TypeOK, Calling
    <2>2. todo[x] = {}
      BY <2>1, CallIsBelow DEF Frames
    <2>3. \A a \in Due : a \in Due'
      BY <2>1, <2>2 DEF Due, TypeOK
    <2>4. ASSUME x \in Above(j) PROVE Cover(x, j)'
      <3>1. PICK b \in Above(j) \cup {j} : b \in Name /\ b # TopLevel /\ x = Holder(b)
        BY <1>j, <2>4, NextOnTheWay
      <3>2. b \in page
        BY <1>j, <2>1, <3>1 DEF LeftOut
      <3>3. b \in Due'
        <4>1. b \in Item /\ b \in todo'[x]
          BY <2>1, <3>1, <3>2 DEF TypeOK, Place
        <4> QED
          BY <4>1, <2>1 DEF Due
      <3>4. Len(x) \in Nat /\ Len(b) = Len(x) + 1
        BY <2>1, <3>1, HolderIs DEF Name
      <3>5. CASE b = j
        BY <3>3, <3>5 DEF Cover
      <3>6. CASE b \in Above(j) /\ b \notin listed
        BY <2>1, <3>3, <3>4, <3>6 DEF Cover
      <3>7. CASE b \in Above(j) /\ b \in listed
        <4>1. Cover(b, j)
          BY <2>1, <3>7 DEF Covered, Leads
        <4>2. CASE found[j] > 0 \/ j \in Due
          BY <2>1, <2>3, <4>2 DEF Cover
        <4>3. CASE \E a \in Above(j) : Len(a) >= Len(b) /\ a \in unlisted \cup Calling \cup (Due \ listed)
          <5>1. PICK a \in Above(j) : Len(a) >= Len(b) /\ a \in unlisted \cup Calling \cup (Due \ listed)
            BY <4>3
          <5>2. Len(a) \in Nat
            BY <1>j, <5>1, AboveIs DEF Name
          <5>3. a # x /\ Len(a) >= Len(x)
            BY <3>4, <5>1, <5>2
          <5>4. a \in unlisted' \cup (Due' \ listed')
            BY <2>1, <2>3, <5>1, <5>3
          <5> QED
            BY <5>3, <5>4 DEF Cover
        <4> QED
          BY <4>1, <4>2, <4>3 DEF Cover
      <3> QED
        BY <3>1, <3>5, <3>6, <3>7
    <2>6. Cover(c, j)
      BY <1>1, <2>1
    <2>7. CASE found[j] > 0 \/ j \in Due
      BY <2>1, <2>3, <2>7 DEF Cover
    <2>8. ASSUME NEW a \in Above(j), Len(a) >= Len(c), a \in unlisted \cup Calling \cup (Due \ listed)
          PROVE  Cover(c, j)'
      <3>1. CASE a # x
        <4>1. a \in unlisted' \cup (Due' \ listed')
          BY <2>1, <2>3, <2>8, <3>1
        <4> QED
          BY <2>8, <4>1 DEF Cover
      <3>2. CASE a = x
        <4>1. Cover(x, j)' /\ Len(x) >= Len(c)
          BY <2>4, <2>8, <3>2
        <4>2. c \in Name /\ \A e \in Above(j) : e \in Name
          BY <1>j, AboveIs
        <4>3. \A e \in Above(j) : Len(e) >= Len(x) => Len(e) >= Len(c)
          BY <2>1, <4>1, <4>2 DEF Name
        <4> QED
          BY <4>1, <4>3 DEF Cover
      <3> QED
        BY <3>1, <3>2
    <2> QED
      BY <2>6, <2>7, <2>8 DEF Cover
  <1>9. ASSUME NEW i \in Item, TakeJob(i) PROVE Cover(c, j)'
    <2>1. /\ phase = "enumerate" /\ gone' = gone /\ at \in Place /\ i \in todo[at] /\ i \notin Container
          /\ todo' = [todo EXCEPT ![at] = @ \ {i}] /\ found' = [found EXCEPT ![i] = @ + 1]
          /\ UNCHANGED <<call, page, listed, unlisted>>
      BY <1>9 DEF TakeJob, Visiting, TypeOK, controller
    <2>2. \A a \in Due : a # i => a \in Due'
      BY <2>1 DEF Due, TypeOK
    <2>3. i \notin Above(j)
      <3>1. Above(j) \subseteq Listable
        <4>1. Holder(j) \in Listable
          BY DEF Leads, Listable
        <4> QED
          BY <1>j, <4>1, HolderIs, PlacesAbove
      <3> QED
        BY <2>1, <3>1, Domains DEF Listable
    <2>4. (found[j] > 0 \/ j = i) => found'[j] > 0
      BY <1>f, <1>j, <2>1
    <2>5. Calling' = Calling
      BY <2>1 DEF Calling
    <2> QED
      BY <1>1, <2>1, <2>2, <2>3, <2>4, <2>5 DEF Cover
  <1>10. ASSUME NEW i \in Item, Descend(i) PROVE Cover(c, j)'
    <2>1. /\ phase = "enumerate" /\ gone' = gone /\ call = None /\ at \in Place /\ call' = i
          /\ todo' = [todo EXCEPT ![at] = @ \ {i}] /\ page = None /\ i \in Container
          /\ UNCHANGED <<page, listed, unlisted, found>>
      BY <1>10 DEF Descend, Visiting, TypeOK, controller, Frames
    <2>2. \A a \in Due : a # i => a \in Due'
      BY <2>1 DEF Due, TypeOK
    <2>3. j # i /\ (i \notin listed => i \in Calling') /\ Calling \subseteq {None}
      BY <2>1 DEF Calling, Job
    <2> QED
      BY <1>1, <1>j, <2>1, <2>2, <2>3 DEF Cover
  <1>11. ASSUME NEW i \in Item, TooDeep(i) PROVE Cover(c, j)'
    <2>1. /\ phase = "enumerate" /\ gone' = gone /\ at \in Place /\ i \in Container
          /\ todo' = [todo EXCEPT ![at] = @ \ {i}] /\ unlisted' = unlisted \cup {i}
          /\ UNCHANGED <<call, page, listed, found>>
      BY <1>11 DEF TooDeep, Visiting, TypeOK, controller
    <2>2. \A a \in Due : a # i => a \in Due'
      BY <2>1 DEF Due, TypeOK
    <2>3. j # i /\ Calling' = Calling
      BY <2>1 DEF Calling, Job
    <2> QED
      BY <1>1, <2>1, <2>2, <2>3 DEF Cover
  <1>12. CASE Return
    <2>1. /\ phase = "enumerate" /\ gone' = gone /\ UNCHANGED <<call, page, todo, listed, unlisted, found>>
      BY <1>12 DEF Return, controller
    <2> QED
      BY <1>1, <2>1 DEF Cover, Due, Calling
  <1>13. CASE UNCHANGED vars
    BY <1>13 DEF vars, walk, controller, Covered, Cover, Due, Calling
  <1> QED
    BY <1>2, <1>3, <1>4, <1>5, <1>6, <1>7, <1>a, <1>8, <1>9, <1>10, <1>11, <1>12, <1>13
    DEF Next, Walk, Enumerate, ListJobs

-----------------------------------------------------------------------------
(* No job is found twice, and none outside the scope                       *)

LEMMA StepFoundOnce == TypeOK /\ Frames /\ Visited /\ FoundOnce /\ [Next]_vars => FoundOnce'
  <1> SUFFICES ASSUME TypeOK, Frames, Visited, FoundOnce, [Next]_vars PROVE FoundOnce'
    OBVIOUS
  <1>f. found \in [Item -> Nat]
    BY DEF TypeOK
  <1>1. CASE Finish
    <2>1. /\ Targets' = Targets /\ UNCHANGED <<listed, todo, page, call>>
          /\ found' = IF Targets = <<>> THEN found ELSE Deduplicated
      BY <1>1 DEF Finish, Targets
    <2>2. CASE Targets = <<>>
      BY <1>f, <2>1, <2>2 DEF FoundOnce, EachJobOnce, Pending
    <2>3. CASE Targets # <<>>
      BY <1>f, <2>1, <2>3 DEF FoundOnce, EachJobOnce, Deduplicated
    <2> QED
      BY <2>2, <2>3
  <1>2. ASSUME NEW i \in Item, LookupJob(i) PROVE FoundOnce'
    <2>1. Targets' = Targets /\ phase' # "done" /\ next \in DOMAIN Targets
      BY <1>2 DEF LookupJob, AtJobFlag, BetweenTargets, Targets
    <2>2. DOMAIN Targets = 1 .. Len(Targets)
      BY TargetsAre DEF TypeOK, Parts
    <2>3. Targets # <<>>
      BY <2>1, <2>2
    <2> QED
      BY <2>1, <2>3 DEF FoundOnce, EachJobOnce
  <1>3. ASSUME NEW i \in Item, TakeJob(i) PROVE FoundOnce'
    <2>1. /\ Targets' = Targets /\ phase' # "done" /\ at \in Place /\ i \in todo[at] /\ at \in listed
          /\ Holder(i) = at /\ listed' = listed
          /\ todo' = [todo EXCEPT ![at] = @ \ {i}] /\ found' = [found EXCEPT ![i] = @ + 1]
          /\ page = None /\ page' = None
      BY <1>3 DEF TakeJob, Visiting, Targets, TypeOK, Frames
    <2>2. Targets = <<>> => found[i] = 0
      BY <1>f, <2>1 DEF FoundOnce
    <2>3. \A p \in Place : todo'[p] \subseteq todo[p]
      BY <2>1 DEF TypeOK
    <2>4. ASSUME Targets = <<>>, NEW j \in Item, found'[j] > 0
          PROVE  found'[j] = 1 /\ Holder(j) \in listed' \ Pending' /\ j \notin todo'[Holder(j)]
      <3>1. CASE j = i
        BY <1>f, <2>1, <2>2, <2>4, <3>1 DEF TypeOK, Pending
      <3>2. CASE j # i
        <4>1. found[j] = 1 /\ Holder(j) \in listed /\ j \notin todo[Holder(j)]
          BY <1>f, <2>1, <2>4, <3>2 DEF FoundOnce
        <4> QED
          BY <1>f, <2>1, <2>3, <3>2, <4>1 DEF TypeOK, Pending
      <3> QED
        BY <3>1, <3>2
    <2> QED
      BY <2>1, <2>4 DEF FoundOnce, EachJobOnce
  <1>4. CASE ListAnswered
    <2>1. /\ Targets' = Targets /\ phase' # "done" /\ call \notin listed /\ page = None
          /\ listed' = listed \cup {call} /\ UNCHANGED <<call, todo, found>>
      BY <1>4 DEF ListAnswered, Called, Targets
    <2>2. \A h \in listed : h \in listed' \ Pending'
      BY <2>1 DEF Pending
    <2> QED
      BY <2>1, <2>2 DEF FoundOnce, EachJobOnce
  <1>t. CASE ListTaken
    <2>1. /\ Targets' = Targets /\ phase' # "done" /\ call \in Place
          /\ page # None /\ page' = None /\ listed' = listed /\ found' = found
          /\ todo' = [todo EXCEPT ![call] = page]
      BY <1>t, CallIsBelow DEF ListTaken, Judging, Frames, Targets
    <2>2. \A p \in listed \ Pending : p \in listed' \ Pending' /\ todo'[p] = todo[p]
      BY <2>1 DEF TypeOK, Pending
    <2> QED
      BY <2>1, <2>2 DEF FoundOnce, EachJobOnce
  <1>5. ASSUME WalkWholeTree \/ LookupRefused \/ \E i \in Item : LookupFolder(i) PROVE FoundOnce'
    <2>1. /\ scope' = scope /\ phase' # "done" /\ page = None /\ page' = None
          /\ UNCHANGED <<listed, todo, found>>
      BY <1>5 DEF WalkWholeTree, LookupFolder, LookupRefused, AtFolderFlag, AtJobFlag, BetweenTargets, Frames
    <2>2. Targets' = Targets
      BY <2>1 DEF Targets
    <2> QED
      BY <2>1, <2>2 DEF FoundOnce, EachJobOnce, Pending
  <1>6. CASE ListedBefore \/ ListRefused \/ ListForeign \/ ListCancelled \/ Return
    <2>1. /\ scope' = scope /\ phase' # "done" /\ page' = None
          /\ UNCHANGED <<todo, found>> /\ listed \subseteq listed'
      BY <1>6 DEF ListedBefore, ListRefused, ListForeign, ListCancelled, Return, Called, Judging, Frames
    <2>2. Targets' = Targets /\ \A h \in listed \ Pending : h \in listed' \ Pending'
      BY <2>1 DEF Targets, Pending
    <2> QED
      BY <2>1, <2>2 DEF FoundOnce, EachJobOnce
  <1>7. ASSUME NEW i \in Item, Descend(i) \/ TooDeep(i) PROVE FoundOnce'
    <2>1. /\ Targets' = Targets /\ phase' # "done" /\ listed' = listed /\ found' = found
          /\ at \in Place /\ todo' = [todo EXCEPT ![at] = @ \ {i}]
          /\ page = None /\ page' = None
      BY <1>7 DEF Descend, TooDeep, Visiting, Targets, TypeOK, Frames
    <2>2. \A p \in Place : todo'[p] \subseteq todo[p]
      BY <2>1 DEF TypeOK
    <2>3. listed \subseteq Place
      BY DEF TypeOK
    <2> QED
      BY <2>1, <2>2, <2>3 DEF FoundOnce, EachJobOnce, Pending
  <1>8. CASE UNCHANGED <<scope, walk>>
    BY <1>8 DEF walk, FoundOnce, EachJobOnce, Pending, Targets
  <1> QED
    BY <1>1, <1>2, <1>3, <1>4, <1>t, <1>5, <1>6, <1>7, <1>8, EnvironmentLeavesWalk
    DEF Next, Walk, Enumerate, ListJobs

LEMMA StepInScope ==
  TypeOK /\ Frames /\ BaseAnswered /\ Visited /\ NothingOutOfScope /\ [Next]_vars => NothingOutOfScope'
  <1> SUFFICES ASSUME TypeOK, Frames, BaseAnswered, Visited, NothingOutOfScope, [Next]_vars
               PROVE  NothingOutOfScope'
    OBVIOUS
  <1>f. found \in [Item -> Nat]
    BY DEF TypeOK
  <1>s. scope' = scope /\ Targets' = Targets /\ \A i \in Item : Mistaken(i) => Mistaken(i)'
    BY AnswersGrow
  <1>r. Roots' = Roots /\ \A i : InScope(i)' <=> InScope(i)
    BY <1>s DEF Roots, InScope, InScopeOfFolders
  <1>1. ASSUME NEW c \in listed' PROVE (Above(c) \cup {c}) \cap Roots' # {}
    <2>1. listed' \subseteq listed \cup {call} \/ listed' = listed
      BY DEF Next, Walk, Environment, Enumerate, ListJobs, Expire, Remove, Add, WalkWholeTree,
             LookupFolder, LookupJob, LookupRefused, Finish, ListedBefore, ListRefused, ListCancelled,
             ListAnswered, ListForeign, ListTaken, Return, TakeJob, Descend, TooDeep, walk, vars
    <2>2. CASE c \in listed
      BY <1>r, <2>2 DEF NothingOutOfScope
    <2>3. CASE c = call /\ call # None
      BY <1>r, <2>3, CallIsBelow DEF Frames
    <2>4. CASE c = call /\ call = None
      <3>1. None \in listed
        BY <1>1, <2>4, Domains, StepType DEF TypeOK
      <3> QED
        BY <3>1, Domains DEF TypeOK
    <2> QED
      BY <1>1, <2>1, <2>2, <2>3, <2>4
  <1>2. ASSUME NEW i \in Item, found[i] > 0 PROVE i \in Job /\ (InScope(i) \/ Mistaken(i))'
    BY <1>2, <1>s, <1>r DEF NothingOutOfScope
  <1>3. ASSUME NEW i \in Item, found'[i] > 0 PROVE i \in Job /\ (InScope(i) \/ Mistaken(i))'
    <2>1. ASSUME NEW j \in Item, LookupJob(j) PROVE i \in Job /\ (InScope(i) \/ Mistaken(i))'
      <3>1. /\ next \in DOMAIN Targets /\ next > Len(scope.folders)
            /\ j \notin Container
            /\ answers' = Append(answers, j) /\ found' = [found EXCEPT ![j] = @ + 1]
        BY <2>1 DEF LookupJob, AtJobFlag
      <3>2. CASE i = j
        <4>n. PICK n : n = next
          OBVIOUS
        <4>1. Targets # <<>>
          <5>1. DOMAIN Targets = 1 .. Len(Targets)
            BY TargetsAre DEF TypeOK, Parts
          <5> QED
            BY <3>1, <5>1
        <4>2. Len(answers) + 1 = n /\ answers \in Seq(Item)
          BY <4>1, <4>n DEF Visited, TypeOK
        <4>3. n \in DOMAIN answers' /\ answers'[n] = i
          BY <3>1, <3>2, <4>2, OneMoreAnswer
        <4>4. CASE Targets[next] = i
          <5>1. \E k \in DOMAIN scope.jobs : scope.jobs[k] = i
            BY <3>1, <4>4, TargetsAre DEF TypeOK, Parts
          <5> QED
            BY <1>r, <3>1, <3>2, <5>1 DEF InScope, Job
        <4>5. CASE Targets[next] # i
          <5>1. Strayed(n)' /\ n > Len(scope'.folders)
            BY <1>s, <3>1, <4>n, <4>3, <4>5 DEF Strayed
          <5>2. Mistaken(i)'
            BY <4>3, <5>1 DEF Mistaken
          <5> QED
            BY <3>1, <3>2, <5>2 DEF Job
        <4> QED
          BY <4>4, <4>5
      <3>3. CASE i # j
        BY <1>2, <1>3, <1>f, <3>1, <3>3
      <3> QED
        BY <3>2, <3>3
    <2>2. ASSUME NEW j \in Item, TakeJob(j) PROVE i \in Job /\ (InScope(i) \/ Mistaken(i))'
      <3>1. /\ at # None /\ at \in Place /\ j \in todo[at] /\ j \notin Container
            /\ found' = [found EXCEPT ![j] = @ + 1]
        BY <2>2 DEF TakeJob, Visiting, TypeOK
      <3>2. CASE i = j
        <4>1. Holder(i) = at /\ i \in Name /\ i # TopLevel
          BY <3>1, <3>2, Domains DEF Frames
        <4>2. base \in Above(i) /\ base \in Roots
          BY <3>1, <4>1, HolderIs, AboveIsTransitive DEF Frames
        <4>3. CASE base \in Listable
          <5>1. Leads(base, i)
            BY <3>1, <4>1, <4>2, <4>3 DEF Leads, Frames, Listable
          <5>2. InScope(i)
            BY <4>2, <5>1 DEF Roots, InScope, InScopeOfFolders
          <5> QED
            BY <1>r, <3>1, <3>2, <5>2 DEF Job
        <4>4. CASE base \notin Listable
          <5>1. PICK k \in DOMAIN answers : k <= Len(scope.folders) /\ Targets[k] = base /\ Strayed(k)
            BY <3>1, <4>4 DEF BaseAnswered
          <5>2. Mistaken(i)
            BY <4>2, <4>4, <5>1 DEF Mistaken, Listable
          <5> QED
            BY <1>s, <3>1, <3>2, <5>2 DEF Job
        <4> QED
          BY <4>3, <4>4
      <3>3. CASE i # j
        BY <1>2, <1>3, <1>f, <3>1, <3>3
      <3> QED
        BY <3>2, <3>3
    <2>3. CASE Finish
      <3>1. found[i] > 0
        BY <1>3, <2>3, <1>f DEF Finish, Deduplicated
      <3> QED
        BY <1>2, <3>1
    <2>4. ASSUME found' = found PROVE i \in Job /\ (InScope(i) \/ Mistaken(i))'
      BY <1>2, <1>3, <2>4
    <2>5. ASSUME \/ WalkWholeTree \/ LookupRefused
                 \/ (ListJobs /\ ~\E j \in Item : TakeJob(j))
                 \/ \E j \in Item : LookupFolder(j)
          PROVE  found' = found
      BY <2>5 DEF WalkWholeTree, LookupFolder, LookupRefused, ListJobs, ListedBefore, ListRefused,
                  ListCancelled, ListAnswered, ListForeign, ListTaken, Return, Descend, TooDeep
    <2>6. Environment \/ UNCHANGED vars => found' = found
      BY EnvironmentLeavesWalk DEF walk
    <2> QED
      BY <2>1, <2>2, <2>3, <2>4, <2>5, <2>6 DEF Next, Walk, Enumerate, ListJobs
  <1> QED
    BY <1>1, <1>3 DEF NothingOutOfScope

-----------------------------------------------------------------------------
(* What follows                                                            *)

LEMMA InitInv == Init => IInv
  <1> SUFFICES ASSUME Init PROVE IInv
    OBVIOUS
  <1> USE DEF Init
  <1>t. Parts(scope.folders, scope.jobs, Targets) /\ Len(Targets) \in Nat
    BY TargetsAre DEF Parts
  <1>1. TypeOK
    <2>1. next \in 0 .. Len(Targets) + 1
      BY <1>t
    <2>2. changes \in 0 .. MaxChanges
      BY FlagAssumption
    <2>3. there \subseteq Item /\ base \in Place
      BY TreeAssumption, Domains
    <2> QED
      BY <2>1, <2>2, <2>3 DEF TypeOK
  <1>2. BaseAnswered
    BY DEF BaseAnswered
  <1>3. Frames
    BY DEF Frames
  <1>4. Visited
    <2>1. next = 0 => Targets = <<>>
      OBVIOUS
    <2>2. \A k \in DOMAIN scope.folders : ~(k < next)
      BY <1>t DEF Parts
    <2>3. Len(answers) = 0 /\ DOMAIN answers = {}
      OBVIOUS
    <2> QED
      BY <2>1, <2>2, <2>3 DEF Visited
  <1>5. Covered /\ FoundOnce /\ NothingOutOfScope
    BY DEF Covered, FoundOnce, EachJobOnce, NothingOutOfScope
  <1> QED
    BY <1>1, <1>2, <1>3, <1>4, <1>5 DEF IInv

LEMMA StepInv == IInv /\ [Next]_vars => IInv'
  BY StepType, StepFrames, StepBase, StepVisited, StepCovered, StepFoundOnce, StepInScope DEF IInv

(* Every reachable state of the walk satisfies the strengthened invariant. *)
THEOREM Invariance == Spec => []IInv
  BY InitInv, StepInv, PTL DEF Spec

(* The walk keeps to the tree, the flags and the containers it knows.      *)
THEOREM TypeCorrect == Spec => []TypeOK
  <1>1. IInv => TypeOK
    BY DEF IInv
  <1> QED
    BY Invariance, <1>1, PTL

(* Positions of flags before the one past the last.                        *)
LEMMA PastTheEnd ==
  ASSUME NEW m \in Nat, NEW n \in Nat, NEW t, t = m + n, NEW x, x = t + 1
  PROVE  /\ \A k \in 1 .. m : k < x
         /\ \A k \in 1 .. n : m + k < x
  OBVIOUS

(* The position of the k-th --job among all targets.                       *)
LEMMA PositionOfJob ==
  ASSUME NEW m \in Nat, NEW n \in Nat, NEW k \in 1 .. n
  PROVE  /\ m + k \in 1 .. m + n
         /\ m + k > m
         /\ (m + k) - m = k
  OBVIOUS

(* A walk that ends well has found every job in scope that was there all   *)
(* the time and in every listing taken, or says which container above it   *)
(* could not be listed: for every tree, every change to it, every failure, *)
(* every foreign answer and every overlap of the flags.                    *)
THEOREM NoJobIsLost == Spec => []NoJobLost
  <1>1. IInv => NoJobLost
    <2> SUFFICES ASSUME IInv, phase = "done", NEW j \in Job \ gone,
                        \/ InScopeOfFolders(j)
                        \/ \E k \in DOMAIN scope.jobs :
                             scope.jobs[k] = j /\ ~Strayed(Len(scope.folders) + k)
                 PROVE  found[j] > 0 \/ Above(j) \cap unlisted # {}
      BY DEF NoJobLost
    <2> USE DEF IInv
    <2>1. call = None /\ at = None /\ page = None /\ next = Len(Targets) + 1
      BY DEF Visited, Frames
    <2>n. next = Len(Targets) + 1
      BY <2>1
    <2>p. Parts(scope.folders, scope.jobs, Targets)
      BY TargetsAre DEF TypeOK
    <2>2. Due = {} /\ Calling \subseteq {None} /\ None \notin Above(j)
      <3>1. None \notin Above(j)
        BY Domains, PlacesAbove
      <3> QED
        BY <2>1, <3>1 DEF Due, Frames, Calling
    <2>3. ASSUME NEW c \in listed, Leads(c, j)
          PROVE  found[j] > 0 \/ Above(j) \cap unlisted # {}
      BY <2>2, <2>3 DEF Covered, Cover
    <2>4. CASE Targets = <<>> /\ Leads(TopLevel, j)
      <3>1. next = 1 /\ TopLevel # None
        BY <2>1, <2>4, Domains
      <3>2. TopLevel \in listed
        BY <2>1, <2>4, <3>1 DEF Visited
      <3> QED
        BY <2>3, <2>4, <3>2
    <2>5. ASSUME NEW k \in DOMAIN scope.folders, Leads(scope.folders[k], j)
          PROVE  found[j] > 0 \/ Above(j) \cap unlisted # {}
      <3>d. k \in 1 .. Len(scope.folders)
        BY <2>p DEF Parts
      <3>m. /\ Len(scope.folders) \in Nat /\ Len(scope.jobs) \in Nat
            /\ Len(Targets) = Len(scope.folders) + Len(scope.jobs)
        BY <2>p DEF Parts
      <3>1. k < next
        BY <2>n, <3>d, <3>m, PastTheEnd
      <3>n. scope.folders[k] # None
        BY TargetsAre, Domains DEF TypeOK
      <3>2. scope.folders[k] \in listed
        BY <2>1, <3>1, <3>n DEF Visited
      <3> QED
        BY <2>3, <2>5, <3>2
    <2>6. ASSUME NEW k \in DOMAIN scope.jobs, scope.jobs[k] = j, ~Strayed(Len(scope.folders) + k)
          PROVE  found[j] > 0
      <3>d. k \in 1 .. Len(scope.jobs)
        BY <2>p DEF Parts
      <3>m. /\ Len(scope.folders) \in Nat /\ Len(scope.jobs) \in Nat
            /\ Len(Targets) = Len(scope.folders) + Len(scope.jobs)
        BY <2>p DEF Parts
      <3> PICK q : q = Len(scope.folders) + k
        OBVIOUS
      <3>1. q \in 1 .. Len(Targets) /\ q > Len(scope.folders) /\ q - Len(scope.folders) = k
        BY <3>d, <3>m, PositionOfJob
      <3>t. DOMAIN Targets = 1 .. Len(Targets) /\ Len(Targets) \in Nat
        BY <2>p DEF Parts
      <3>2. Targets[q] = j
        BY <2>p, <2>6, <3>1, <3>t DEF Parts
      <3>3. Len(answers) = Len(Targets) /\ DOMAIN answers = 1 .. Len(answers)
        <4>1. Targets # <<>>
          BY <3>1, <3>t
        <4>2. Len(answers) + 1 = next /\ answers \in Seq(Item) /\ Len(answers) \in Nat
          BY <4>1 DEF Visited, TypeOK
        <4>3. DOMAIN answers = 1 .. Len(answers)
          BY <4>2
        <4>4. \A x, y \in Nat : x + 1 = y + 1 => x = y
          OBVIOUS
        <4>5. Len(answers) = Len(Targets)
          BY <2>n, <3>t, <4>2, <4>4
        <4> QED
          BY <4>3, <4>5
      <3>4. q \in DOMAIN answers /\ answers[q] = j
        BY <2>6, <3>1, <3>2, <3>3 DEF Strayed
      <3> QED
        BY <3>1, <3>4 DEF Visited
    <2> QED
      BY <2>4, <2>5, <2>6 DEF InScopeOfFolders
  <1> QED
    BY Invariance, <1>1, PTL

(* However the flags overlap, a job is in the snapshot once.               *)
THEOREM NoJobTwice == Spec => []EachJobOnce
  <1>1. IInv => EachJobOnce
    BY DEF IInv, FoundOnce
  <1> QED
    BY Invariance, <1>1, PTL

(* Whatever the listings hold, the walk stays inside the folders the flags *)
(* name, and brings no job but those they ask for and what a lookup that   *)
(* went astray brought.                                                    *)
THEOREM OnlyInScope == Spec => []NothingOutOfScope
  <1>1. IInv => NothingOutOfScope
    BY DEF IInv
  <1> QED
    BY Invariance, <1>1, PTL

=============================================================================
