---------------------------- MODULE ScanProofs ----------------------------
(***************************************************************************)
(* The files of a scan, and the scan.                                      *)
(*                                                                         *)
(* First writePrivate by itself: it replaces files as a whole, for any     *)
(* destinations, contents and files that stood there before; a refused     *)
(* system call, a kill or a power cut at any step leaves no torn and no    *)
(* readable file.                                                          *)
(*                                                                         *)
(* Then one invocation of scan after the other, its only caller, for any   *)
(* command lines, settings, jobs and controls: what stands on the disk is  *)
(* always whole, an exit with a verdict has delivered the report behind    *)
(* it, a capture evaluated again from disk is judged as it was when it     *)
(* was fetched but for exceptions that lapsed, and the settings are what   *)
(* the documents say.                                                      *)
(***************************************************************************)
EXTENDS Scan, SequenceTheorems, FiniteSetTheorems, TLAPS

Started == {"chmod", "write", "sync", "close", "rename"}

(* What may stand at a path: a file from before, or one that a call wrote. *)
Sound(f) ==
  /\ f \in File /\ f.whole /\ f.synced
  /\ Shown(f) \in {Shown(b) : b \in Before} \cup [content: Content, whole: {TRUE}, private: {TRUE}]

(* The temporary file as each step leaves it: it is private from its first *)
(* moment, and no step of a call that has not failed is missing.           *)
TempSound ==
  /\ call \in [at: Steps, path: Path, content: Content \cup {Nothing}, broken: BOOLEAN]
  /\ call.at \in {"mkdir", "create"} \cup Started => call.content \in Content
  /\ call.at \in Started => temp \in File /\ temp.content = call.content /\ temp.private
  /\ call.at \in {"sync", "close"} /\ ~call.broken => temp.whole
  /\ call.at = "close" /\ ~call.broken => temp.synced
  /\ call.at = "rename" => temp.whole /\ temp.synced
  /\ call.at = "clean" => call.broken

DiskSound ==
  /\ disk \in [Path -> File] /\ kept \in [Path -> File]
  /\ \A p \in Path : Sound(disk[p]) /\ Sound(kept[p])

IInv == DiskSound /\ TempSound

LEMMA BeforeSound == \A f \in Before : Sound(f)
  BY PrivateFileAssumption DEF Sound, File

LEMMA TornSound ==
  ASSUME NEW f, Sound(f)
  PROVE  Torn(f) = f
  BY DEF Sound, Torn, File

LEMMA InitInv == FileInit => IInv
  <1> SUFFICES ASSUME FileInit PROVE IInv
    OBVIOUS
  <1>1. DiskSound
    <2>1. disk \in [Path -> File] /\ kept \in [Path -> File]
      BY BeforeSound DEF FileInit, Sound
    <2> QED
      BY <2>1, BeforeSound DEF FileInit, DiskSound
  <1>2. TempSound
    <2>1. PICK p \in Path : call = Idle(p)
      BY DEF FileInit
    <2>2. call.at = "idle"
      BY <2>1 DEF Idle
    <2>3. call \in [at: Steps, path: Path, content: Content \cup {Nothing}, broken: BOOLEAN]
      BY <2>1 DEF Idle, Steps
    <2> QED
      BY <2>2, <2>3 DEF TempSound, Started
  <1> QED
    BY <1>1, <1>2 DEF IInv

(* What a caller does between two calls.                                   *)
LEMMA BeginInv ==
  ASSUME IInv, NEW p \in Path, NEW c \in Content, Begin(p, c)
  PROVE  IInv'
  BY DEF IInv, Begin, DiskSound, TempSound, Steps, Started

LEMMA DoneInv == IInv /\ Done => IInv'
  BY DEF IInv, Done, DiskSound, TempSound, Idle, Steps, Started

(* The steps of a call.                                                    *)
LEMMA WriteInv == IInv /\ WritePrivate => IInv'
  <1> SUFFICES ASSUME IInv, WritePrivate PROVE IInv'
    OBVIOUS
  <1> USE DEF IInv
  <1>1. CASE MakeDir
    BY <1>1 DEF MakeDir, DiskSound, TempSound, Steps, Started
  <1>2. CASE Create
    <2>1. DiskSound'
      BY <1>2 DEF Create, DiskSound
    <2>2. call' \in [at: Steps, path: Path, content: Content \cup {Nothing}, broken: BOOLEAN]
      BY <1>2 DEF Create, TempSound, Steps
    <2>3. CASE call'.at = "returned"
      BY <2>1, <2>2, <2>3 DEF TempSound, Started
    <2>4. CASE call'.at # "returned"
      <3>1. /\ temp' = [content |-> call.content, whole |-> FALSE, private |-> TRUE, synced |-> FALSE]
            /\ call' = [call EXCEPT !.at = "chmod"]
        BY <1>2, <2>4 DEF Create, TempSound
      <3>2. call.content \in Content
        BY <1>2 DEF Create, TempSound
      <3>3. temp' \in File /\ temp'.content = call'.content /\ temp'.private
        BY <3>1, <3>2 DEF TempSound, File
      <3>4. call'.at = "chmod" /\ call'.content \in Content
        BY <3>1, <3>2 DEF TempSound
      <3> QED
        BY <2>1, <2>2, <3>3, <3>4 DEF TempSound, Started
    <2> QED
      BY <2>3, <2>4
  <1>3. CASE Chmod
    <2>1. DiskSound'
      BY <1>3 DEF Chmod, Try, DiskSound
    <2>2. TempSound'
      BY <1>3 DEF Chmod, Try, TempSound, Steps, Started, File
    <2> QED
      BY <2>1, <2>2
  <1>4. CASE Write
    <2>1. DiskSound'
      BY <1>4 DEF Write, Try, DiskSound
    <2>2. TempSound'
      BY <1>4 DEF Write, Try, TempSound, Steps, Started, File
    <2> QED
      BY <2>1, <2>2
  <1>5. CASE Sync
    <2>1. DiskSound'
      BY <1>5 DEF Sync, Try, DiskSound
    <2>2. TempSound'
      BY <1>5 DEF Sync, Try, TempSound, Steps, Started, File
    <2> QED
      BY <2>1, <2>2
  <1>6. CASE Close
    <2>1. DiskSound'
      BY <1>6 DEF Close, DiskSound
    <2>2. TempSound'
      BY <1>6 DEF Close, TempSound, Steps, Started
    <2> QED
      BY <2>1, <2>2
  <1>7. CASE Rename
    <2>1. DiskSound'
      <3>1. Sound(temp)
        BY <1>7 DEF Rename, TempSound, Started, Sound, Shown, File
      <3>2. kept' = kept /\ (disk' = disk \/ disk' = [disk EXCEPT ![call.path] = temp])
        BY <1>7 DEF Rename
      <3>3. temp \in File
        BY <3>1 DEF Sound
      <3>4. disk' \in [Path -> File] /\ \A p \in Path : disk'[p] \in {disk[p], temp}
        BY <3>2, <3>3 DEF DiskSound
      <3>5. \A p \in Path : Sound(disk'[p])
        BY <3>1, <3>4 DEF DiskSound
      <3> QED
        BY <3>2, <3>4, <3>5 DEF DiskSound
    <2>2. TempSound'
      BY <1>7 DEF Rename, TempSound, Steps, Started
    <2> QED
      BY <2>1, <2>2
  <1>8. CASE Clean
    BY <1>8 DEF Clean, DiskSound, TempSound, Steps, Started
  <1> QED
    BY <1>1, <1>2, <1>3, <1>4, <1>5, <1>6, <1>7, <1>8 DEF WritePrivate

(* What can happen at any moment.                                          *)
LEMMA SettleInv ==
  ASSUME IInv, NEW p \in Path, Settle(p)
  PROVE  IInv'
  <1>1. DiskSound'
    BY DEF IInv, Settle, DiskSound
  <1>2. TempSound'
    BY DEF IInv, Settle, TempSound
  <1> QED
    BY <1>1, <1>2 DEF IInv

LEMMA DieInv == IInv /\ Die => IInv'
  BY DEF IInv, Die, DiskSound, TempSound, Idle, Steps, Started

LEMMA PowerCutInv == IInv /\ PowerCut => IInv' /\ disk' = kept /\ kept' = kept
  <1> SUFFICES ASSUME IInv, PowerCut PROVE IInv' /\ disk' = kept /\ kept' = kept
    OBVIOUS
  <1>1. [p \in Path |-> Torn(kept[p])] = [p \in Path |-> kept[p]]
    BY TornSound DEF IInv, DiskSound
  <1>2. disk' = [p \in Path |-> kept[p]] /\ kept' = disk'
    BY <1>1 DEF PowerCut
  <1>3. DiskSound'
    BY <1>2 DEF IInv, DiskSound
  <1>4. TempSound'
    BY DEF PowerCut, IInv, TempSound, Idle, Steps, Started
  <1>5. disk' = kept /\ kept' = kept
    BY <1>2 DEF IInv, DiskSound
  <1> QED
    BY <1>3, <1>4, <1>5 DEF IInv

LEMMA NextInv == IInv /\ [FileNext]_fileVars => IInv'
  <1>1. IInv /\ UNCHANGED fileVars => IInv'
    BY DEF IInv, fileVars, DiskSound, TempSound
  <1> QED
    BY <1>1, BeginInv, DoneInv, WriteInv, SettleInv, DieInv, PowerCutInv DEF FileNext

(* On disk, and on what a power cut would leave, is only ever a whole file *)
(* from before or one that a completed call wrote for its owner alone.     *)
THEOREM Invariance == FileSpec => []IInv
  <1> QED
    BY InitInv, NextInv, PTL DEF FileSpec

-----------------------------------------------------------------------------
(* Each step is a step of WholeFile, or none. *)

LEMMA InitImplements == FileInit => Whole!Init
  <1> SUFFICES ASSUME FileInit PROVE Whole!Init
    OBVIOUS
  <1>1. \A p \in Path : ShownAt(disk)[p] \in {Shown(f) : f \in Before}
    BY DEF FileInit, ShownAt
  <1> QED
    BY <1>1 DEF FileInit, Whole!Init, ShownAt

LEMMA RenameImplements ==
  ASSUME IInv, Rename
  PROVE  Whole!Next \/ UNCHANGED Whole!vars
  <1>1. CASE UNCHANGED disk
    BY <1>1 DEF Rename, Whole!vars, ShownAt
  <1>2. CASE disk' = [disk EXCEPT ![call.path] = temp]
    <2> DEFINE p == call.path
    <2>1. p \in Path /\ call.content \in Content
      BY DEF Rename, IInv, TempSound, Started
    <2>2. temp.content = call.content /\ temp.whole /\ temp.private /\ temp \in File
      BY DEF Rename, IInv, TempSound, Started
    <2>3. Shown(temp) \in Whole!File
      BY <2>1, <2>2 DEF Shown, Whole!File
    <2>4. \A q \in Path : ShownAt(disk')[q] = IF q = p THEN Shown(temp) ELSE ShownAt(disk)[q]
      BY <1>2, <2>1 DEF IInv, DiskSound, ShownAt
    <2>5. ShownAt(disk') = [ShownAt(disk) EXCEPT ![p] = ShownAt(disk')[p]]
      BY <2>1, <2>4 DEF ShownAt
    <2>6. Whole!Replace(p)
      BY <2>1, <2>3, <2>4, <2>5 DEF Rename, Whole!Replace, ShownAt
    <2> QED
      BY <2>1, <2>6 DEF Whole!Next
  <1> QED
    BY <1>1, <1>2 DEF Rename

LEMMA SettleImplements ==
  ASSUME IInv, NEW p \in Path, Settle(p)
  PROVE  Whole!Next
  <1>1. \A q \in Path : kept'[q] = IF q = p THEN disk[p] ELSE kept[q]
    BY DEF Settle, IInv, DiskSound
  <1>2. ShownAt(kept') = [ShownAt(kept) EXCEPT ![p] = ShownAt(disk)[p]]
    BY <1>1 DEF ShownAt
  <1>3. Whole!Settle(p)
    BY <1>2 DEF Settle, Whole!Settle
  <1> QED
    BY <1>3 DEF Whole!Next

LEMMA NextImplements == IInv /\ [FileNext]_fileVars => [Whole!Next]_(Whole!vars)
  <1> SUFFICES ASSUME IInv, [FileNext]_fileVars PROVE Whole!Next \/ UNCHANGED Whole!vars
    OBVIOUS
  <1>1. CASE UNCHANGED <<disk, kept>>
    BY <1>1 DEF Whole!vars, ShownAt
  <1>2. CASE Rename
    BY <1>2, RenameImplements
  <1>3. CASE \E p \in Path : Settle(p)
    BY <1>3, SettleImplements
  <1>4. CASE PowerCut
    BY <1>4, PowerCutInv DEF Whole!Next, Whole!PowerCut, ShownAt
  <1> QED
    BY <1>1, <1>2, <1>3, <1>4
    DEF FileNext, fileVars, WritePrivate, Begin, Done, MakeDir, Create, Chmod, Try, Write, Sync,
        Close, Clean, Die

(* However the calls, the file system's refusals, kills and power cuts     *)
(* follow each other, writePrivate implements the replacement of whole     *)
(* files.                                                                  *)
THEOREM ReplacesWholeFiles == FileSpec => ImplementsWholeFile
  <1> QED
    BY Invariance, InitImplements, NextImplements, PTL
    DEF FileSpec, ImplementsWholeFile, Whole!Spec

-----------------------------------------------------------------------------
(* The scan *)

WithReport == {"render", "print", "deliver", "delivering", "gate"}
WithSnapshot == {"keep", "keeping", "evaluate"} \cup WithReport

Early == {"options", "config", "snapshot", "fetch"}

(* Every invocation has one of the command lines, and the log goes before. *)
Invoked ==
  /\ {opts.in, opts.out, opts.report} \subseteq Path \cup {None}
  /\ \E S : log \in Seq(S)
  /\ Len(log) < Len(Options)
  /\ \A e \in Cfg.exceptions : e.expires \in Int
  /\ today \in 0 .. LastDay

(* What is in memory, by the step that the invocation has come to.         *)
InMemory ==
  /\ pc \in WithSnapshot => snapshot \in Snapshots
  /\ pc \in Early => snapshot = NoContent
  /\ pc \in WithReport => report.of = snapshot /\ report.kind = "report"
  /\ pc \in Early \cup {"keep", "keeping", "evaluate"} => report = NoContent
  /\ report.kind \in {"nothing", "report"}
  /\ report.kind = "report" =>
       /\ snapshot \in Snapshots /\ report \in Content
       /\ report = ReportOf(snapshot, Cfg, report.errors, today)
  /\ pc # "exited" => exit = -1
  /\ exit \in {0, 1} => report.kind = "report" /\ exit = ExitStatus(report, Cfg)

(* A call of writePrivate is under way exactly while its caller waits.     *)
Saves(place, path, content) ==
  pc = place =>
    /\ path # None /\ call.at # "idle"
    /\ call.path = path /\ call.content = content
    /\ call.at = "returned" /\ ~call.broken => disk[path].content = content

Calls ==
  /\ pc \notin {"keeping", "delivering"} => call.at = "idle"
  /\ Saves("keeping", opts.out, Encode(snapshot))
  /\ Saves("delivering", opts.report, report)

(* What the invocation has delivered before it comes to its verdict.       *)
Delivered ==
  /\ pc \in {"evaluate", "render", "print", "deliver"} =>
       (opts.out # None => disk[opts.out].content = Encode(snapshot))
  /\ pc \in {"delivering", "gate"} =>
       (opts.out \notin {None, opts.report} => disk[opts.out].content = Encode(snapshot))
  /\ pc = "print" => opts.report = None
  /\ pc = "deliver" => opts.report # None
  /\ pc = "gate" => IF opts.report = None THEN stdout = report
                    ELSE disk[opts.report].content = report

(* The log says of every earlier invocation what InMemory says of this one.*)
Logged ==
  \A k \in DOMAIN log :
    LET other == log[k] IN
    /\ other.report.kind = "report" =>
         /\ other.snapshot \in Snapshots /\ other.report.on \in 0 .. today
         /\ other.report =
              ReportOf(other.snapshot, other.cfg, other.report.errors, other.report.on)
    /\ other.exit \in {0, 1} => other.exit = ExitStatus(other.report, other.cfg)

ScanInv == Invoked /\ InMemory /\ Calls /\ Delivered /\ Logged

LEMMA PathsGiven ==
  ASSUME NEW k \in 1 .. Len(Options), NEW o \in Options[k]
  PROVE  /\ {o.in, o.out, o.report} \subseteq Path \cup {None}
         /\ \A e \in Load(Documents(o.given, o.places, o.sets)).exceptions : e.expires \in Int
  BY ScanAssumption

(* Nothing is lost on the way to the disk and back.                        *)
LEMMA RoundTrip ==
  ASSUME NEW snap \in Snapshots
  PROVE  Decode(Encode(snap)) = snap /\ Encode(snap).kind = "snapshot"
  <1> DEFINE Fields == {"kind", "by", "jobs", "complete", "schemaVersion", "platform"}
  <1>1. DOMAIN snap = Fields /\ DOMAIN Zero = Fields /\ Zero.jobs = {}
    BY DEF Snapshots, Zero
  <1>2. \A key \in Fields : key \in DOMAIN Encode(snap) => Encode(snap)[key] = snap[key]
    BY <1>1 DEF Encode
  <1>3. \A key \in Fields : key \notin DOMAIN Encode(snap) => snap[key] = Zero[key]
    BY <1>1 DEF Encode
  <1>4. \A key \in Fields : Decode(Encode(snap))[key] = snap[key]
    BY <1>1, <1>2, <1>3 DEF Decode
  <1>5. Decode(Encode(snap)) = [key \in Fields |-> Decode(Encode(snap))[key]]
    BY <1>1 DEF Decode
  <1>6. snap = [key \in Fields |-> snap[key]]
    BY <1>1 DEF Snapshots
  <1>7. Decode(Encode(snap)) = snap
    BY <1>4, <1>5, <1>6
  <1>8. Encode(snap).kind = "snapshot"
    BY <1>1, <1>2 DEF Encode, Snapshots
  <1> QED
    BY <1>7, <1>8

LEMMA NotReadable == NoContent \notin Snapshots /\ NoContent.kind = "nothing"
  BY DEF NoContent, Snapshots

LEMMA ScanInit == Init => FileInit /\ ScanInv
  <1> SUFFICES ASSUME Init PROVE FileInit /\ ScanInv
    OBVIOUS
  <1> USE DEF Init
  <1>1. Invoked
    <2>1. log \in Seq({}) /\ Len(log) = 0
      OBVIOUS
    <2>2. opts \in Options[1] /\ 1 \in 1 .. Len(Options) /\ 0 < Len(Options)
      BY ScanAssumption
    <2> QED
      BY <2>1, <2>2, PathsGiven, ScanAssumption DEF Invoked, Cfg, Docs
  <1>2. InMemory /\ Calls /\ Delivered /\ Logged
    <2>1. call.at = "idle"
      BY DEF FileInit, Idle
    <2> QED
      BY <2>1, NotReadable
      DEF InMemory, Calls, Saves, Delivered, Logged, WithSnapshot, WithReport, Early
  <1> QED
    BY <1>1, <1>2 DEF ScanInv

-----------------------------------------------------------------------------
(* A scan changes files only through writePrivate. *)

LEMMA FileStep == ScanInv /\ [Next]_vars => [FileNext]_fileVars
  <1> SUFFICES ASSUME ScanInv, [Next]_vars PROVE FileNext \/ UNCHANGED fileVars
    BY DEF FileNext
  <1>1. CASE SaveSnapshot
    <2>1. CASE opts.out = None
      BY <1>1, <2>1 DEF SaveSnapshot
    <2>2. CASE opts.out # None
      <3>1. Begin(opts.out, Encode(snapshot)) /\ opts.out \in Path /\ Encode(snapshot) \in Content
        BY <1>1, <2>2, ContentAssumption
        DEF SaveSnapshot, ScanInv, Invoked, InMemory, WithSnapshot
      <3> QED
        BY <3>1 DEF FileNext
    <2> QED
      BY <2>1, <2>2
  <1>2. CASE SaveReport
    <2>1. Begin(opts.report, report) /\ opts.report \in Path /\ report \in Content
      BY <1>2 DEF SaveReport, ScanInv, Invoked, InMemory, Delivered, WithReport
    <2> QED
      BY <2>1 DEF FileNext
  <1>3. CASE SnapshotSaved \/ ReportSaved \/ Writing \/ Kill \/ StopMachine \/ SettleSome
    BY <1>3 DEF SnapshotSaved, ReportSaved, Writing, Kill, StopMachine, SettleSome, FileNext
  <1>4. CASE CheckOptions \/ Configure \/ ReadSnapshot \/ Connect \/ FetchAnswers \/ FetchFails
    BY <1>4 DEF CheckOptions, Configure, ReadSnapshot, Connect, FetchAnswers, FetchFails, Keeping
  <1>5. CASE EvaluateSnapshot \/ Render \/ PrintReport \/ Exit \/ Interrupt \/ Again \/ UNCHANGED vars
    BY <1>5 DEF EvaluateSnapshot, Render, PrintReport, Exit, Interrupt, Again, Keeping, vars
  <1> QED
    BY <1>1, <1>2, <1>3, <1>4, <1>5 DEF Next

-----------------------------------------------------------------------------
(* The steps that only compute. *)

LEMMA SameInvocation ==
  ASSUME ScanInv, opts' = opts, log' = log, today' = today
  PROVE  Invoked' /\ Logged'
  BY DEF ScanInv, Invoked, Logged, Cfg, Docs

LEMMA EarlyInv ==
  ASSUME ScanInv, CheckOptions \/ Configure \/ Connect \/ FetchFails
  PROVE  ScanInv'
  <1> USE DEF CheckOptions, Configure, Connect, FetchFails, Keeping, Goto, ExitWith, fileVars
  <1>1. /\ UNCHANGED <<disk, call, opts, today, log, snapshot, report, stdout>>
        /\ pc \in Early
        /\ \/ pc' \in Early /\ exit' = exit
           \/ pc' = "exited" /\ exit' = 2
    <2>1. CASE CheckOptions
      BY <2>1 DEF Early
    <2>2. CASE Configure
      BY <2>2 DEF Early
    <2>3. CASE Connect
      BY <2>3 DEF Early
    <2>4. CASE FetchFails
      BY <2>4 DEF Early
    <2> QED
      BY <2>1, <2>2, <2>3, <2>4
  <1>2. InMemory'
    BY <1>1 DEF ScanInv, InMemory, Early, WithSnapshot, WithReport, Cfg, Docs
  <1>3. Calls' /\ Delivered'
    BY <1>1 DEF ScanInv, Calls, Saves, Delivered, Early
  <1> QED
    BY <1>1, <1>2, <1>3, SameInvocation DEF ScanInv

LEMMA SnapshotInv ==
  ASSUME ScanInv, IInv, ReadSnapshot \/ FetchAnswers
  PROVE  ScanInv'
  <1>1. UNCHANGED <<disk, call, opts, today, log, report, stdout>> /\ pc \in Early
    BY DEF ReadSnapshot, FetchAnswers, Keeping, fileVars, Early
  <1>2. \/ pc' = "keep" /\ exit' = exit /\ snapshot' \in Snapshots
        \/ pc' = "exited" /\ exit' = 2 /\ snapshot' = snapshot
    <2>1. CASE ReadSnapshot /\ pc' # "exited"
      <3>1. /\ opts.in \in Path /\ Readable(disk[opts.in]) /\ snapshot' = Decode(disk[opts.in].content)
            /\ pc' = "keep" /\ exit' = exit
        BY <2>1 DEF ScanInv, Invoked, ReadSnapshot, Goto, ExitWith
      <3>2. disk[opts.in].content \in Content \cup {Nothing}
        BY <3>1 DEF IInv, DiskSound, File
      <3>3. snapshot' \in Snapshots
        BY <3>1, <3>2, ContentAssumption, NotReadable DEF Readable, Snapshots
      <3> QED
        BY <3>1, <3>3
    <2>3. CASE ReadSnapshot /\ pc' = "exited"
      BY <2>3 DEF ReadSnapshot, Goto, ExitWith
    <2>2. CASE FetchAnswers
      <3>1. PICK jobs \in SUBSET Job, complete \in BOOLEAN :
              snapshot' = [kind |-> "snapshot", by |-> Len(log) + 1, jobs |-> jobs,
                           complete |-> complete, schemaVersion |-> "this build's",
                           platform |-> "jenkins"]
        BY <2>2 DEF FetchAnswers
      <3>2. Len(log) + 1 \in 0 .. Len(Options)
        <4>1. PICK S : log \in Seq(S)
          BY DEF ScanInv, Invoked
        <4>2. Len(log) \in Nat /\ Len(log) < Len(Options)
          BY <4>1, LenProperties DEF ScanInv, Invoked
        <4>3. Len(Options) \in Nat
          BY ScanAssumption
        <4> QED
          BY <4>2, <4>3
      <3>3. snapshot' \in Snapshots
        BY <3>1, <3>2 DEF Snapshots
      <3> QED
        BY <2>2, <3>3 DEF FetchAnswers, Goto
    <2> QED
      BY <2>1, <2>2, <2>3
  <1>3. InMemory'
    <2>1. report = NoContent /\ report.kind = "nothing" /\ exit = -1 /\ pc # "exited"
      BY <1>1, NotReadable DEF ScanInv, InMemory, Early
    <2> QED
      BY <1>1, <1>2, <2>1 DEF InMemory, Early, WithSnapshot, WithReport
  <1>4. Calls' /\ Delivered'
    BY <1>1, <1>2 DEF ScanInv, Calls, Saves, Delivered, Early
  <1> QED
    BY <1>1, <1>3, <1>4, SameInvocation DEF ScanInv

LEMMA EvaluateInv ==
  ASSUME ScanInv, EvaluateSnapshot
  PROVE  ScanInv'
  <1> USE DEF EvaluateSnapshot, Goto, ExitWith, fileVars
  <1>1. UNCHANGED <<disk, call, opts, log, snapshot, stdout>> /\ pc = "evaluate"
    OBVIOUS
  <1>2. \/ pc' = "exited" /\ exit' = 2 /\ report' = report /\ today' = today
        \/ /\ pc' = "render" /\ exit' = exit /\ today' \in today .. LastDay
           /\ \E errors \in BOOLEAN : report' = ReportOf(snapshot, Cfg, errors, today')
    OBVIOUS
  <1>t. today' \in 0 .. LastDay /\ \A day \in 0 .. today : day \in 0 .. today'
    BY <1>2, ScanAssumption DEF ScanInv, Invoked
  <1>i. Invoked' /\ Logged'
    BY <1>1, <1>t DEF ScanInv, Invoked, Logged, Cfg, Docs
  <1>3. \A errors \in BOOLEAN : ReportOf(snapshot, Cfg, errors, today') \in Content
    <2>1. snapshot \in Snapshots /\ snapshot.jobs \subseteq Job
      BY <1>1 DEF ScanInv, InMemory, WithSnapshot, Snapshots
    <2>2. Eligible(snapshot, Cfg) \subseteq Job /\ Selected(Cfg) \subseteq Control
      BY <2>1 DEF Eligible, Selected
    <2>3. Failures(Selected(Cfg), Eligible(snapshot, Cfg)) \subseteq Control \X Job
      BY <2>2 DEF Failures
    <2>4. Accepted(Cfg, Failures(Selected(Cfg), Eligible(snapshot, Cfg)), today') \in SUBSET (Control \X Job)
      BY <2>3 DEF Accepted
    <2> QED
      BY <2>1, <2>2, <2>4, <1>t, ContentAssumption DEF ReportOf
  <1>4. InMemory'
    <2>0. Cfg' = Cfg
      BY <1>1 DEF Cfg, Docs
    <2>1. CASE pc' = "exited"
      BY <1>1, <1>2, <2>0, <2>1, NotReadable
      DEF ScanInv, InMemory, Early, WithSnapshot, WithReport
    <2>2. CASE pc' = "render"
      <3>1. PICK errors \in BOOLEAN : report' = ReportOf(snapshot, Cfg, errors, today')
        BY <1>2, <2>2
      <3>2. report'.of = snapshot /\ report'.kind = "report" /\ report'.errors = errors
        BY <3>1 DEF ReportOf
      <3>3. report' = ReportOf(snapshot, Cfg, report'.errors, today') /\ report' \in Content
        BY <1>3, <3>1, <3>2
      <3> QED
        BY <1>1, <1>2, <2>0, <2>2, <3>2, <3>3
        DEF ScanInv, InMemory, Early, WithSnapshot, WithReport
    <2> QED
      BY <1>2, <2>1, <2>2
  <1>5. Calls' /\ Delivered'
    BY <1>1, <1>2 DEF ScanInv, Calls, Saves, Delivered
  <1> QED
    BY <1>i, <1>4, <1>5 DEF ScanInv

LEMMA RenderInv ==
  ASSUME ScanInv, Render
  PROVE  ScanInv'
  <1>1. UNCHANGED <<disk, call, opts, today, log, snapshot, report>> /\ pc = "render"
    BY DEF Render, Keeping, fileVars
  <1>2. \/ pc' = "print" /\ exit' = exit /\ opts.report = None
        \/ pc' = "deliver" /\ exit' = exit /\ opts.report # None
        \/ pc' = "exited" /\ exit' = 2
    BY DEF Render, Goto, ExitWith
  <1>3. InMemory'
    <2>1. Cfg' = Cfg
      BY <1>1 DEF Cfg, Docs
    <2> QED
      BY <1>1, <1>2, <2>1 DEF ScanInv, InMemory, Early, WithSnapshot, WithReport
  <1>4. Calls' /\ Delivered'
    BY <1>1, <1>2 DEF ScanInv, Calls, Saves, Delivered
  <1> QED
    BY <1>1, <1>3, <1>4, SameInvocation DEF ScanInv

LEMMA PrintInv ==
  ASSUME ScanInv, PrintReport
  PROVE  ScanInv'
  <1>1. UNCHANGED <<disk, call, opts, today, log, snapshot, report>> /\ pc = "print"
    BY DEF PrintReport, Keeping, fileVars
  <1>2. \/ pc' = "gate" /\ exit' = exit /\ stdout' = report
        \/ pc' = "exited" /\ exit' = 2
    BY DEF PrintReport, Goto, ExitWith
  <1>3. InMemory'
    <2>1. Cfg' = Cfg
      BY <1>1 DEF Cfg, Docs
    <2> QED
      BY <1>1, <1>2, <2>1 DEF ScanInv, InMemory, Early, WithSnapshot, WithReport
  <1>4. Calls' /\ Delivered'
    BY <1>1, <1>2 DEF ScanInv, Calls, Saves, Delivered
  <1> QED
    BY <1>1, <1>3, <1>4, SameInvocation DEF ScanInv

LEMMA ExitInv ==
  ASSUME ScanInv, Exit
  PROVE  ScanInv'
  <1>1. /\ UNCHANGED <<disk, call, opts, today, log, snapshot, report>>
        /\ pc = "gate" /\ pc' = "exited" /\ exit' = ExitStatus(report, Cfg)
    BY DEF Exit, ExitWith, Keeping, fileVars
  <1>2. InMemory'
    <2>1. Cfg' = Cfg
      BY <1>1 DEF Cfg, Docs
    <2> QED
      BY <1>1, <2>1 DEF ScanInv, InMemory, Early, WithSnapshot, WithReport
  <1>3. Calls' /\ Delivered'
    BY <1>1 DEF ScanInv, Calls, Saves, Delivered
  <1> QED
    BY <1>1, <1>2, <1>3, SameInvocation DEF ScanInv

-----------------------------------------------------------------------------
(* The steps that write files. *)

(* No step of writePrivate but the last, a rename that succeeds, changes   *)
(* what is at a path, and that one only at the path of the call.           *)
LEMMA WritingKeeps ==
  ASSUME IInv, WritePrivate
  PROVE  /\ call.at # "idle" /\ call'.at # "idle"
         /\ call'.path = call.path /\ call'.content = call.content
         /\ \A p \in Path : p # call.path => disk'[p] = disk[p]
         /\ call'.at = "returned" /\ ~call'.broken => disk'[call.path].content = call.content
  <1> USE DEF IInv, TempSound
  <1>1. CASE MakeDir
    BY <1>1 DEF MakeDir
  <1>2. CASE Create
    BY <1>2 DEF Create
  <1>3. CASE Chmod \/ Write \/ Sync
    BY <1>3 DEF Chmod, Write, Sync, Try
  <1>4. CASE Close
    BY <1>4 DEF Close
  <1>5. CASE Rename
    BY <1>5 DEF Rename, Started, DiskSound
  <1>6. CASE Clean
    BY <1>6 DEF Clean
  <1> QED
    BY <1>1, <1>2, <1>3, <1>4, <1>5, <1>6 DEF WritePrivate

LEMMA WritingInv ==
  ASSUME ScanInv, IInv, Writing
  PROVE  ScanInv'
  <1>1. UNCHANGED scanVars /\ WritePrivate
    BY DEF Writing
  <1>2. InMemory'
    BY <1>1 DEF ScanInv, InMemory, scanVars, Cfg, Docs
  <1>3. Calls'
    BY <1>1, WritingKeeps DEF ScanInv, Calls, Saves, scanVars
  <1>4. Delivered'
    BY <1>1, WritingKeeps DEF ScanInv, Invoked, Calls, Saves, Delivered, scanVars
  <1> QED
    BY <1>1, <1>2, <1>3, <1>4, SameInvocation DEF ScanInv, scanVars

LEMMA SaveInv ==
  ASSUME ScanInv, SaveSnapshot \/ SaveReport
  PROVE  ScanInv'
  <1> USE DEF SaveSnapshot, SaveReport, Keeping, Goto, Begin, fileVars
  <1>1. UNCHANGED <<disk, opts, today, log, exit, snapshot, report, stdout>>
    OBVIOUS
  <1>2. InMemory'
    BY <1>1 DEF ScanInv, InMemory, Early, WithSnapshot, WithReport, Cfg, Docs
  <1>3. Calls'
    <2>1. CASE SaveSnapshot
      BY <2>1 DEF ScanInv, Calls, Saves
    <2>2. CASE SaveReport
      BY <2>2 DEF ScanInv, Calls, Saves, Delivered
    <2> QED
      BY <2>1, <2>2
  <1>4. Delivered'
    BY <1>1 DEF ScanInv, Delivered
  <1> QED
    BY <1>1, <1>2, <1>3, <1>4, SameInvocation DEF ScanInv

LEMMA SavedInv ==
  ASSUME ScanInv, SnapshotSaved \/ ReportSaved
  PROVE  ScanInv'
  <1> USE DEF SnapshotSaved, ReportSaved, Keeping, Goto, ExitWith, Done, fileVars
  <1>1. /\ UNCHANGED <<disk, opts, today, log, snapshot, report, stdout>>
        /\ pc \in {"keeping", "delivering"} /\ call' = Idle(call.path)
    OBVIOUS
  <1>2. \/ pc' = "exited" /\ exit' = 2
        \/ pc' \in {"evaluate", "gate"} /\ exit' = exit /\ ~call.broken /\ call.at = "returned"
    OBVIOUS
  <1>3. InMemory'
    <2>1. CASE SnapshotSaved
      BY <1>1, <2>1 DEF ScanInv, InMemory, Early, WithSnapshot, WithReport, Cfg, Docs
    <2>2. CASE ReportSaved
      BY <1>1, <2>2 DEF ScanInv, InMemory, Early, WithSnapshot, WithReport, Cfg, Docs
    <2> QED
      BY <2>1, <2>2
  <1>4. Calls'
    BY <1>1, <1>2 DEF ScanInv, Calls, Saves, Idle
  <1>5. Delivered'
    <2>1. CASE SnapshotSaved
      BY <1>1, <1>2, <2>1 DEF ScanInv, Calls, Saves, Delivered
    <2>2. CASE ReportSaved
      BY <1>1, <1>2, <2>2 DEF ScanInv, Calls, Saves, Delivered
    <2> QED
      BY <2>1, <2>2
  <1> QED
    BY <1>1, <1>3, <1>4, <1>5, SameInvocation DEF ScanInv

-----------------------------------------------------------------------------
(* What happens to an invocation, and the next one. *)

LEMMA StoppedInv ==
  ASSUME ScanInv, Kill \/ StopMachine
  PROVE  ScanInv'
  <1> USE DEF Kill, StopMachine, Die, PowerCut, Keeping, Goto, fileVars
  <1>1. /\ UNCHANGED <<opts, today, log, exit, snapshot, report, stdout>>
        /\ pc' = "exited" /\ call' = Idle(call.path)
    OBVIOUS
  <1>2. InMemory'
    BY <1>1 DEF ScanInv, InMemory, Early, WithSnapshot, WithReport, Cfg, Docs
  <1>3. Calls' /\ Delivered'
    BY <1>1 DEF Calls, Saves, Delivered, Idle
  <1> QED
    BY <1>1, <1>2, <1>3, SameInvocation DEF ScanInv

LEMMA QuietInv ==
  ASSUME ScanInv, Interrupt \/ SettleSome \/ UNCHANGED vars
  PROVE  ScanInv'
  <1>1. UNCHANGED <<disk, call, pc, opts, today, log, exit, snapshot, report, stdout>>
    BY DEF Interrupt, SettleSome, Settle, vars, scanVars, fileVars
  <1>2. InMemory'
    BY <1>1 DEF ScanInv, InMemory, Cfg, Docs
  <1>3. Calls' /\ Delivered'
    BY <1>1 DEF ScanInv, Calls, Saves, Delivered
  <1> QED
    BY <1>1, <1>2, <1>3, SameInvocation DEF ScanInv

LEMMA AgainInv ==
  ASSUME ScanInv, Again
  PROVE  ScanInv'
  <1> DEFINE entry == [cfg |-> Cfg, snapshot |-> snapshot, report |-> report, exit |-> exit]
  <1> USE DEF Again, fileVars
  <1>1. PICK S : log \in Seq(S)
    BY DEF ScanInv, Invoked
  <1>2. log \in Seq(S \cup {entry}) /\ log' = Append(log, entry)
    BY <1>1
  <1> HIDE DEF entry
  <1>3. /\ log' \in Seq(S \cup {entry}) /\ Len(log') = Len(log) + 1 /\ Len(log) \in Nat
        /\ \A k \in 1 .. Len(log) : log'[k] = log[k]
        /\ log'[Len(log) + 1] = entry
        /\ DOMAIN log = 1 .. Len(log) /\ DOMAIN log' = 1 .. Len(log')
    BY <1>2, AppendProperties, LenProperties
  <1>4. Invoked'
    <2>1. Len(log) + 2 \in 1 .. Len(Options) /\ Len(log') < Len(Options)
      <3>1. Len(Options) \in Nat
        BY ScanAssumption
      <3> QED
        BY <1>3, <3>1
    <2>2. /\ {opts'.in, opts'.out, opts'.report} \subseteq Path \cup {None}
          /\ \A e \in Load(Documents(opts'.given, opts'.places, opts'.sets)).exceptions : e.expires \in Int
      BY <2>1, PathsGiven
    <2> QED
      BY <1>3, <2>1, <2>2 DEF ScanInv, Invoked, Cfg, Docs
  <1>5. InMemory' /\ Calls' /\ Delivered'
    BY NotReadable
    DEF ScanInv, Calls, Saves, InMemory, Delivered, Early, WithSnapshot, WithReport
  <1>6. Logged'
    <2>1. /\ entry.report.kind = "report" =>
               /\ entry.snapshot \in Snapshots /\ entry.report.on \in 0 .. today
               /\ entry.report =
                    ReportOf(entry.snapshot, entry.cfg, entry.report.errors, entry.report.on)
          /\ entry.exit \in {0, 1} => entry.exit = ExitStatus(entry.report, entry.cfg)
      <3>1. report.kind = "report" =>
              report = ReportOf(snapshot, Cfg, report.errors, today) /\ today \in 0 .. today
        BY DEF ScanInv, InMemory, Invoked
      <3>2. report.kind = "report" => report.on = today
        BY <3>1 DEF ReportOf
      <3> QED
        BY <3>1, <3>2 DEF entry, ScanInv, InMemory
    <2>2. \A k \in DOMAIN log' : (k \in DOMAIN log /\ log'[k] = log[k]) \/ log'[k] = entry
      BY <1>3
    <2> QED
      BY <2>1, <2>2 DEF ScanInv, Logged
  <1> QED
    BY <1>4, <1>5, <1>6 DEF ScanInv

LEMMA ScanNext == ScanInv /\ IInv /\ [Next]_vars => ScanInv'
  <1> QED
    BY EarlyInv, SnapshotInv, EvaluateInv, RenderInv, PrintInv, ExitInv, WritingInv, SaveInv, SavedInv,
       StoppedInv, QuietInv, AgainInv
    DEF Next

(* What the proofs below rest on: each of the two invariants needs the     *)
(* other, as a file is sound only if it is a scan that writes it, and what *)
(* a scan has delivered is there only if writePrivate works.               *)
THEOREM Together == Spec => [](ScanInv /\ IInv)
  <1>1. Init => ScanInv /\ IInv
    BY ScanInit, InitInv
  <1>2. ScanInv /\ IInv /\ [Next]_vars => ScanInv' /\ IInv'
    BY ScanNext, FileStep, NextInv
  <1> QED
    BY <1>1, <1>2, PTL DEF Spec

-----------------------------------------------------------------------------
(* At every path stands, at every moment and after any number of           *)
(* invocations, a whole file: what was there or what one of them completed.*)
THEOREM FilesStayWhole == Spec => ImplementsWholeFile
  <1>1. Init => Whole!Init
    BY ScanInit, InitImplements
  <1>2. ScanInv /\ IInv /\ [Next]_vars => [Whole!Next]_(Whole!vars)
    BY FileStep, NextImplements
  <1> QED
    BY <1>1, <1>2, Together, PTL DEF Spec, ImplementsWholeFile, Whole!Spec

(* For any controls, jobs, settings and paths, an exit with 0 or 1 has     *)
(* delivered the whole report it speaks of, and kept the snapshot.         *)
THEOREM VerdictIsDelivered == Spec => ReportIsTheVerdict
  <1> DEFINE Act ==
        exit = -1 /\ exit' \in {0, 1} =>
          /\ report.of = snapshot /\ ~report.errors
          /\ IF opts.report = None THEN stdout = report
             ELSE disk[opts.report].content = report
          /\ opts.out \notin {None, opts.report} => disk[opts.out].content = Encode(snapshot)
  <1>1. ScanInv /\ [Next]_vars => [Act]_vars
    <2> SUFFICES ASSUME ScanInv, [Next]_vars, exit = -1, exit' \in {0, 1}
                 PROVE  Act
      OBVIOUS
    <2>1. Exit
      <3> USE DEF Goto, ExitWith
      <3>1. ~(CheckOptions \/ Configure \/ Connect \/ FetchFails)
        BY DEF CheckOptions, Configure, Connect, FetchFails
      <3>5. ~ReadSnapshot
        BY DEF ReadSnapshot
      <3>6. FetchAnswers => exit' = exit
        BY Zenon DEF FetchAnswers
      <3>2. ~(SaveSnapshot \/ SnapshotSaved \/ EvaluateSnapshot \/ SaveReport \/ ReportSaved)
        BY DEF SaveSnapshot, SnapshotSaved, EvaluateSnapshot, SaveReport, ReportSaved
      <3>3. ~Render /\ ~PrintReport
        BY DEF Render, PrintReport
      <3>4. ~(Writing \/ Interrupt \/ Kill \/ StopMachine \/ SettleSome \/ Again \/ UNCHANGED vars)
        BY DEF Writing, Interrupt, Kill, StopMachine, SettleSome, Again, vars, scanVars
      <3> QED
        BY <3>1, <3>2, <3>3, <3>4, <3>5, <3>6 DEF Next
    <2>2. ~report.errors
      BY <2>1 DEF Exit, ExitWith, ExitStatus
    <2> QED
      BY <2>1, <2>2 DEF Exit, ScanInv, InMemory, WithReport, Delivered
  <1> QED
    BY <1>1, Together, PTL DEF Spec, ReportIsTheVerdict

-----------------------------------------------------------------------------
(* A capture and its copies. *)

(* Every snapshot that there is: on the disk, on its way there, in memory  *)
(* and in the log.                                                         *)
Contents ==
  {disk[p].content : p \in Path} \cup {kept[p].content : p \in Path}
    \cup {temp.content, call.content}

Recorded == {snapshot} \cup {log[k].snapshot : k \in DOMAIN log}

Copies ==
  {Decode(c) : c \in {c \in Contents : c.kind = "snapshot"}}
    \cup {snap \in Recorded : snap.kind = "snapshot"}

(* Two copies of one capture are the same, and only this invocation can    *)
(* have made a capture that is its own.                                    *)
Faithful ==
  /\ \A a, b \in Copies : a.by = b.by /\ a.by # 0 => a = b
  /\ \A a \in Copies : a.by \in 0 .. Len(log) + 1
  /\ pc \in Early => \A a \in Copies : a.by # Len(log) + 1

LEMMA NoCopy == NoContent.kind # "snapshot" /\ Nothing = NoContent
  BY ContentAssumption DEF NoContent

LEMMA Counted == ScanInv => Len(log) \in Nat
  <1> SUFFICES ASSUME ScanInv PROVE Len(log) \in Nat
    OBVIOUS
  <1>1. PICK S : log \in Seq(S)
    BY DEF ScanInv, Invoked
  <1> QED
    BY <1>1, LenProperties

LEMMA FaithfulInit == Init => Faithful
  <1> SUFFICES ASSUME Init PROVE Faithful
    OBVIOUS
  <1>1. Contents \subseteq {f.content : f \in Before} \cup {Nothing}
    <2>1. \A p \in Path : disk[p] \in Before /\ kept[p] \in Before
      BY DEF Init, FileInit
    <2>2. temp.content = Nothing /\ call.content = Nothing
      BY DEF Init, FileInit, NoFile, Idle
    <2> QED
      BY <2>1, <2>2 DEF Contents
  <1>2. Recorded = {NoContent}
    BY DEF Init, Recorded
  <1>3. \A a \in Copies : a.by = 0
    BY <1>1, <1>2, NoCopy, ContentAssumption DEF Copies
  <1>4. Len(log) = 0
    BY DEF Init
  <1> QED
    BY <1>3, <1>4 DEF Faithful

(* What there is can only become less: no capture is made or changed.      *)
LEMMA NothingNew ==
  ASSUME ScanInv, Faithful, Contents' \subseteq Contents \cup {c \in Contents' : c.kind # "snapshot"},
         Recorded' \subseteq Recorded \cup {snap \in Recorded' : snap.kind # "snapshot"},
         Len(log') = Len(log) \/ Len(log') = Len(log) + 1,
         pc' \in Early => pc \in Early \/ Len(log') = Len(log) + 1
  PROVE  Faithful'
  <1>1. Copies' \subseteq Copies
    BY DEF Copies
  <1>2. Len(log) \in Nat
    BY Counted
  <1>3. \A a \in Copies' : a.by \in 0 .. Len(log) + 1
    BY <1>1 DEF Faithful
  <1>4. \A a \in Copies' : a.by \in 0 .. Len(log') + 1
    BY <1>2, <1>3
  <1>5. pc' \in Early => \A a \in Copies' : a.by # Len(log') + 1
    BY <1>1, <1>2, <1>3 DEF Faithful
  <1> QED
    BY <1>1, <1>4, <1>5 DEF Faithful

(* No step of writePrivate, of the file system or of a crash writes what   *)
(* was not there.                                                          *)
LEMMA FilesMakeNothing ==
  ASSUME IInv, WritePrivate \/ Done \/ Die \/ PowerCut \/ \E p \in Path : Settle(p)
  PROVE  Contents' \subseteq Contents \cup {Nothing}
  <1> USE DEF IInv, TempSound, DiskSound
  <1>1. CASE MakeDir
    BY <1>1 DEF MakeDir, Contents
  <1>2. CASE Create
    <2>1. UNCHANGED <<disk, kept>> /\ call'.content = call.content
      BY <1>2 DEF Create
    <2>2. temp'.content \in {temp.content, call.content}
      BY <1>2 DEF Create
    <2> QED
      BY <2>1, <2>2 DEF Contents
  <1>3. CASE Chmod \/ Write \/ Sync
    <2>1. temp'.content = temp.content /\ call'.content = call.content
      BY <1>3 DEF Chmod, Write, Sync, Try, Started, File
    <2> QED
      BY <1>3, <2>1 DEF Chmod, Write, Sync, Try, Contents
  <1>4. CASE Close
    BY <1>4 DEF Close, Contents
  <1>5. CASE Rename
    <2>1. call'.content = call.content /\ kept' = kept
      BY <1>5 DEF Rename
    <2>2. temp'.content \in {temp.content, Nothing}
      BY <1>5 DEF Rename, NoFile
    <2>3. \A p \in Path : disk'[p].content \in {disk[p].content, temp.content}
      BY <1>5 DEF Rename
    <2> QED
      BY <2>1, <2>2, <2>3 DEF Contents
  <1>6. CASE Clean
    BY <1>6 DEF Clean, Contents, NoFile
  <1>7. CASE Done
    BY <1>7 DEF Done, Contents, Idle
  <1>8. CASE Die
    BY <1>8 DEF Die, Contents, Idle, NoFile
  <1>9. CASE PowerCut
    <2>1. \A p \in Path : disk'[p].content = kept[p].content /\ kept'[p].content = kept[p].content
      BY <1>9, TornSound DEF PowerCut
    <2>2. temp'.content = Nothing /\ call'.content = Nothing
      BY <1>9 DEF PowerCut, Idle, NoFile
    <2> QED
      BY <2>1, <2>2 DEF Contents
  <1>10. CASE \E p \in Path : Settle(p)
    <2>1. PICK p \in Path : Settle(p)
      BY <1>10
    <2>2. \A q \in Path : kept'[q].content \in {kept[q].content, disk[q].content}
      BY <2>1 DEF Settle
    <2> QED
      BY <2>1, <2>2 DEF Settle, Contents
  <1> QED
    BY <1>1, <1>2, <1>3, <1>4, <1>5, <1>6, <1>7, <1>8, <1>9, <1>10 DEF WritePrivate

LEMMA FaithfulNext == ScanInv /\ IInv /\ Faithful /\ [Next]_vars => Faithful'
  <1> SUFFICES ASSUME ScanInv, IInv, Faithful, [Next]_vars PROVE Faithful'
    OBVIOUS
  <1> USE NoCopy
  <1>1. CASE \/ CheckOptions \/ Configure \/ Connect \/ FetchFails \/ EvaluateSnapshot \/ Render
             \/ PrintReport \/ Exit \/ Interrupt \/ UNCHANGED vars
    <2>1. UNCHANGED <<fileVars, snapshot, log>> /\ (pc' \in Early => pc \in Early)
      BY <1>1
      DEF CheckOptions, Configure, Connect, FetchFails, EvaluateSnapshot, Render, PrintReport, Exit,
          Interrupt, vars, scanVars, Keeping, Goto, ExitWith, Early
    <2>2. Contents' = Contents /\ Recorded' = Recorded
      BY <2>1 DEF Contents, Recorded, fileVars
    <2> QED
      BY <2>1, <2>2, NothingNew
  <1>2. CASE Writing \/ SettleSome \/ Kill \/ StopMachine \/ SnapshotSaved \/ ReportSaved
    <2>1. /\ UNCHANGED <<snapshot, log>>
          /\ pc' \in Early => pc \in Early
          /\ WritePrivate \/ Done \/ Die \/ PowerCut \/ \E p \in Path : Settle(p)
      BY <1>2
      DEF Writing, SettleSome, Kill, StopMachine, SnapshotSaved, ReportSaved, scanVars, Keeping,
          Goto, ExitWith, Early
    <2>2. Contents' \subseteq Contents \cup {Nothing} /\ Recorded' = Recorded
      BY <2>1, FilesMakeNothing DEF Recorded
    <2> QED
      BY <2>1, <2>2, NothingNew
  <1>3. CASE SaveReport
    <2>1. report.kind = "report" /\ UNCHANGED <<snapshot, log>> /\ pc' \notin Early
      BY <1>3 DEF SaveReport, ScanInv, InMemory, WithReport, Keeping, Goto, Early
    <2>2. Contents' \subseteq Contents \cup {report}
      BY <1>3 DEF SaveReport, Begin, Contents
    <2> QED
      BY <2>1, <2>2, NothingNew DEF Recorded
  <1>4. CASE SaveSnapshot
    <2>1. snapshot \in Snapshots /\ UNCHANGED <<snapshot, log>> /\ pc' \notin Early
      BY <1>4 DEF SaveSnapshot, ScanInv, InMemory, WithSnapshot, Keeping, Goto, Early
    <2>2. Contents' \subseteq Contents \cup {Encode(snapshot)}
      BY <1>4 DEF SaveSnapshot, Begin, Contents, fileVars
    <2>3. Decode(Encode(snapshot)) = snapshot /\ snapshot.kind = "snapshot" /\ snapshot \in Recorded
      BY <2>1, RoundTrip DEF Snapshots, Recorded
    <2>4. Recorded' = Recorded
      BY <2>1 DEF Recorded
    <2>5. Copies' \subseteq Copies
      BY <2>2, <2>3, <2>4 DEF Copies
    <2> QED
      BY <2>1, <2>5 DEF Faithful
  <1>5. CASE ReadSnapshot
    <2>1. UNCHANGED <<fileVars, log>> /\ pc \in Early /\ pc' \notin Early
      BY <1>5 DEF ReadSnapshot, Goto, ExitWith, Keeping, Early
    <2>2. \/ snapshot' = snapshot
          \/ /\ snapshot' = Decode(disk[opts.in].content) /\ opts.in \in Path
             /\ disk[opts.in].content.kind = "snapshot"
      BY <1>5 DEF ReadSnapshot, Readable, ScanInv, Invoked
    <2>3. Contents' = Contents
      BY <2>1 DEF Contents, fileVars
    <2>4. Recorded' \subseteq Recorded \cup {snapshot'}
      BY <2>1 DEF Recorded
    <2>5. snapshot'.kind = "snapshot" => snapshot' \in Copies
      BY <2>2 DEF Copies, Contents, Recorded
    <2>6. Copies' \subseteq Copies
      BY <2>3, <2>4, <2>5 DEF Copies
    <2> QED
      BY <2>1, <2>6 DEF Faithful
  <1>6. CASE FetchAnswers
    <2>1. UNCHANGED <<fileVars, log>> /\ pc \in Early /\ pc' \notin Early
      BY <1>6 DEF FetchAnswers, Goto, Keeping, Early
    <2>2. snapshot'.by = Len(log) + 1
      <3>1. PICK jobs \in SUBSET Job, complete \in BOOLEAN :
              snapshot' = [kind |-> "snapshot", by |-> Len(log) + 1, jobs |-> jobs,
                           complete |-> complete, schemaVersion |-> "this build's",
                           platform |-> "jenkins"]
        BY <1>6 DEF FetchAnswers
      <3> QED
        BY <3>1
    <2>3. Contents' = Contents /\ Recorded' \subseteq Recorded \cup {snapshot'}
      BY <2>1 DEF Contents, Recorded, fileVars
    <2>4. Copies' \subseteq Copies \cup {snapshot'}
      BY <2>3 DEF Copies
    <2>5. \A a \in Copies : a.by # snapshot'.by
      BY <2>1, <2>2 DEF Faithful
    <2>6. snapshot'.by \in 0 .. Len(log) + 1
      BY <2>2, Counted
    <2> QED
      BY <2>1, <2>4, <2>5, <2>6 DEF Faithful
  <1>7. CASE Again
    <2> DEFINE entry == [cfg |-> Cfg, snapshot |-> snapshot, report |-> report, exit |-> exit]
    <2>1. PICK S : log \in Seq(S)
      BY DEF ScanInv, Invoked
    <2>2. log \in Seq(S \cup {entry}) /\ log' = Append(log, entry)
      BY <1>7, <2>1 DEF Again
    <2>s. entry.snapshot = snapshot
      OBVIOUS
    <2> HIDE DEF entry
    <2>3. /\ Len(log') = Len(log) + 1
          /\ \A k \in DOMAIN log' : (k \in DOMAIN log /\ log'[k] = log[k]) \/ log'[k] = entry
      BY <2>2, AppendProperties, LenProperties
    <2>4. Recorded' \subseteq Recorded \cup {NoContent}
      <3>1. snapshot' = NoContent
        BY <1>7 DEF Again
      <3>2. \A k \in DOMAIN log' : log'[k].snapshot \in Recorded
        BY <2>3, <2>s DEF Recorded
      <3> QED
        BY <3>1, <3>2 DEF Recorded
    <2>5. Contents' = Contents
      BY <1>7 DEF Again, Contents, fileVars
    <2> QED
      BY <2>3, <2>4, <2>5, NothingNew
  <1> QED
    BY <1>1, <1>2, <1>3, <1>4, <1>5, <1>6, <1>7 DEF Next

-----------------------------------------------------------------------------
(* Evaluated again *)

(* What is accepted on a day was accepted on every day before, and what is *)
(* not any more has lapsed in between.                                     *)
LEMMA Lapsing ==
  ASSUME NEW c, NEW failures, NEW before \in Int, NEW after \in Int, before <= after,
         \A e \in c.exceptions : e.expires \in Int
  PROVE  /\ Accepted(c, failures, after) \subseteq Accepted(c, failures, before)
         /\ (\A e \in c.exceptions : e.expires \notin before .. after - 1) =>
              Accepted(c, failures, after) = Accepted(c, failures, before)
  <1>1. \A e \in c.exceptions : after <= e.expires => before <= e.expires
    OBVIOUS
  <1>2. (\A e \in c.exceptions : e.expires \notin before .. after - 1) =>
          \A e \in c.exceptions : before <= e.expires => after <= e.expires
    OBVIOUS
  <1> QED
    BY <1>1, <1>2 DEF Accepted

(* A report that accepts less never has a better verdict.                  *)
LEMMA StricterVerdict ==
  ASSUME NEW r, NEW s, NEW c,
         r.of = s.of, r.errors = s.errors, r.controls = s.controls, r.judged = s.judged,
         ExitStatus(r, c) \in {0, 1}, ExitStatus(s, c) \in {0, 1}
  PROVE  /\ r.accepted \subseteq s.accepted => ExitStatus(r, c) >= ExitStatus(s, c)
         /\ r.accepted = s.accepted => ExitStatus(r, c) = ExitStatus(s, c)
  <1>1. Unjudged(r, c) = Unjudged(s, c)
    BY DEF Unjudged, AsksAboutJobs
  <1>2. r.accepted \subseteq s.accepted => (HasHighFailure(s) => HasHighFailure(r))
    BY DEF HasHighFailure
  <1>3. r.accepted = s.accepted => (HasHighFailure(s) <=> HasHighFailure(r))
    BY DEF HasHighFailure
  <1> QED
    BY <1>1, <1>2, <1>3 DEF ExitStatus

(* For any controls, jobs, settings, exceptions and days: a capture that   *)
(* was encoded, written, perhaps interrupted or rewritten and decoded again*)
(* is judged as the scan that made it judged it, until an exception lapses,*)
(* and then not more mildly.                                               *)
THEOREM LaterNeverMilder == Spec => []SameFromDisk
  <1>1. ScanInv /\ Faithful => SameFromDisk
    <2> SUFFICES ASSUME ScanInv, Faithful, NEW k \in DOMAIN log, SameQuestion(log[k])
                 PROVE  LET other == log[k]
                            lapsed == \E e \in Cfg.exceptions :
                                        e.expires \in other.report.on .. report.on - 1
                            verdicts == exit \in {0, 1} /\ other.exit \in {0, 1}
                        IN /\ snapshot = other.snapshot
                           /\ ~lapsed => SameFindings(report, other.report)
                                         /\ (verdicts => exit = other.exit)
                           /\ report.accepted \subseteq other.report.accepted
                           /\ verdicts => exit >= other.exit
      BY DEF SameFromDisk
    <2> DEFINE other == log[k]
               failures == Failures(Selected(Cfg), Eligible(snapshot, Cfg))
    <2>1. report = ReportOf(snapshot, Cfg, report.errors, today) /\ today \in Nat
      BY DEF ScanInv, InMemory, Invoked, SameQuestion
    <2>2. /\ other.report = ReportOf(other.snapshot, other.cfg, other.report.errors, other.report.on)
          /\ other.report.on \in 0 .. today
          /\ snapshot.kind = "snapshot" /\ other.snapshot.kind = "snapshot"
      BY DEF Snapshots, InMemory, ScanInv, Logged, SameQuestion
    <2>3. snapshot = other.snapshot
      <3>1. snapshot.kind = "snapshot" => snapshot \in Copies
        BY DEF Copies, Recorded
      <3>2. other.snapshot.kind = "snapshot" => other.snapshot \in Copies
        BY DEF Copies, Recorded
      <3> QED
        BY <2>2, <3>1, <3>2 DEF Faithful, SameQuestion
    <2>4. /\ report.of = snapshot /\ report.controls = Selected(Cfg) /\ report.on = today
          /\ report.judged = Eligible(snapshot, Cfg)
          /\ report.accepted = Accepted(Cfg, failures, today)
      BY <2>1 DEF ReportOf
    <2>5. /\ other.report.of = snapshot /\ other.report.controls = Selected(Cfg)
          /\ other.report.judged = Eligible(snapshot, Cfg)
          /\ other.report.accepted = Accepted(Cfg, failures, other.report.on)
      BY <2>2, <2>3 DEF ReportOf, SameQuestion
    <2>6. /\ report.accepted \subseteq other.report.accepted
          /\ (\A e \in Cfg.exceptions : e.expires \notin other.report.on .. report.on - 1) =>
               report.accepted = other.report.accepted
      BY <2>1, <2>2, <2>4, <2>5, Lapsing DEF ScanInv, Invoked
    <2>7. /\ exit \in {0, 1} => exit = ExitStatus(report, Cfg)
          /\ other.exit \in {0, 1} => other.exit = ExitStatus(other.report, Cfg)
      BY DEF ScanInv, InMemory, Logged, SameQuestion
    <2>8. report.errors = other.report.errors
      BY DEF SameQuestion
    <2>9. exit \in {0, 1} /\ other.exit \in {0, 1} =>
            /\ exit >= other.exit
            /\ report.accepted = other.report.accepted => exit = other.exit
      BY <2>4, <2>5, <2>6, <2>7, <2>8, StricterVerdict
    <2> HIDE DEF other
    <2> QED
      BY <2>3, <2>4, <2>5, <2>6, <2>9 DEF SameFindings, other
  <1>2. Init => ScanInv /\ IInv /\ Faithful
    BY ScanInit, InitInv, FaithfulInit
  <1> QED
    BY <1>1, <1>2, FaithfulNext, Together, PTL DEF Spec

-----------------------------------------------------------------------------
(* What the settings mean. *)

(* A set of natural numbers that is not empty has a least: the intervals   *)
(* up to its elements have one that contains no other.                     *)
LEMMA Least ==
  ASSUME NEW T \in SUBSET Nat, T # {}
  PROVE  \E m \in T : \A k \in T : m <= k
  <1> DEFINE UpTo == {0 .. m : m \in T}
  <1>1. UpTo \subseteq FiniteSubsetsOf(Nat) /\ UpTo # {}
    <2>1. \A m \in T : 0 .. m \in SUBSET Nat /\ IsFiniteSet(0 .. m)
      BY FS_Interval
    <2> QED
      BY <2>1 DEF FiniteSubsetsOf
  <1>2. PICK s \in UpTo : \A t \in UpTo : ~(<<t, s>> \in StrictSubsetOrdering(Nat))
    <2>1. IsWellFoundedOn(StrictSubsetOrdering(Nat), FiniteSubsetsOf(Nat))
      BY FS_StrictSubsetOrderingWellFounded
    <2> QED
      BY <1>1, <2>1, WFMin
  <1>3. PICK m \in T : s = 0 .. m
    OBVIOUS
  <1>4. ASSUME NEW k \in T, ~(m <= k) PROVE FALSE
    <2>1. 0 .. k \in UpTo /\ 0 .. k \in SUBSET Nat /\ 0 .. m \in SUBSET Nat
      OBVIOUS
    <2>2. 0 .. k \subseteq 0 .. m /\ m \in 0 .. m /\ m \notin 0 .. k
      BY <1>4
    <2> HIDE DEF UpTo
    <2>3. <<0 .. k, 0 .. m>> \in StrictSubsetOrdering(Nat)
      BY <2>1, <2>2 DEF StrictSubsetOrdering
    <2> QED
      BY <1>2, <1>3, <2>1, <2>3
  <1> QED
    BY <1>4

(* A set of numbers up to n that is not empty has a largest.               *)
LEMMA Largest ==
  ASSUME NEW n \in Nat, NEW S \in SUBSET (1 .. n), S # {}
  PROVE  Max(S) \in S /\ \A k \in S : k <= Max(S)
  <1> DEFINE Bounds == {m \in Nat : \A k \in S : k <= m}
  <1>1. n \in Bounds
    OBVIOUS
  <1>2. PICK m \in Bounds : \A j \in Bounds : m <= j
    BY <1>1, Least
  <1>3. m \in S
    <2> SUFFICES ASSUME m \notin S PROVE FALSE
      OBVIOUS
    <2>1. m # 0
      <3>1. PICK k \in S : k <= m
        BY <1>2
      <3> QED
        BY <3>1
    <2>2. \A j \in S : j <= m - 1
      OBVIOUS
    <2>3. m - 1 \in Bounds
      BY <2>1, <2>2
    <2> QED
      BY <1>2, <2>3
  <1> QED
    BY <1>3 DEF Max

(* What loading n documents comes to: each key from the last that says it. *)
LastSaid(docs, n) ==
  [key \in Keys |->
     LET said == {k \in 1 .. n : key \in DOMAIN docs[k]}
     IN IF said = {} THEN Default[key] ELSE docs[Max(said)][key]]

LEMMA NothingSaid ==
  ASSUME NEW docs
  PROVE  LastSaid(docs, 0) = Default
  BY DEF LastSaid, Keys, Default

LEMMA OneMoreSaid ==
  ASSUME NEW docs, NEW n \in Nat \ {0}
  PROVE  LastSaid(docs, n) = Overlay(LastSaid(docs, n - 1), docs[n])
  <1> DEFINE Said(key, m) == {k \in 1 .. m : key \in DOMAIN docs[k]}
  <1> SUFFICES ASSUME NEW key \in Keys
               PROVE  LastSaid(docs, n)[key] = IF key \in DOMAIN docs[n] THEN docs[n][key]
                                               ELSE LastSaid(docs, n - 1)[key]
    BY DEF LastSaid, Overlay
  <1>1. CASE key \in DOMAIN docs[n]
    <2>1. n \in Said(key, n)
      BY <1>1
    <2>2. Max(Said(key, n)) = n
      <3>1. /\ Max(Said(key, n)) \in Said(key, n)
            /\ \A k \in Said(key, n) : k <= Max(Said(key, n))
        BY <2>1, Largest
      <3> QED
        BY <2>1, <3>1
    <2> QED
      BY <1>1, <2>1, <2>2 DEF LastSaid
  <1>2. CASE key \notin DOMAIN docs[n]
    <2>1. Said(key, n) = Said(key, n - 1)
      BY <1>2
    <2> QED
      BY <1>2, <2>1 DEF LastSaid
  <1> QED
    BY <1>1, <1>2

(* The recursion of Load has one solution, and this is it.                 *)
LEMMA LoadIsLastSaid ==
  ASSUME NEW S, NEW docs \in Seq(S)
  PROVE  Load(docs) = LastSaid(docs, Len(docs))
  <1> DEFINE Loads(f) == f = [n \in 0 .. Len(docs) |->
                               IF n = 0 THEN Default ELSE Overlay(f[n - 1], docs[n])]
             solution == [n \in 0 .. Len(docs) |-> LastSaid(docs, n)]
             loaded == CHOOSE f : Loads(f)
  <1>1. Len(docs) \in Nat
    OBVIOUS
  <1>2. Loads(solution)
    BY <1>1, NothingSaid, OneMoreSaid
  <1>3. Loads(loaded)
    BY <1>2
  <1>4. Load(docs) = loaded[Len(docs)]
    BY DEF Load
  <1> HIDE DEF loaded
  <1>5. \A n \in 0 .. Len(docs) : loaded[n] = LastSaid(docs, n)
    <2> SUFFICES ASSUME NEW bad \in 0 .. Len(docs), loaded[bad] # LastSaid(docs, bad) PROVE FALSE
      OBVIOUS
    <2> DEFINE Wrongs == {n \in 0 .. Len(docs) : loaded[n] # LastSaid(docs, n)}
    <2>1. PICK n \in Wrongs : \A m \in Wrongs : n <= m
      <3>1. bad \in Wrongs /\ Wrongs \in SUBSET Nat
        BY <1>1
      <3> QED
        BY <3>1, Least
    <2>2. n # 0
      BY <1>1, <1>3, <2>1, NothingSaid
    <2>3. n - 1 \in 0 .. Len(docs) /\ n - 1 \notin Wrongs
      BY <1>1, <2>1, <2>2
    <2>4. loaded[n] = Overlay(loaded[n - 1], docs[n])
      BY <1>1, <1>3, <2>1, <2>2
    <2> QED
      BY <2>1, <2>2, <2>3, <2>4, OneMoreSaid
  <1> QED
    BY <1>1, <1>4, <1>5

LEMMA DocsGiven ==
  ASSUME NEW k \in 1 .. Len(Options), NEW o \in Options[k]
  PROVE  \E S : Documents(o.given, o.places, o.sets) \in Seq(S)
  <1> DEFINE file == ConfigFile(o.given, o.places)
             S == Range(o.sets) \cup {file}
  <1>1. o.sets \in Seq(Range(o.sets))
    BY ScanAssumption
  <1>2. o.sets \in Seq(S)
    BY <1>1, SeqMonotonic
  <1>3. (IF file = Absent THEN <<>> ELSE <<file>>) \in Seq(S)
    <2>1. <<>> \in Seq(S) /\ (file \in S => <<file>> \in Seq(S))
      OBVIOUS
    <2>2. file \in S
      OBVIOUS
    <2> QED
      BY <2>1, <2>2
  <1> HIDE DEF file, S
  <1>4. (IF file = Absent THEN <<>> ELSE <<file>>) \o o.sets \in Seq(S)
    BY <1>2, <1>3, ConcatProperties
  <1> QED
    BY <1>4 DEF Documents, file

(* A name that the startup check accepts names the control it is of.       *)
LEMMA NamesItsOwn ==
  ASSUME NEW name, ToUpper(Trim(name)) \in {ToUpper(Exact(id)) : id \in Control}
  PROVE  name.id \in Control /\ \A id \in Control : Names(name, id) <=> name.id = id
  <1>1. PICK own \in Control : ToUpper(Trim(name)) = ToUpper(Exact(own))
    OBVIOUS
  <1>2. \A id : /\ ToUpper(Exact(id)).id = id
               /\ DOMAIN ToUpper(Exact(id)) = {"id", "upper", "padded"}
    BY DEF ToUpper, Exact
  <1>3. ToUpper(Trim(name)).id = own
    BY <1>1, <1>2
  <1>4. DOMAIN ToUpper(Trim(name)) = DOMAIN name /\ DOMAIN ToUpper(Trim(name)) = {"id", "upper", "padded"}
    <2>1. DOMAIN ToUpper(Trim(name)) = DOMAIN name
      BY DEF ToUpper, Trim
    <2> QED
      BY <1>1, <1>2, <2>1
  <1>5. ToUpper(Trim(name)).id = name.id
    BY <1>4 DEF ToUpper, Trim
  <1>6. \A id : Names(name, id) <=> own = id
    BY <1>1, <1>2 DEF Names, EqualFold
  <1> QED
    BY <1>3, <1>5, <1>6

(* What is selected is what the names say.                                 *)
LEMMA SelectedIsNamed ==
  ASSUME NEW c, Validate(c), ValidSelection(c)
  PROVE  LET Ids(names) == {name.id : name \in names}
             all == IF c.include = {} THEN Control ELSE Ids(c.include)
         IN /\ Selected(c) = all \ Ids(c.exclude)
            /\ \A e \in c.exceptions : e.control.id \in Control
  <1>1. \A name \in c.include \cup c.exclude :
          name.id \in Control /\ \A id \in Control : Names(name, id) <=> name.id = id
    BY NamesItsOwn DEF Validate, ValidSelection
  <1>2. \A e \in c.exceptions : e.control.id \in Control
    <2> SUFFICES ASSUME NEW e \in c.exceptions PROVE e.control.id \in Control
      OBVIOUS
    <2>1. ~IsBlank(e.control)
      BY DEF Validate, ValidException
    <2>2. ToUpper(Trim(e.control)) \in {ToUpper(Exact(id)) : id \in Control}
      BY <2>1 DEF ValidSelection
    <2> QED
      BY <2>2, NamesItsOwn
  <1> DEFINE Ids(names) == {name.id : name \in names}
             all == IF c.include = {} THEN Control ELSE Ids(c.include)
  <1>3. \A id \in Control : Selects(c, id) <=> id \in all \ Ids(c.exclude)
    BY <1>1 DEF Selects
  <1>4. all \subseteq Control
    BY <1>1
  <1>5. Selected(c) = all \ Ids(c.exclude)
    BY <1>3, <1>4 DEF Selected
  <1> QED
    BY <1>2, <1>5

(* Nothing is fetched, read or judged before the settings have been found  *)
(* good, and they are those of this invocation's command line.             *)
Configured ==
  /\ \E k \in 1 .. Len(Options) : opts \in Options[k]
  /\ pc \notin {"options", "config", "exited"} => Starts(Docs)

LEMMA ConfiguredInit == Init => Configured
  BY ScanAssumption DEF Init, Configured

LEMMA ConfiguredNext == ScanInv /\ Configured /\ [Next]_vars => Configured'
  <1> SUFFICES ASSUME ScanInv, Configured, [Next]_vars PROVE Configured'
    OBVIOUS
  <1>1. CASE Again
    <2>1. Len(log) \in Nat /\ Len(log) + 2 \in 1 .. Len(Options)
      BY <1>1, ScanAssumption DEF Again, ScanInv, Invoked
    <2> QED
      BY <1>1, <2>1 DEF Again, Configured
  <1>2. CASE Configure
    <2>1. opts' = opts /\ ((pc' = "snapshot" /\ Starts(Docs)) \/ pc' = "exited")
      BY <1>2 DEF Configure, Goto, ExitWith, Keeping
    <2> QED
      BY <2>1 DEF Configured, Docs
  <1>3. CASE CheckOptions \/ ReadSnapshot \/ Connect \/ FetchAnswers \/ FetchFails
    BY <1>3 DEF CheckOptions, ReadSnapshot, Connect, FetchAnswers, FetchFails, Goto, ExitWith,
                Keeping, Configured, Docs
  <1>4. CASE SaveSnapshot \/ SnapshotSaved \/ EvaluateSnapshot \/ Render \/ PrintReport
    BY <1>4 DEF SaveSnapshot, SnapshotSaved, EvaluateSnapshot, Render, PrintReport, Goto, ExitWith,
                Keeping, Configured, Docs
  <1>5. CASE SaveReport \/ ReportSaved \/ Exit \/ Writing
    BY <1>5 DEF SaveReport, ReportSaved, Exit, Writing, scanVars, Goto, ExitWith, Keeping,
                Configured, Docs
  <1>6. CASE Interrupt \/ Kill \/ StopMachine \/ SettleSome \/ UNCHANGED vars
    BY <1>6 DEF Interrupt, Kill, StopMachine, SettleSome, scanVars, vars, Goto, Keeping,
                Configured, Docs
  <1> QED
    BY <1>1, <1>2, <1>3, <1>4, <1>5, <1>6 DEF Next

(* A scan that gets as far as a snapshot has each setting from the last    *)
(* that says it, and judges by the controls that its names name.           *)
THEOREM NamesAreHeeded == Spec => []EveryNameHeeded
  <1>1. Configured => EveryNameHeeded
    <2> SUFFICES ASSUME Configured, pc \notin {"options", "config", "exited"}
                 PROVE  LET Said(key) == {k \in DOMAIN Docs : key \in DOMAIN Docs[k]}
                            Ids(names) == {name.id : name \in names}
                            all == IF Cfg.include = {} THEN Control ELSE Ids(Cfg.include)
                        IN /\ \A key \in Keys :
                                Cfg[key] = IF Said(key) = {} THEN Default[key]
                                           ELSE Docs[Max(Said(key))][key]
                           /\ Selected(Cfg) = all \ Ids(Cfg.exclude) /\ Selected(Cfg) # {}
                           /\ \A e \in Cfg.exceptions : e.control.id \in Control
      BY DEF EveryNameHeeded
    <2>1. PICK S : Docs \in Seq(S)
      BY DocsGiven DEF Configured, Docs
    <2>2. Cfg = LastSaid(Docs, Len(Docs)) /\ DOMAIN Docs = 1 .. Len(Docs)
      BY <2>1, LoadIsLastSaid DEF Cfg
    <2>3. \A key \in Keys :
            LET said == {k \in DOMAIN Docs : key \in DOMAIN Docs[k]}
            IN Cfg[key] = IF said = {} THEN Default[key] ELSE Docs[Max(said)][key]
      BY <2>2 DEF LastSaid
    <2>4. Validate(Cfg) /\ ValidSelection(Cfg) /\ Selected(Cfg) # {}
      BY DEF Configured, Starts, Cfg
    <2> QED
      BY <2>3, <2>4, SelectedIsNamed
  <1> QED
    BY <1>1, ConfiguredInit, ConfiguredNext, Together, PTL DEF Spec

=============================================================================
