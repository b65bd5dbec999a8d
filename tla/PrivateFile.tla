---------------------------- MODULE PrivateFile ----------------------------
(***************************************************************************)
(* writePrivate of internal/cli/files.go, one system call at a time, on a  *)
(* file system that can refuse each of them: the data goes to a temporary  *)
(* file beside the destination, which is renamed over it only when every   *)
(* step before succeeded.  The directory itself is not synced, so the      *)
(* rename is durable only when the file system gets to it (Settle).        *)
(*                                                                         *)
(* The caller starts a call with Begin and reads call.broken when call.at  *)
(* is "returned"; it is a module of the program, not of the file system,   *)
(* that says when a process is killed (Die) or the machine stops           *)
(* (PowerCut).                                                             *)
(***************************************************************************)


CONSTANTS
  Path,      \* the destinations
  Content,   \* what can be written
  Nothing,   \* the content of a path where there is no file
  Before     \* the files that may stand at a path before: [content, whole, private, synced]

VARIABLES
  disk,      \* the file at each path
  kept,      \* the file that a power cut would leave there
  temp,      \* the temporary file of the call
  call       \* the call: where it is, its arguments, whether a step failed

fileVars == <<disk, kept, temp, call>>

NoFile == [content |-> Nothing, whole |-> TRUE, private |-> TRUE, synced |-> TRUE]
Idle(p) == [at |-> "idle", path |-> p, content |-> Nothing, broken |-> FALSE]

File == [content: Content \cup {Nothing}, whole: BOOLEAN, private: BOOLEAN, synced: BOOLEAN]
Steps == {"idle", "mkdir", "create", "chmod", "write", "sync", "close",
          "rename", "clean", "returned"}

ASSUME PrivateFileAssumption ==
  /\ Path # {}
  /\ Before \subseteq [content: Content \cup {Nothing}, whole: {TRUE},
                       private: BOOLEAN, synced: {TRUE}]
  /\ NoFile \in Before

FileTypeOK ==
  /\ disk \in [Path -> File]
  /\ kept \in [Path -> File]
  /\ temp \in File
  /\ call \in [at: Steps, path: Path, content: Content \cup {Nothing}, broken: BOOLEAN]

FileInit ==
  /\ disk \in [Path -> Before]
  /\ kept = disk
  /\ temp = NoFile
  /\ call \in {Idle(p) : p \in Path}

(* The call begins; the caller has no other in progress.                   *)
Begin(path, content) ==
  /\ call.at = "idle"
  /\ call' = [at |-> "mkdir", path |-> path, content |-> content, broken |-> FALSE]
  /\ UNCHANGED <<disk, kept, temp>>

(* The caller has read the outcome.                                        *)
Done ==
  /\ call.at = "returned"
  /\ call' = Idle(call.path)
  /\ UNCHANGED <<disk, kept, temp>>

MakeDir ==
  /\ call.at = "mkdir"
  /\ \E ok \in BOOLEAN :
       call' = [call EXCEPT !.at = IF ok THEN "create" ELSE "returned", !.broken = ~ok]
  /\ UNCHANGED <<disk, kept, temp>>

(* CreateTemp makes the file for its owner alone, whatever the umask.      *)
Create ==
  /\ call.at = "create"
  /\ \/ /\ temp' = [content |-> call.content, whole |-> FALSE, private |-> TRUE, synced |-> FALSE]
        /\ call' = [call EXCEPT !.at = "chmod"]
     \/ /\ call' = [call EXCEPT !.at = "returned", !.broken = TRUE]
        /\ UNCHANGED temp
  /\ UNCHANGED <<disk, kept>>

(* A step that is taken even if an earlier one failed.                     *)
Try(at, then, file) ==
  /\ call.at = at
  /\ \E ok \in BOOLEAN :
       /\ temp' = IF ok THEN file ELSE temp
       /\ call' = [call EXCEPT !.at = then, !.broken = @ \/ ~ok]
  /\ UNCHANGED <<disk, kept>>

Chmod == Try("chmod", "write", [temp EXCEPT !.private = TRUE])

(* Mutant: a disk that fills up half-way is not noticed.                   *)
MutantWrite ==
  /\ call.at = "write"
  /\ \E ok \in BOOLEAN : temp' = [temp EXCEPT !.whole = ok]
  /\ call' = [call EXCEPT !.at = "sync"]
  /\ UNCHANGED <<disk, kept>>

Write == Try("write", "sync", [temp EXCEPT !.whole = TRUE])

Sync == Try("sync", "close", [temp EXCEPT !.synced = TRUE])

Close ==
  /\ call.at = "close"
  /\ \E ok \in BOOLEAN :
       call' = [call EXCEPT !.at = IF ok /\ ~call.broken THEN "rename" ELSE "clean",
                            !.broken = @ \/ ~ok]
  /\ UNCHANGED <<disk, kept, temp>>

Rename ==
  /\ call.at = "rename"
  /\ \/ /\ disk' = [disk EXCEPT ![call.path] = temp]
        /\ temp' = NoFile
        /\ call' = [call EXCEPT !.at = "returned"]
     \/ /\ call' = [call EXCEPT !.at = "clean", !.broken = TRUE]
        /\ UNCHANGED <<disk, temp>>
  /\ UNCHANGED kept

(* The deferred Close and Remove; what they return is not looked at, and   *)
(* no later call meets a temporary file that stayed.                       *)
Clean ==
  /\ call.at = "clean"
  /\ temp' = NoFile
  /\ call' = [call EXCEPT !.at = "returned"]
  /\ UNCHANGED <<disk, kept>>

WritePrivate ==
  MakeDir \/ Create \/ Chmod \/ Write \/ Sync \/ Close \/ Rename \/ Clean

-----------------------------------------------------------------------------
(* The file system and what can happen to it *)

Settle(p) ==
  /\ kept[p] # disk[p]
  /\ kept' = [kept EXCEPT ![p] = disk[p]]
  /\ UNCHANGED <<disk, temp, call>>

(* The process is gone, its temporary file stays as litter.                *)
Die ==
  /\ call' = Idle(call.path) /\ temp' = NoFile
  /\ UNCHANGED <<disk, kept>>

(* What was not synced before the machine stopped is torn.                 *)
Torn(f) == [f EXCEPT !.whole = @ /\ f.synced]

PowerCut ==
  /\ disk' = [p \in Path |-> Torn(kept[p])]
  /\ kept' = disk'
  /\ call' = Idle(call.path) /\ temp' = NoFile

FileNext ==
  \/ \E p \in Path : Settle(p) \/ \E c \in Content : Begin(p, c)
  \/ WritePrivate \/ Done \/ Die \/ PowerCut

FileSpec == FileInit /\ [][FileNext]_fileVars

-----------------------------------------------------------------------------
(* The promise *)

Shown(f) == [content |-> f.content, whole |-> f.whole, private |-> f.private]

ShownAt(files) == [p \in Path |-> Shown(files[p])]

Whole == INSTANCE WholeFile
  WITH dest <- ShownAt(disk), kept <- ShownAt(kept),
       Path <- Path, Content <- Content, Before <- {Shown(f) : f \in Before}

(* At every path stands, at every moment, a whole file: what was there or  *)
(* what a completed call wrote, readable by its owner alone; a full disk,  *)
(* a kill or a power cut at any step of a call leaves no other.            *)
ImplementsWholeFile == Whole!Spec

=============================================================================
