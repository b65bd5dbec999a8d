----------------------------- MODULE WholeFile -----------------------------
(***************************************************************************)
(* What writePrivate of internal/cli/files.go promises: what stands at a   *)
(* path is only ever replaced as a whole, by a file that only its owner    *)
(* can read, and a power cut can undo the last replacements, never tear    *)
(* what is there.                                                          *)
(***************************************************************************)
CONSTANTS
  Path,      \* the destinations
  Content,   \* what can be written
  Before     \* the files that may stand at a path before the program runs

VARIABLES
  dest,      \* the file at each path
  kept       \* the file a power cut would leave there

vars == <<dest, kept>>

File == [content: Content, whole: {TRUE}, private: {TRUE}]

TypeOK ==
  /\ dest \in [Path -> File \cup Before]
  /\ kept \in [Path -> File \cup Before]

Init == dest \in [Path -> Before] /\ kept = dest

Replace(p) ==
  /\ dest'[p] \in File
  /\ dest' = [dest EXCEPT ![p] = dest'[p]]
  /\ UNCHANGED kept

Settle(p) ==
  /\ kept' = [kept EXCEPT ![p] = dest[p]]
  /\ UNCHANGED dest

PowerCut == dest' = kept /\ UNCHANGED kept

Next == (\E p \in Path : Replace(p) \/ Settle(p)) \/ PowerCut

Spec == Init /\ [][Next]_vars

=============================================================================
