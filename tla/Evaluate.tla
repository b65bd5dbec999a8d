------------------------------ MODULE Evaluate ------------------------------
(***************************************************************************)
(* Evaluate and evaluateJobs of internal/engine/engine.go: the values that *)
(* all controls share are encoded, the controller's controls are judged by *)
(* the caller, and the jobs by workers that take their indices from an     *)
(* unbuffered channel and write each into its own slot of the results; the *)
(* caller merges the slots in job order.  The context can die anywhere.    *)
(*                                                                         *)
(* The order of the report's findings, its score and the exceptions are    *)
(* functions of what is merged here, computed after every worker is gone.  *)
(***************************************************************************)
EXTENDS Naturals, Sequences, FiniteSets

CONSTANTS
  N, ControllerChecks, JobChecks, Inputs,   \* as in Evaluation
  Procs                                     \* GOMAXPROCS

VARIABLES
  ctx,        \* "live" or "dead"
  input,      \* the snapshot and the configuration, as in Evaluation
  main,       \* where the caller is
  step,       \* its loop counter: controls judged, workers started, indices sent or slots merged
  jobs,       \* the jobs to evaluate, in the snapshot's order
  report,     \* the findings and errors the report holds so far
  results,    \* one such record per job to evaluate
  pc,         \* where each worker is
  own,        \* the index each worker received, 0 for none
  wg,         \* the WaitGroup's counter
  firstErr,   \* the index of the job that could not be encoded, 0 for none
  returned,   \* "pending", then what Evaluate returned: "report" or "failure"
  final       \* and the report

vars == <<ctx, input, main, step, jobs, report, results, pc, own, wg, firstErr, returned,
          final>>

Promise == INSTANCE Evaluation
  WITH N <- N, ControllerChecks <- ControllerChecks, JobChecks <- JobChecks, Inputs <- Inputs,
       ctx <- ctx, input <- input, returned <- returned, final <- final

ASSUME EvaluateAssumption ==
  /\ N \in Nat /\ ControllerChecks \in Nat /\ JobChecks \in Nat
  /\ Procs \in Nat \ {0}
  /\ Inputs \subseteq Promise!AllInputs

Worker == 1 .. Procs
Workers == IF Procs > Len(jobs) THEN Len(jobs) ELSE Procs
Living == {w \in Worker : pc[w] \in {"receive", "encode", "judge"}}

Item == (0 .. N) \X Nat
Blank == [findings |-> <<>>, errors |-> <<>>]
Slot == [findings: Seq(Item \X {"judged", "broken", "cut"}), errors: Seq(Item)]

TypeOK ==
  /\ ctx \in {"live", "dead"}
  /\ input \in Inputs
  /\ main \in {"encode", "controller", "spawn", "feed", "wait", "merge", "returned"}
  /\ step \in Nat
  /\ jobs \in Seq(1 .. N)
  /\ report \in Slot
  /\ results \in [1 .. N -> Slot]
  /\ pc \in [Worker -> {"unborn", "receive", "encode", "judge", "ended"}]
  /\ own \in [Worker -> 0 .. N]
  /\ wg \in Nat
  /\ firstErr \in 0 .. N
  /\ returned \in {"pending", "report", "failure"}

Init ==
  /\ ctx = "live"
  /\ input \in Inputs
  /\ main = "encode" /\ step = 0
  /\ jobs = <<>>
  /\ report = Blank
  /\ results = [i \in 1 .. N |-> Blank]
  /\ pc = [w \in Worker |-> "unborn"]
  /\ own = [w \in Worker |-> 0]
  /\ wg = 0 /\ firstErr = 0
  /\ returned = "pending" /\ final = Promise!Nil

(* The context of runScan, dead on Ctrl-C.                                 *)
Expire ==
  /\ main # "returned" /\ ctx = "live"
  /\ ctx' = "dead"
  /\ UNCHANGED <<input, main, step, jobs, report, results, pc, own, wg, firstErr, returned, final>>

-----------------------------------------------------------------------------
(* One control against one resource *)

(* A policy that fails, answers nothing or answers nonsense is "broken"; a *)
(* dead context may interrupt it, or be noticed too late.                  *)
EvaluateOne(x) ==
  {IF x \in input.broken THEN "broken" ELSE "judged"}
    \cup (IF ctx = "dead" THEN {"cut"} ELSE {})

(* Mutant: an interrupted policy is MANUAL like any other and no error.    *)
MutantWith(slot, x, o) ==
  [findings |-> Append(slot.findings, <<x, o>>),
   errors |-> IF o = "broken" THEN Append(slot.errors, x) ELSE slot.errors]

With(slot, x, o) ==
  [findings |-> Append(slot.findings, <<x, o>>),
   errors |-> IF o = "judged" THEN slot.errors ELSE Append(slot.errors, x)]

(* What is in one slot, then what is in the other.                         *)
Joined(slot, other) ==
  [findings |-> slot.findings \o other.findings, errors |-> slot.errors \o other.errors]

-----------------------------------------------------------------------------
(* The caller *)

Move(from, to) == main = from /\ main' = to /\ step' = 0

Kept == {j \in 1 .. N : ~(input.skip /\ j \in input.disabled)}

(* The one list of these jobs in the snapshot's order.                     *)
InOrder ==
  {list \in [1 .. Cardinality(Kept) -> Kept] :
     \A a, b \in DOMAIN list : a < b => list[a] < list[b]}

EncodeShared ==
  /\ 0 \notin input.opaque
  /\ Move("encode", "controller")
  /\ jobs' \in InOrder
  /\ UNCHANGED <<ctx, input, report, results, pc, own, wg, firstErr, returned, final>>

EncodeSharedFails ==
  /\ 0 \in input.opaque
  /\ Move("encode", "returned")
  /\ returned' = "failure"
  /\ UNCHANGED <<ctx, input, jobs, report, results, pc, own, wg, firstErr, final>>

JudgeController ==
  /\ main = "controller" /\ step < ControllerChecks
  /\ LET x == <<0, step + 1>> IN
       \E o \in EvaluateOne(x) : report' = With(report, x, o)
  /\ step' = step + 1
  /\ UNCHANGED <<ctx, input, main, jobs, results, pc, own, wg, firstErr, returned, final>>

StartJobs ==
  /\ step = ControllerChecks
  /\ Move("controller", IF JobChecks = 0 \/ jobs = <<>> THEN "merge" ELSE "spawn")
  /\ UNCHANGED <<ctx, input, jobs, report, results, pc, own, wg, firstErr, returned, final>>

Spawn ==
  /\ main = "spawn" /\ step < Workers
  /\ pc' = [pc EXCEPT ![step + 1] = "receive"]
  /\ wg' = wg + 1
  /\ step' = step + 1
  /\ UNCHANGED <<ctx, input, main, jobs, report, results, own, firstErr, returned, final>>

StartFeeding ==
  /\ step = Workers
  /\ Move("spawn", "feed")
  /\ UNCHANGED <<ctx, input, jobs, report, results, pc, own, wg, firstErr, returned, final>>

(* The channel has no buffer: sending an index and receiving it are one.   *)
Feed(w) ==
  /\ main = "feed" /\ step < Len(jobs)
  /\ pc[w] = "receive"
  /\ pc' = [pc EXCEPT ![w] = "encode"]
  /\ own' = [own EXCEPT ![w] = step + 1]
  /\ step' = step + 1
  /\ UNCHANGED <<ctx, input, main, jobs, report, results, wg, firstErr, returned, final>>

Close ==
  /\ main = "feed" /\ step = Len(jobs)
  /\ Move("feed", "wait")
  /\ UNCHANGED <<ctx, input, jobs, report, results, pc, own, wg, firstErr, returned, final>>

JobsDone ==
  /\ wg = 0 /\ firstErr = 0
  /\ Move("wait", "merge")
  /\ UNCHANGED <<ctx, input, jobs, report, results, pc, own, wg, firstErr, returned, final>>

JobsFail ==
  /\ wg = 0 /\ firstErr # 0
  /\ Move("wait", "returned")
  /\ returned' = "failure"
  /\ UNCHANGED <<ctx, input, jobs, report, results, pc, own, wg, firstErr, final>>

MergeJob ==
  /\ main = "merge" /\ step < Len(jobs)
  /\ report' = Joined(report, results[step + 1])
  /\ step' = step + 1
  /\ UNCHANGED <<ctx, input, main, jobs, results, pc, own, wg, firstErr, returned, final>>

Return ==
  /\ step = Len(jobs)
  /\ Move("merge", "returned")
  /\ returned' = "report"
  /\ final' = [findings |-> report.findings, errors |-> report.errors,
                jobs |-> Len(jobs), skipped |-> N - Len(jobs)]
  /\ UNCHANGED <<ctx, input, jobs, report, results, pc, own, wg, firstErr>>

-----------------------------------------------------------------------------
(* A worker *)

Encode(w) ==
  /\ pc[w] = "encode" /\ jobs[own[w]] \notin input.opaque
  /\ pc' = [pc EXCEPT ![w] = "judge"]
  /\ UNCHANGED <<ctx, input, main, step, jobs, report, results, own, wg, firstErr, returned, final>>

(* Mutant: the worker returns instead of taking the next job.              *)
MutantEncodeFails(w) ==
  /\ pc[w] = "encode" /\ jobs[own[w]] \in input.opaque
  /\ firstErr' = IF firstErr = 0 THEN own[w] ELSE firstErr
  /\ pc' = [pc EXCEPT ![w] = "ended"]
  /\ own' = [own EXCEPT ![w] = 0]
  /\ wg' = wg - 1
  /\ UNCHANGED <<ctx, input, main, step, jobs, report, results, returned, final>>

EncodeFails(w) ==
  /\ pc[w] = "encode" /\ jobs[own[w]] \in input.opaque
  /\ firstErr' = IF firstErr = 0 THEN own[w] ELSE firstErr
  /\ pc' = [pc EXCEPT ![w] = "receive"]
  /\ own' = [own EXCEPT ![w] = 0]
  /\ UNCHANGED <<ctx, input, main, step, jobs, report, results, wg, returned, final>>

Judge(w) ==
  /\ pc[w] = "judge"
  /\ LET slot == results[own[w]]
         x == <<jobs[own[w]], Len(slot.findings) + 1>>
     IN /\ Len(slot.findings) < JobChecks
        /\ \E o \in EvaluateOne(x) :
             results' = [results EXCEPT ![own[w]] = With(slot, x, o)]
  /\ UNCHANGED <<ctx, input, main, step, jobs, report, pc, own, wg, firstErr, returned, final>>

JobJudged(w) ==
  /\ pc[w] = "judge" /\ Len(results[own[w]].findings) = JobChecks
  /\ pc' = [pc EXCEPT ![w] = "receive"]
  /\ own' = [own EXCEPT ![w] = 0]
  /\ UNCHANGED <<ctx, input, main, step, jobs, report, results, wg, firstErr, returned, final>>

(* The range over the closed channel ends.                                 *)
Leave(w) ==
  /\ pc[w] = "receive" /\ main \in {"wait", "merge", "returned"}
  /\ pc' = [pc EXCEPT ![w] = "ended"]
  /\ wg' = wg - 1
  /\ UNCHANGED <<ctx, input, main, step, jobs, report, results, own, firstErr, returned, final>>

-----------------------------------------------------------------------------
Alone ==
  \/ EncodeShared \/ EncodeSharedFails \/ JudgeController \/ StartJobs \/ Spawn
  \/ StartFeeding \/ Close \/ JobsDone \/ JobsFail \/ MergeJob \/ Return

Working(w) ==
  Encode(w) \/ EncodeFails(w) \/ Judge(w) \/ JobJudged(w) \/ Leave(w)

Sending == \E w \in Worker : Feed(w)

Next == Expire \/ Alone \/ Sending \/ \E w \in Worker : Working(w)

(* Go runs every runnable goroutine, and a send for which some receiver is *)
(* waiting goes through.                                                   *)
Spec ==
  /\ Init /\ [][Next]_vars
  /\ WF_vars(Alone) /\ WF_vars(Sending)
  /\ \A w \in Worker : WF_vars(Working(w))

-----------------------------------------------------------------------------
(* Properties *)

(* Each slot of the results belongs to one goroutine at a time: no two     *)
(* workers hold one index, and the caller reads the slots only when no     *)
(* worker is left to write one, also when it returns an error.             *)
SlotsAreOwned ==
  /\ \A v, w \in Worker : own[v] = own[w] /\ own[v] # 0 => v = w
  /\ main \in {"merge", "returned"} => Living = {}

(* The caller, blocked on the unbuffered channel, always has a worker that *)
(* will come back for the next index: a job that cannot be encoded does    *)
(* not take its worker away.                                               *)
SomeoneReceives == main = "feed" /\ step < Len(jobs) => Living # {}

(* However the workers interleave, and whenever the context dies, the      *)
(* report is the one a single worker would have written: every control     *)
(* judged once per eligible job, errors in job order, an interrupted       *)
(* control in the errors, no report if a value could not be encoded; and   *)
(* Evaluate returns.                                                       *)
ImplementsEvaluation == Promise!Spec

=============================================================================
