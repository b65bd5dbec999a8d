--------------------------- MODULE EvaluateProofs ---------------------------
(***************************************************************************)
(* The workers of an evaluation, for every number of jobs, controls and    *)
(* processors: type correctness, one owner per slot of the results, and a  *)
(* receiver for every index that is still to be sent; then what each slot  *)
(* and the report hold at every point, and with it that what is returned   *)
(* is what Evaluation promises.                                            *)
(*                                                                         *)
(* Last, what is evaluated: for every controller and every job, however    *)
(* much of them the account is shown, a conclusion is so and stays so.     *)
(***************************************************************************)
EXTENDS Evaluate, Access, FiniteSetTheorems, TLAPS

(* The phases in which workers may exist, and a worker's places in its     *)
(* loop.                                                                   *)
Busy == {"spawn", "feed", "wait"}
Looping == {"receive", "encode", "judge"}

(* The caller starts its workers in order and leaves when all have left;   *)
(* no worker leaves before the channel is closed.                          *)
Lifecycle ==
  /\ main \in {"encode", "controller"} => \A w \in Worker : pc[w] = "unborn"
  /\ main = "spawn" =>
       /\ step <= Workers
       /\ \A w \in Worker : pc[w] = IF w <= step THEN "receive" ELSE "unborn"
  /\ main = "feed" =>
       /\ step <= Len(jobs)
       /\ \A w \in Worker : IF w <= Workers THEN pc[w] \in Looping ELSE pc[w] = "unborn"
  /\ main \in Busy => Len(jobs) > 0
  /\ main \in {"merge", "returned"} => Living = {}

Counted == wg = Cardinality(Living)

(* A worker holds an index from receiving it to coming back for the next,  *)
(* one that was sent and that nobody else holds.                           *)
Ownership ==
  /\ \A w \in Worker : own[w] # 0 <=> pc[w] \in {"encode", "judge"}
  /\ \A w \in Worker : own[w] <= Len(jobs)
  /\ main = "feed" => \A w \in Worker : own[w] <= step
  /\ \A v, w \in Worker : own[v] = own[w] /\ own[v] # 0 => v = w

IInv ==
  /\ TypeOK /\ Len(jobs) <= N
  /\ Lifecycle
  /\ Counted
  /\ Ownership

-----------------------------------------------------------------------------
LEMMA WorkersFinite ==
  ASSUME NEW S \in SUBSET Worker
  PROVE  IsFiniteSet(S) /\ Cardinality(S) \in Nat
  <1>1. IsFiniteSet(Worker)
    BY FS_Interval, EvaluateAssumption DEF Worker
  <1> QED
    BY <1>1, FS_Subset, FS_CardinalityType

(* A worker that moves inside its loop is counted as before, one that      *)
(* enters or leaves the loop once more or less.                            *)
LEMMA Stays ==
  ASSUME TypeOK, Counted, NEW w \in Worker, pc[w] \in Looping, NEW to \in Looping,
         pc' = [pc EXCEPT ![w] = to]
  PROVE  Living' = Living
  BY DEF TypeOK, Living, Looping

LEMMA Enters ==
  ASSUME TypeOK, Counted, NEW w \in Worker, pc[w] \notin Looping,
         pc' = [pc EXCEPT ![w] = "receive"]
  PROVE  Cardinality(Living') = wg + 1
  <1>1. Living' = Living \cup {w} /\ w \notin Living
    BY DEF TypeOK, Living, Looping
  <1>2. IsFiniteSet(Living)
    BY WorkersFinite DEF Living
  <1> QED
    BY <1>1, <1>2, FS_AddElement DEF Counted

LEMMA Leaves ==
  ASSUME TypeOK, Counted, NEW w \in Worker, pc[w] \in Looping,
         pc' = [pc EXCEPT ![w] = "ended"]
  PROVE  Cardinality(Living') = wg - 1 /\ wg > 0
  <1>1. Living' = Living \ {w} /\ w \in Living
    BY DEF TypeOK, Living, Looping
  <1>2. IsFiniteSet(Living) /\ Cardinality(Living) \in Nat
    BY WorkersFinite DEF Living
  <1>3. Cardinality(Living') = Cardinality(Living) - 1
    BY <1>1, <1>2, FS_RemoveElement
  <1>4. Cardinality(Living) # 0
    BY <1>1, <1>2, FS_EmptySet
  <1> QED
    BY <1>2, <1>3, <1>4 DEF Counted

(* What With does to a slot.                                               *)
LEMMA WithType ==
  ASSUME NEW slot \in Slot, NEW x \in Item, NEW o \in {"judged", "broken", "cut"}
  PROVE  With(slot, x, o) \in Slot
  <1>1. slot.findings \in Seq(Item \X {"judged", "broken", "cut"}) /\ slot.errors \in Seq(Item)
    BY DEF Slot
  <1>2. Append(slot.findings, <<x, o>>) \in Seq(Item \X {"judged", "broken", "cut"})
    BY <1>1
  <1>3. Append(slot.errors, x) \in Seq(Item)
    BY <1>1
  <1> QED
    BY <1>1, <1>2, <1>3 DEF With, Slot

LEMMA JoinedType ==
  ASSUME NEW slot \in Slot, NEW other \in Slot
  PROVE  Joined(slot, other) \in Slot
  <1>1. /\ slot.findings \in Seq(Item \X {"judged", "broken", "cut"}) /\ slot.errors \in Seq(Item)
        /\ other.findings \in Seq(Item \X {"judged", "broken", "cut"}) /\ other.errors \in Seq(Item)
    BY DEF Slot
  <1>2. slot.findings \o other.findings \in Seq(Item \X {"judged", "broken", "cut"})
    BY <1>1
  <1>3. slot.errors \o other.errors \in Seq(Item)
    BY <1>1
  <1> QED
    BY <1>2, <1>3 DEF Joined, Slot

LEMMA FunctionAsSequence ==
  ASSUME NEW S, NEW n \in Nat, NEW f \in [1 .. n -> S]
  PROVE  f \in Seq(S) /\ Len(f) = n
  OBVIOUS

(* The list of the jobs to evaluate is one, and not longer than the        *)
(* snapshot's.                                                             *)
LEMMA InOrderType ==
  ASSUME NEW list \in InOrder
  PROVE  list \in Seq(1 .. N) /\ Len(list) <= N
  <1>1. Kept \subseteq 1 .. N
    BY DEF Kept
  <1>2. IsFiniteSet(1 .. N) /\ Cardinality(1 .. N) = N
    BY FS_Interval, EvaluateAssumption
  <1>3. Cardinality(Kept) \in Nat /\ Cardinality(Kept) <= N
    BY <1>1, <1>2, FS_Subset, FS_CardinalityType
  <1>4. list \in [1 .. Cardinality(Kept) -> 1 .. N]
    BY <1>1 DEF InOrder
  <1>5. list \in Seq(1 .. N) /\ Len(list) = Cardinality(Kept)
    BY <1>3, <1>4, FunctionAsSequence
  <1> QED
    BY <1>3, <1>5

LEMMA WorkersType ==
  ASSUME TypeOK
  PROVE  Workers \in 0 .. Procs /\ Workers <= Len(jobs) /\ (Len(jobs) > 0 => Workers > 0)
         /\ Len(jobs) \in Nat
  BY EvaluateAssumption DEF TypeOK, Workers

-----------------------------------------------------------------------------
LEMMA InitInv == Init => IInv
  <1> SUFFICES ASSUME Init PROVE IInv
    OBVIOUS
  <1> USE DEF Init
  <1>1. Blank \in Slot
    BY DEF Blank, Slot
  <1>2. TypeOK
    BY <1>1, EvaluateAssumption DEF TypeOK, Worker
  <1>3. Living = {}
    BY DEF Living
  <1>4. Counted
    BY <1>3, FS_EmptySet DEF Counted
  <1>5. Lifecycle /\ Ownership
    BY DEF Lifecycle, Ownership, Busy
  <1> QED
    BY <1>2, <1>4, <1>5, EvaluateAssumption DEF IInv

-----------------------------------------------------------------------------
(* Each action preserves the invariant. *)

(* The caller's steps that leave the workers alone.                        *)
LEMMA Quiet ==
  ASSUME IInv, NEW from, NEW to, Move(from, to), UNCHANGED <<results, pc, own, wg, firstErr>>,
         TypeOK', Len(jobs') <= N, Lifecycle', 
         jobs' = jobs \/ main = "encode", to # "feed" \/ from = "spawn"
  PROVE  IInv'
  <1>1. Counted'
    BY DEF IInv, Counted, Living
  <1>2. Ownership'
    <2>1. \A w \in Worker : own'[w] # 0 <=> pc'[w] \in {"encode", "judge"}
      BY DEF IInv, Ownership
    <2>2. \A w \in Worker : own'[w] <= Len(jobs')
      <3>1. CASE jobs' = jobs
        BY <3>1 DEF IInv, Ownership
      <3>2. CASE main = "encode"
        <4>1. \A w \in Worker : own[w] = 0
          BY <3>2 DEF IInv, Ownership, Lifecycle
        <4>2. Len(jobs') \in Nat
          BY DEF TypeOK
        <4> QED
          BY <4>1, <4>2
      <3> QED
        BY <3>1, <3>2
    <2>3. main' = "feed" => \A w \in Worker : own'[w] <= step'
      <3> SUFFICES ASSUME main' = "feed" PROVE \A w \in Worker : own[w] = 0
        BY DEF Move
      <3>1. main = "spawn"
        BY DEF Move
      <3> QED
        BY <3>1 DEF IInv, Ownership, Lifecycle
    <2> QED
      BY <2>1, <2>2, <2>3 DEF IInv, Ownership
  <1> QED
    BY <1>1, <1>2 DEF IInv

LEMMA CallerMoves ==
  ASSUME IInv,
         EncodeShared \/ EncodeSharedFails \/ StartJobs \/ StartFeeding \/ Close
           \/ JobsDone \/ JobsFail \/ Return
  PROVE  IInv'
  <1> USE DEF IInv
  <1>1. Living' = Living
    BY DEF Living, EncodeShared, EncodeSharedFails, StartJobs, StartFeeding, Close, JobsDone,
           JobsFail, Return
  <1>2. CASE EncodeShared
    <2>1. jobs' \in Seq(1 .. N) /\ Len(jobs') <= N
      BY <1>2, InOrderType DEF EncodeShared
    <2>2. TypeOK'
      BY <1>2, <2>1 DEF EncodeShared, Move, TypeOK
    <2>3. Lifecycle'
      BY <1>2 DEF EncodeShared, Move, Lifecycle, Busy
    <2> QED
      BY <1>2, <2>1, <2>2, <2>3, Quiet DEF EncodeShared, Move
  <1>3. CASE EncodeSharedFails
    <2>1. TypeOK'
      BY <1>3 DEF EncodeSharedFails, Move, TypeOK
    <2>2. Living = {}
      BY <1>3 DEF EncodeSharedFails, Move, Lifecycle, Living
    <2>3. Lifecycle'
      BY <1>1, <1>3, <2>2 DEF EncodeSharedFails, Move, Lifecycle, Busy
    <2> QED
      BY <1>3, <2>1, <2>3, Quiet DEF EncodeSharedFails, Move
  <1>4. CASE StartJobs
    <2>1. TypeOK'
      BY <1>4 DEF StartJobs, Move, TypeOK
    <2>2. Living = {}
      BY <1>4 DEF StartJobs, Move, Lifecycle, Living
    <2>3. Workers' = Workers /\ Workers >= 0
      BY <1>4, WorkersType DEF StartJobs, Workers
    <2>4. main' = "spawn" => Len(jobs) > 0
      BY <1>4 DEF StartJobs, Move, TypeOK
    <2>5. Lifecycle'
      <3>1. \A w \in Worker : w > 0 /\ pc'[w] = "unborn"
        BY <1>4 DEF StartJobs, Move, Lifecycle, Worker
      <3>2. main' \in {"spawn", "merge"} /\ step' = 0
        BY <1>4 DEF StartJobs, Move
      <3>3. \A w \in Worker : pc'[w] = IF w <= 0 THEN "receive" ELSE "unborn"
        BY <3>1 DEF Worker
      <3> QED
        BY <1>1, <1>4, <2>2, <2>3, <2>4, <3>2, <3>3 DEF StartJobs, Lifecycle, Busy
    <2> QED
      BY <1>4, <2>1, <2>5, Quiet DEF StartJobs, Move
  <1>5. CASE StartFeeding
    <2>1. TypeOK'
      BY <1>5 DEF StartFeeding, Move, TypeOK
    <2>2. Workers' = Workers /\ Len(jobs) \in Nat
      BY <1>5, WorkersType DEF StartFeeding, Workers
    <2>3. Lifecycle'
      BY <1>5, <2>2 DEF StartFeeding, Move, Lifecycle, Busy, Looping
    <2> QED
      BY <1>5, <2>1, <2>3, Quiet DEF StartFeeding, Move
  <1>6. CASE Close
    <2>1. TypeOK'
      BY <1>6 DEF Close, Move, TypeOK
    <2>2. Lifecycle'
      BY <1>6 DEF Close, Move, Lifecycle, Busy
    <2> QED
      BY <1>6, <2>1, <2>2, Quiet DEF Close, Move
  <1>7. CASE JobsDone \/ JobsFail
    <2>1. TypeOK'
      BY <1>7 DEF JobsDone, JobsFail, Move, TypeOK
    <2>2. Living = {}
      <3>1. IsFiniteSet(Living) /\ Cardinality(Living) = 0
        BY <1>7, WorkersFinite DEF JobsDone, JobsFail, Living, Counted
      <3> QED
        BY <3>1, FS_EmptySet
    <2>3. Lifecycle'
      BY <1>1, <1>7, <2>2 DEF JobsDone, JobsFail, Move, Lifecycle, Busy
    <2> QED
      BY <1>7, <2>1, <2>3, Quiet DEF JobsDone, JobsFail, Move
  <1>8. CASE Return
    <2>1. TypeOK'
      BY <1>8 DEF Return, Move, TypeOK
    <2>2. Lifecycle'
      BY <1>1, <1>8 DEF Return, Move, Lifecycle, Busy
    <2> QED
      BY <1>8, <2>1, <2>2, Quiet DEF Return, Move
  <1> QED
    BY <1>2, <1>3, <1>4, <1>5, <1>6, <1>7, <1>8

LEMMA JudgeControllerInv ==
  ASSUME IInv, JudgeController PROVE IInv'
  <1> USE DEF IInv
  <1>1. Living' = Living
    BY DEF Living, JudgeController
  <1>2. TypeOK'
    <2>1. step + 1 \in Nat /\ <<0, step + 1>> \in Item
      BY EvaluateAssumption DEF TypeOK, Item
    <2>2. PICK o \in EvaluateOne(<<0, step + 1>>) : report' = With(report, <<0, step + 1>>, o)
      BY DEF JudgeController
    <2>3. o \in {"judged", "broken", "cut"}
      BY DEF EvaluateOne
    <2>4. report' \in Slot
      BY <2>1, <2>2, <2>3, WithType DEF TypeOK
    <2> QED
      BY <2>1, <2>4 DEF TypeOK, JudgeController
  <1>3. Lifecycle'
    BY <1>1 DEF JudgeController, Lifecycle, Busy
  <1>4. Counted' /\ Ownership'
    BY <1>1 DEF JudgeController, Counted, Ownership
  <1> QED
    BY <1>2, <1>3, <1>4 DEF JudgeController

LEMMA MergeJobInv ==
  ASSUME IInv, MergeJob PROVE IInv'
  <1> USE DEF IInv
  <1>1. Living' = Living
    BY DEF Living, MergeJob
  <1>2. TypeOK'
    <2>1. Len(jobs) \in Nat /\ step \in Nat /\ step + 1 \in 1 .. N
      BY WorkersType, EvaluateAssumption DEF MergeJob, TypeOK
    <2>2. results[step + 1] \in Slot /\ report \in Slot
      BY <2>1 DEF TypeOK
    <2>3. report' \in Slot
      BY <2>2, JoinedType DEF MergeJob
    <2> QED
      BY <2>1, <2>3 DEF TypeOK, MergeJob
  <1>3. Lifecycle'
    BY <1>1 DEF MergeJob, Lifecycle, Busy
  <1>4. Counted' /\ Ownership'
    BY <1>1 DEF MergeJob, Counted, Ownership
  <1> QED
    BY <1>2, <1>3, <1>4 DEF MergeJob

LEMMA SpawnInv ==
  ASSUME IInv, Spawn PROVE IInv'
  <1> USE DEF IInv
  <1>1. step + 1 \in Worker /\ step \in Nat /\ Workers' = Workers /\ step + 1 <= Workers
    BY WorkersType, EvaluateAssumption DEF Spawn, TypeOK, Worker, Workers
  <1>2. pc[step + 1] = "unborn" /\ pc' = [pc EXCEPT ![step + 1] = "receive"]
    BY <1>1 DEF Spawn, Lifecycle
  <1>3. TypeOK'
    BY <1>1 DEF TypeOK, Spawn
  <1>4. Counted'
    <2>1. Cardinality(Living') = wg + 1
      BY <1>1, <1>2, Enters DEF Looping
    <2> QED
      BY <2>1 DEF Counted, Spawn
  <1>5. Lifecycle'
    <2>1. \A w \in Worker : pc'[w] = IF w <= step + 1 THEN "receive" ELSE "unborn"
      <3> TAKE w \in Worker
      <3>1. pc[w] = IF w <= step THEN "receive" ELSE "unborn"
        BY DEF Spawn, Lifecycle
      <3>2. CASE w = step + 1
        BY <1>1, <1>2, <3>2 DEF TypeOK
      <3>3. CASE w # step + 1
        <4>1. pc'[w] = pc[w]
          BY <1>2, <3>3 DEF TypeOK
        <4>2. w <= step <=> w <= step + 1
          BY <1>1, <3>3 DEF Worker
        <4> QED
          BY <3>1, <4>1, <4>2
      <3> QED
        BY <3>2, <3>3
    <2> QED
      BY <1>1, <2>1 DEF Spawn, Lifecycle, Busy
  <1>6. Ownership'
    <2>1. \A w \in Worker : own[w] = 0 /\ pc'[w] \notin {"encode", "judge"}
      BY <1>2 DEF Spawn, Lifecycle, Ownership, TypeOK
    <2> QED
      BY <2>1 DEF Spawn, Ownership
  <1> QED
    BY <1>3, <1>4, <1>5, <1>6 DEF Spawn

LEMMA FeedInv ==
  ASSUME IInv, NEW w \in Worker, Feed(w) PROVE IInv'
  <1> USE DEF IInv
  <1>1. step \in Nat /\ Len(jobs) \in Nat /\ step + 1 <= Len(jobs) /\ step + 1 \in 0 .. N
    BY WorkersType, EvaluateAssumption DEF Feed, TypeOK
  <1>2. pc[w] = "receive" /\ pc' = [pc EXCEPT ![w] = "encode"]
        /\ own' = [own EXCEPT ![w] = step + 1] /\ Workers' = Workers
    BY DEF Feed, Workers
  <1>3. TypeOK'
    BY <1>1, <1>2 DEF TypeOK, Feed
  <1>4. Living' = Living
    BY <1>2, Stays DEF Looping
  <1>5. Lifecycle'
    <2>1. \A v \in Worker : IF v <= Workers THEN pc'[v] \in Looping ELSE pc'[v] = "unborn"
      BY <1>2 DEF Feed, Lifecycle, TypeOK, Looping
    <2> QED
      BY <1>1, <1>2, <2>1 DEF Feed, Lifecycle, Busy
  <1>6. \A v \in Worker : own[v] \in Nat /\ own[v] <= step
    BY DEF Feed, Ownership, TypeOK
  <1>7. Ownership'
    <2>1. \A v \in Worker : own'[v] = IF v = w THEN step + 1 ELSE own[v]
      BY <1>2 DEF TypeOK
    <2>2. \A v \in Worker : own'[v] # 0 <=> pc'[v] \in {"encode", "judge"}
      BY <1>1, <1>2, <2>1 DEF Ownership, TypeOK
    <2>3. \A v \in Worker : own'[v] <= step + 1 /\ own'[v] <= Len(jobs)
      BY <1>1, <1>6, <2>1 DEF Ownership
    <2>4. \A u, v \in Worker : own'[u] = own'[v] /\ own'[u] # 0 => u = v
      BY <1>1, <1>6, <2>1 DEF Ownership
    <2> QED
      BY <2>2, <2>3, <2>4 DEF Feed, Ownership
  <1> QED
    BY <1>3, <1>4, <1>5, <1>7 DEF Feed, Counted

(* A worker's own step: it keeps its index or gives it back.               *)
LEMMA WorkerMoves ==
  ASSUME IInv, NEW w \in Worker, pc[w] \in {"encode", "judge"},
         NEW to \in {"judge", "receive"}, pc' = [pc EXCEPT ![w] = to],
         own' = [own EXCEPT ![w] = IF to = "judge" THEN @ ELSE 0],
         UNCHANGED <<main, step, jobs, wg>>, TypeOK'
  PROVE  IInv'
  <1> USE DEF IInv
  <1>1. Living' = Living
    BY Stays DEF Looping
  <1>2. Lifecycle'
    <2>1. main \in {"feed", "wait"}
      <3>1. main \notin {"merge", "returned"}
        BY DEF Lifecycle, Living
      <3>2. main \notin {"encode", "controller", "spawn"}
        BY DEF Lifecycle
      <3> QED
        BY <3>1, <3>2 DEF TypeOK
    <2>2. main = "feed" =>
            \A v \in Worker : IF v <= Workers THEN pc'[v] \in Looping ELSE pc'[v] = "unborn"
      BY DEF Lifecycle, TypeOK, Looping
    <2>3. Workers' = Workers
      BY DEF Workers
    <2> QED
      BY <2>1, <2>2, <2>3 DEF Lifecycle, Busy
  <1>3. Ownership'
    <2>1. \A v \in Worker : own'[v] = IF v = w /\ to # "judge" THEN 0 ELSE own[v]
      BY DEF TypeOK
    <2>2. \A v \in Worker : own'[v] # 0 <=> pc'[v] \in {"encode", "judge"}
      BY <2>1 DEF Ownership, TypeOK
    <2>3. Len(jobs) \in Nat
      BY DEF TypeOK
    <2>4. \A v \in Worker : own'[v] <= Len(jobs)
      BY <2>1, <2>3 DEF Ownership
    <2>5. main = "feed" => \A v \in Worker : own'[v] <= step
      BY <2>1 DEF Ownership, TypeOK
    <2>6. \A u, v \in Worker : own'[u] = own'[v] /\ own'[u] # 0 => u = v
      BY <2>1 DEF Ownership
    <2> QED
      BY <2>2, <2>4, <2>5, <2>6 DEF Ownership
  <1> QED
    BY <1>1, <1>2, <1>3 DEF Counted

LEMMA JudgeInv ==
  ASSUME IInv, NEW w \in Worker, Judge(w) PROVE IInv'
  <1> USE DEF IInv
  <1> DEFINE i == own[w]
             slot == results[i]
             x == <<jobs[i], Len(slot.findings) + 1>>
  <1>1. i \in 1 .. Len(jobs) /\ i \in 1 .. N /\ Len(jobs) \in Nat
    BY EvaluateAssumption DEF Judge, Ownership, TypeOK
  <1>2. slot \in Slot /\ x \in Item
    <2>1. slot \in Slot
      BY <1>1 DEF TypeOK
    <2>2. Len(slot.findings) + 1 \in Nat
      BY <2>1 DEF Slot
    <2>3. jobs[i] \in 0 .. N
      BY <1>1, EvaluateAssumption DEF TypeOK
    <2> QED
      BY <2>1, <2>2, <2>3 DEF Item
  <1>3. PICK o \in EvaluateOne(x) : results' = [results EXCEPT ![i] = With(slot, x, o)]
    BY DEF Judge
  <1>4. o \in {"judged", "broken", "cut"}
    BY DEF EvaluateOne
  <1>5. With(slot, x, o) \in Slot
    BY <1>2, <1>4, WithType
  <1>6. TypeOK'
    BY <1>1, <1>3, <1>5 DEF TypeOK, Judge
  <1>7. Living' = Living /\ Workers' = Workers
    BY DEF Judge, Living, Workers
  <1> QED
    BY <1>6, <1>7 DEF Judge, Lifecycle, Busy, Counted, Ownership

LEMMA WorkingInv ==
  ASSUME IInv, NEW w \in Worker, Working(w) PROVE IInv'
  <1> USE DEF IInv
  <1>1. CASE Encode(w)
    <2>1. TypeOK'
      BY <1>1 DEF Encode, TypeOK
    <2>2. own' = [own EXCEPT ![w] = IF "judge" = "judge" THEN @ ELSE 0]
      BY <1>1 DEF Encode, TypeOK
    <2> QED
      BY <1>1, <2>1, <2>2, WorkerMoves DEF Encode
  <1>2. CASE EncodeFails(w)
    <2>1. TypeOK'
      BY <1>2, EvaluateAssumption DEF EncodeFails, TypeOK
    <2> QED
      BY <1>2, <2>1, WorkerMoves DEF EncodeFails
  <1>3. CASE Judge(w)
    BY <1>3, JudgeInv
  <1>4. CASE JobJudged(w)
    <2>1. TypeOK'
      BY <1>4, EvaluateAssumption DEF JobJudged, TypeOK
    <2> QED
      BY <1>4, <2>1, WorkerMoves DEF JobJudged
  <1>5. CASE Leave(w)
    <2>1. pc[w] \in Looping /\ pc' = [pc EXCEPT ![w] = "ended"] /\ wg' = wg - 1
      BY <1>5 DEF Leave, Looping
    <2>2. Cardinality(Living') = wg - 1 /\ wg > 0
      BY <2>1, Leaves
    <2>3. TypeOK'
      BY <1>5, <2>2 DEF Leave, TypeOK
    <2>4. Living # {}
      BY <2>1 DEF Living, Looping
    <2>5. main = "wait"
      BY <1>5, <2>4 DEF Leave, Lifecycle
    <2>6. Lifecycle'
      BY <1>5, <2>5 DEF Leave, Lifecycle, Busy
    <2>7. Ownership'
      BY <1>5, <2>5 DEF Leave, Ownership, TypeOK
    <2> QED
      BY <1>5, <2>1, <2>2, <2>3, <2>6, <2>7 DEF Leave, Counted
  <1> QED
    BY <1>1, <1>2, <1>3, <1>4, <1>5 DEF Working

LEMMA NextInv == IInv /\ [Next]_vars => IInv'
  <1> SUFFICES ASSUME IInv, [Next]_vars PROVE IInv'
    OBVIOUS
  <1>1. CASE Expire \/ UNCHANGED vars
    <2>1. TypeOK'
      BY <1>1 DEF IInv, TypeOK, Expire, vars
    <2>2. Living' = Living /\ Workers' = Workers
      BY <1>1 DEF Living, Workers, Expire, vars
    <2> QED
      BY <1>1, <2>1, <2>2 DEF IInv, Expire, vars, Lifecycle, Busy, Counted, Ownership
  <1>2. CASE Alone
    BY <1>2, CallerMoves, JudgeControllerInv, SpawnInv, MergeJobInv DEF Alone
  <1>3. CASE Sending
    BY <1>3, FeedInv DEF Sending
  <1>4. CASE \E w \in Worker : Working(w)
    BY <1>4, WorkingInv
  <1> QED
    BY <1>1, <1>2, <1>3, <1>4 DEF Next

-----------------------------------------------------------------------------
(* The invariant holds throughout an evaluation.                           *)
THEOREM Invariance == Spec => []IInv
  <1> QED
    BY InitInv, NextInv, PTL DEF Spec

(* Every variable of Evaluate and its workers keeps its type.              *)
THEOREM TypeCorrect == Spec => []TypeOK
  <1>1. IInv => TypeOK
    BY DEF IInv
  <1> QED
    BY <1>1, Invariance, PTL

(* For every number of jobs and workers, a slot of the results has one     *)
(* owner, and the caller reads the slots only when no worker is left.      *)
THEOREM OneOwner == Spec => []SlotsAreOwned
  <1>1. IInv => SlotsAreOwned
    BY DEF IInv, Ownership, Lifecycle, SlotsAreOwned
  <1> QED
    BY <1>1, Invariance, PTL

(* While an index is still to be sent on the unbuffered channel, some      *)
(* worker is left that comes back for it, whatever failed to encode.       *)
THEOREM NeverStranded == Spec => []SomeoneReceives
  <1>1. IInv => SomeoneReceives
    <2> SUFFICES ASSUME IInv, main = "feed", step < Len(jobs) PROVE Living # {}
      BY DEF SomeoneReceives
    <2>1. 1 \in Worker /\ 1 <= Workers
      BY WorkersType, EvaluateAssumption DEF IInv, Lifecycle, Busy, Worker
    <2>2. pc[1] \in Looping
      BY <2>1 DEF IInv, Lifecycle
    <2> QED
      BY <2>1, <2>2 DEF Living, Looping
  <1> QED
    BY <1>1, Invariance, PTL

-----------------------------------------------------------------------------
(* The order of a report *)

(* The promise instantiates FiniteSets a second time.                      *)
LEMMA SameCardinality == \A S : Promise!Cardinality(S) = Cardinality(S)
  BY DEF Promise!Cardinality, Cardinality

Members(s) == {s[k] : k \in DOMAIN s}
Rising(s) == \A a, b \in DOMAIN s : a < b => Promise!Before(s[a], s[b])

LEMMA ItemsAreOrdered ==
  /\ \A x \in Item : ~Promise!Before(x, x)
  /\ \A x, y, z \in Item :
       Promise!Before(x, y) /\ Promise!Before(y, z) => Promise!Before(x, z)
  <1>1. \A x \in Item : x[1] \in Nat /\ x[2] \in Nat
    BY EvaluateAssumption DEF Item
  <1> QED
    BY <1>1 DEF Promise!Before

(* A sequence that rises is the reading of its members, so there is one    *)
(* such sequence for a set of items.                                       *)
LEMMA ReadingIs ==
  ASSUME NEW s \in Seq(Item), Rising(s)
  PROVE  Promise!Reading(Members(s)) = s
  <1> DEFINE First(m) == {s[j] : j \in 1 .. m}
             Earlier(x) == {y \in Members(s) : Promise!Before(y, x)}
  <1>1. Len(s) \in Nat /\ DOMAIN s = 1 .. Len(s) /\ \A k \in DOMAIN s : s[k] \in Item
    OBVIOUS
  <1>2. \A a, b \in DOMAIN s : Promise!Before(s[a], s[b]) <=> a < b
    <2> TAKE a, b \in DOMAIN s
    <2>1. CASE a < b
      BY <2>1 DEF Rising
    <2>2. CASE a = b
      BY <1>1, <2>2, ItemsAreOrdered
    <2>3. CASE b < a
      <3>1. Promise!Before(s[b], s[a])
        BY <2>3 DEF Rising
      <3> QED
        BY <1>1, <2>3, <3>1, ItemsAreOrdered
    <2> QED
      BY <1>1, <2>1, <2>2, <2>3
  <1>3. \A a, b \in DOMAIN s : s[a] = s[b] => a = b
    <2> TAKE a, b \in DOMAIN s
    <2>1. s[a] = s[b] => ~(a < b) /\ ~(b < a)
      BY <1>1, <1>2
    <2> QED
      BY <1>1, <2>1
  <1>4. \A m \in 0 .. Len(s) : Cardinality(First(m)) = m
    <2> TAKE m \in 0 .. Len(s)
    <2> DEFINE f == [j \in 1 .. m |-> s[j]]
    <2>1. 1 .. m \subseteq DOMAIN s
      BY <1>1
    <2>2. f \in Bijection(1 .. m, First(m))
      <3>1. f \in [1 .. m -> First(m)] /\ \A j \in 1 .. m : f[j] = s[j]
        OBVIOUS
      <3>2. \A a, b \in 1 .. m : f[a] = f[b] => a = b
        BY <1>3, <2>1, <3>1
      <3>3. \A x \in First(m) : \E j \in 1 .. m : f[j] = x
        BY <3>1
      <3> HIDE DEF f, First
      <3>4. f \in Injection(1 .. m, First(m))
        BY <3>1, <3>2 DEF Injection, IsInjective
      <3>5. f \in Surjection(1 .. m, First(m))
        BY <3>1, <3>3 DEF Surjection
      <3> QED
        BY <3>4, <3>5 DEF Bijection
    <2>3. IsFiniteSet(1 .. m) /\ Cardinality(1 .. m) = m
      BY <1>1, FS_Interval
    <2> QED
      BY <2>2, <2>3, FS_Bijection DEF ExistsBijection
  <1>5. \A k \in DOMAIN s : Cardinality(Earlier(s[k])) = k - 1
    <2> TAKE k \in DOMAIN s
    <2>1. Earlier(s[k]) = First(k - 1)
      <3>1. \A j \in DOMAIN s : j \in 1 .. k - 1 <=> j < k
        BY <1>1
      <3>2. 1 .. k - 1 \subseteq DOMAIN s
        BY <1>1
      <3> QED
        BY <1>2, <3>1, <3>2 DEF Members
    <2>2. k - 1 \in 0 .. Len(s)
      BY <1>1
    <2> QED
      BY <1>4, <2>1, <2>2
  <1>6. Cardinality(Members(s)) = Len(s)
    <2>1. Members(s) = First(Len(s)) /\ Len(s) \in 0 .. Len(s)
      BY <1>1 DEF Members
    <2> QED
      BY <1>4, <2>1
  <1>7. ASSUME NEW k \in DOMAIN s
        PROVE  (CHOOSE x \in Members(s) : Promise!Cardinality(Earlier(x)) = k - 1) = s[k]
    <2>1. s[k] \in Members(s) /\ Promise!Cardinality(Earlier(s[k])) = k - 1
      BY <1>5, SameCardinality DEF Members
    <2>2. ASSUME NEW x \in Members(s), Promise!Cardinality(Earlier(x)) = k - 1 PROVE x = s[k]
      <3>1. PICK j \in DOMAIN s : x = s[j]
        BY DEF Members
      <3>2. j - 1 = k - 1
        BY <1>5, <2>2, <3>1, SameCardinality
      <3> QED
        BY <1>1, <3>1, <3>2
    <2> HIDE DEF Earlier
    <2> QED
      BY <2>1, <2>2
  <1>8. Promise!Reading(Members(s)) =
          [k \in 1 .. Promise!Cardinality(Members(s)) |->
             CHOOSE x \in Members(s) : Promise!Cardinality(Earlier(x)) = k - 1]
    BY DEF Promise!Reading
  <1> HIDE DEF Earlier
  <1>9. Promise!Cardinality(Members(s)) = Len(s)
    BY <1>6, SameCardinality
  <1>10. Promise!Reading(Members(s)) = [k \in 1 .. Len(s) |-> s[k]]
    BY <1>1, <1>7, <1>8, <1>9
  <1> QED
    BY <1>1, <1>10

(* What is where when two sequences are joined.                            *)
LEMMA JoinIs ==
  ASSUME NEW S, NEW s \in Seq(S), NEW t \in Seq(S)
  PROVE  /\ s \o t \in Seq(S)
         /\ Len(s) \in Nat /\ Len(t) \in Nat /\ Len(s \o t) = Len(s) + Len(t)
         /\ DOMAIN s = 1 .. Len(s) /\ DOMAIN t = 1 .. Len(t)
         /\ DOMAIN (s \o t) = 1 .. Len(s) + Len(t)
         /\ \A k \in DOMAIN s : k \in DOMAIN (s \o t) /\ (s \o t)[k] = s[k]
         /\ \A k \in DOMAIN t : Len(s) + k \in DOMAIN (s \o t) /\ (s \o t)[Len(s) + k] = t[k]
         /\ \A k \in DOMAIN (s \o t) :
              k \in DOMAIN s \/ (k > Len(s) /\ k - Len(s) \in DOMAIN t /\ (s \o t)[k] = t[k - Len(s)])
  OBVIOUS

LEMMA SameSequence ==
  ASSUME NEW S, NEW s \in Seq(S), NEW t \in Seq(S), DOMAIN s = DOMAIN t,
         \A k \in DOMAIN s : s[k] = t[k]
  PROVE  s = t
  OBVIOUS

(* What rises, then what rises from beyond it, rises.                      *)
LEMMA RisingOn ==
  ASSUME NEW s \in Seq(Item), NEW t \in Seq(Item), Rising(s), Rising(t),
         \A x \in Members(s), y \in Members(t) : Promise!Before(x, y)
  PROVE  Rising(s \o t)
  <1>1. /\ \A k \in DOMAIN s : (s \o t)[k] = s[k]
        /\ \A k \in DOMAIN (s \o t) :
             k \in DOMAIN s \/ (k > Len(s) /\ k - Len(s) \in DOMAIN t /\ (s \o t)[k] = t[k - Len(s)])
        /\ DOMAIN s = 1 .. Len(s) /\ Len(s) \in Nat /\ DOMAIN (s \o t) = 1 .. Len(s) + Len(t)
        /\ Len(t) \in Nat
    BY JoinIs
  <1> DEFINE u == s \o t
  <1> HIDE DEF u
  <1>2. ASSUME NEW a \in DOMAIN u, NEW b \in DOMAIN u, a < b
        PROVE  Promise!Before(u[a], u[b])
    <2>1. a \in Nat /\ b \in Nat
      BY <1>1 DEF u
    <2>2. CASE a \in DOMAIN s /\ b \in DOMAIN s
      BY <1>1, <1>2, <2>2 DEF Rising, u
    <2>3. CASE a \in DOMAIN s /\ b \notin DOMAIN s
      <3>1. u[a] \in Members(s)
        BY <1>1, <2>3 DEF Members, u
      <3>2. u[b] \in Members(t)
        BY <1>1, <2>3 DEF Members, u
      <3> QED
        BY <3>1, <3>2
    <2>4. CASE a \notin DOMAIN s
      <3>1. a > Len(s) /\ a - Len(s) \in DOMAIN t /\ u[a] = t[a - Len(s)]
        BY <1>1, <2>4 DEF u
      <3>2. b \notin DOMAIN s
        BY <1>1, <1>2, <2>1, <3>1
      <3>3. b > Len(s) /\ b - Len(s) \in DOMAIN t /\ u[b] = t[b - Len(s)]
        BY <1>1, <3>2 DEF u
      <3>4. a - Len(s) < b - Len(s)
        BY <1>1, <1>2, <2>1
      <3> QED
        BY <3>1, <3>3, <3>4 DEF Rising
    <2> QED
      BY <2>2, <2>3, <2>4
  <1> QED
    BY <1>2 DEF Rising, u

LEMMA MembersJoin ==
  ASSUME NEW S, NEW s \in Seq(S), NEW t \in Seq(S)
  PROVE  Members(s \o t) = Members(s) \cup Members(t)
  <1>1. Members(s) \cup Members(t) \subseteq Members(s \o t)
    <2>1. ASSUME NEW k \in DOMAIN s PROVE s[k] \in Members(s \o t)
      BY JoinIs DEF Members
    <2>2. ASSUME NEW k \in DOMAIN t PROVE t[k] \in Members(s \o t)
      <3>1. Len(s) + k \in DOMAIN (s \o t) /\ (s \o t)[Len(s) + k] = t[k]
        BY JoinIs
      <3> QED
        BY <3>1 DEF Members
    <2> QED
      BY <2>1, <2>2 DEF Members
  <1>2. ASSUME NEW k \in DOMAIN (s \o t) PROVE (s \o t)[k] \in Members(s) \cup Members(t)
    BY JoinIs DEF Members
  <1> QED
    BY <1>1, <1>2 DEF Members

-----------------------------------------------------------------------------
(* What a slot holds *)

Outcomes == {"judged", "broken", "cut"}

Subjects(findings) == [k \in DOMAIN findings |-> findings[k][1]]
Unjudged(findings) == {findings[k][1] : k \in {i \in DOMAIN findings : findings[i][2] # "judged"}}

(* A finding for each of these items, in their order and as a policy       *)
(* answers, and an error for each that was not judged, in the same order.  *)
Covers(slot, items) ==
  /\ Members(Subjects(slot.findings)) = items
  /\ Rising(Subjects(slot.findings))
  /\ \A k \in DOMAIN slot.findings : slot.findings[k][2] \in EvaluateOne(slot.findings[k][1])
  /\ Members(slot.errors) = Unjudged(slot.findings)
  /\ Rising(slot.errors)

LEMMA SubjectsJoin ==
  ASSUME NEW s \in Seq(Item \X Outcomes), NEW t \in Seq(Item \X Outcomes)
  PROVE  /\ Subjects(s) \in Seq(Item)
         /\ Subjects(s \o t) = Subjects(s) \o Subjects(t)
         /\ Unjudged(s) \subseteq Members(Subjects(s))
         /\ Unjudged(s \o t) = Unjudged(s) \cup Unjudged(t)
  <1>1. ASSUME NEW u \in Seq(Item \X Outcomes)
        PROVE  Subjects(u) \in Seq(Item) /\ Len(Subjects(u)) = Len(u)
    <2>1. Len(u) \in Nat /\ DOMAIN u = 1 .. Len(u) /\ \A k \in DOMAIN u : u[k][1] \in Item
      OBVIOUS
    <2>2. Subjects(u) \in [1 .. Len(u) -> Item]
      BY <2>1 DEF Subjects
    <2> QED
      BY <2>1, <2>2, FunctionAsSequence
  <1> DEFINE a == Subjects(s)
             b == Subjects(t)
             c == Subjects(s \o t)
  <1>2. s \o t \in Seq(Item \X Outcomes)
    BY JoinIs
  <1>3. c = a \o b
    <2>1. /\ a \in Seq(Item) /\ b \in Seq(Item) /\ c \in Seq(Item)
          /\ Len(a) = Len(s) /\ Len(b) = Len(t) /\ Len(c) = Len(s \o t)
      BY <1>1, <1>2
    <2>2. DOMAIN c = DOMAIN (a \o b)
      <3>1. DOMAIN (a \o b) = 1 .. Len(a) + Len(b) /\ Len(s \o t) = Len(s) + Len(t)
        BY <2>1, JoinIs
      <3>2. DOMAIN c = 1 .. Len(c)
        BY <2>1
      <3> QED
        BY <2>1, <3>1, <3>2
    <2>3. ASSUME NEW k \in DOMAIN c PROVE c[k] = (a \o b)[k]
      <3>1. k \in DOMAIN (s \o t) /\ c[k] = (s \o t)[k][1]
        BY DEF Subjects
      <3>2. CASE k \in DOMAIN s
        <4>1. (s \o t)[k] = s[k]
          BY <3>2, JoinIs
        <4>2. k \in DOMAIN a /\ a[k] = s[k][1]
          BY <3>2 DEF Subjects
        <4>3. (a \o b)[k] = a[k]
          BY <2>1, <4>2, JoinIs
        <4> QED
          BY <3>1, <4>1, <4>2, <4>3
      <3>3. CASE k \notin DOMAIN s
        <4>1. k > Len(s) /\ k - Len(s) \in DOMAIN t /\ (s \o t)[k] = t[k - Len(s)]
          BY <3>1, <3>3, JoinIs
        <4>2. k - Len(s) \in DOMAIN b /\ b[k - Len(s)] = t[k - Len(s)][1]
          BY <4>1 DEF Subjects
        <4>3. k \notin DOMAIN a /\ k \in DOMAIN (a \o b)
          BY <2>1, <2>2, <3>3 DEF Subjects
        <4>4. (a \o b)[k] = b[k - Len(a)]
          BY <2>1, <4>3, JoinIs
        <4> QED
          BY <2>1, <3>1, <4>1, <4>2, <4>4
      <3> QED
        BY <3>2, <3>3
    <2>4. a \o b \in Seq(Item) /\ c \in Seq(Item)
      BY <2>1, JoinIs
    <2> HIDE DEF a, b, c
    <2> QED
      BY <2>2, <2>3, <2>4, SameSequence
  <1>4. Unjudged(s) \subseteq Members(a)
    BY DEF Unjudged, Members, Subjects
  <1>5. Unjudged(s) \cup Unjudged(t) \subseteq Unjudged(s \o t)
    <2>1. ASSUME NEW k \in DOMAIN s, s[k][2] # "judged" PROVE s[k][1] \in Unjudged(s \o t)
      <3>1. k \in DOMAIN (s \o t) /\ (s \o t)[k] = s[k]
        BY JoinIs
      <3> QED
        BY <2>1, <3>1 DEF Unjudged
    <2>2. ASSUME NEW k \in DOMAIN t, t[k][2] # "judged" PROVE t[k][1] \in Unjudged(s \o t)
      <3>1. Len(s) + k \in DOMAIN (s \o t) /\ (s \o t)[Len(s) + k] = t[k]
        BY JoinIs
      <3> QED
        BY <2>2, <3>1 DEF Unjudged
    <2> QED
      BY <2>1, <2>2 DEF Unjudged
  <1>6. ASSUME NEW k \in DOMAIN (s \o t), (s \o t)[k][2] # "judged"
        PROVE  (s \o t)[k][1] \in Unjudged(s) \cup Unjudged(t)
    <2>1. CASE k \in DOMAIN s
      <3>1. (s \o t)[k] = s[k]
        BY <2>1, JoinIs
      <3> QED
        BY <1>6, <2>1, <3>1 DEF Unjudged
    <2>2. CASE k \notin DOMAIN s
      <3>1. k - Len(s) \in DOMAIN t /\ (s \o t)[k] = t[k - Len(s)]
        BY <2>2, JoinIs
      <3> QED
        BY <1>6, <3>1 DEF Unjudged
    <2> QED
      BY <2>1, <2>2
  <1>7. Unjudged(s \o t) = Unjudged(s) \cup Unjudged(t)
    BY <1>5, <1>6 DEF Unjudged
  <1> QED
    BY <1>1, <1>3, <1>4, <1>7

LEMMA AppendIsJoin ==
  ASSUME NEW S, NEW s \in Seq(S), NEW e \in S
  PROVE  Append(s, e) = s \o <<e>>
  OBVIOUS

LEMMA CoversNothing == Blank \in Slot /\ Covers(Blank, {})
  <1>1. /\ DOMAIN Subjects(<<>>) = {} /\ Members(Subjects(<<>>)) = {} /\ Unjudged(<<>>) = {}
        /\ Members(<<>>) = {}
    BY DEF Subjects, Members, Unjudged
  <1>2. Blank \in Slot /\ Blank.findings = <<>> /\ Blank.errors = <<>>
    BY DEF Blank, Slot
  <1>3. DOMAIN <<>> = {}
    OBVIOUS
  <1>4. Rising(<<>>) /\ Rising(Subjects(<<>>))
    BY <1>1, <1>3 DEF Rising
  <1>5. \A k \in DOMAIN <<>> : <<>>[k][2] \in EvaluateOne(<<>>[k][1])
    BY <1>3
  <1> HIDE DEF Blank
  <1> QED
    BY <1>1, <1>2, <1>4, <1>5 DEF Covers

(* One slot, then another whose items all come later.                      *)
LEMMA CoversJoined ==
  ASSUME NEW slot \in Slot, NEW other \in Slot, NEW A, NEW B,
         Covers(slot, A), Covers(other, B), \A x \in A, y \in B : Promise!Before(x, y)
  PROVE  Covers(Joined(slot, other), A \cup B)
  <1> DEFINE s == slot.findings
             t == other.findings
             e == slot.errors
             f == other.errors
             j == Joined(slot, other)
  <1>1. /\ s \in Seq(Item \X Outcomes) /\ t \in Seq(Item \X Outcomes)
        /\ e \in Seq(Item) /\ f \in Seq(Item)
    BY DEF Slot, Outcomes
  <1>2. j.findings = s \o t /\ j.errors = e \o f
    BY DEF Joined
  <1>3. /\ Members(Subjects(s)) = A /\ Rising(Subjects(s))
        /\ \A k \in DOMAIN s : s[k][2] \in EvaluateOne(s[k][1])
        /\ Members(e) = Unjudged(s) /\ Rising(e)
    BY DEF Covers
  <1>4. /\ Members(Subjects(t)) = B /\ Rising(Subjects(t))
        /\ \A k \in DOMAIN t : t[k][2] \in EvaluateOne(t[k][1])
        /\ Members(f) = Unjudged(t) /\ Rising(f)
    BY DEF Covers
  <1> HIDE DEF s, t, e, f, j
  <1>5. Subjects(s) \in Seq(Item) /\ Subjects(t) \in Seq(Item)
    BY <1>1, SubjectsJoin
  <1>6. Subjects(s \o t) = Subjects(s) \o Subjects(t)
    BY <1>1, SubjectsJoin
  <1>7. Members(Subjects(s \o t)) = A \cup B
    BY <1>3, <1>4, <1>5, <1>6, MembersJoin
  <1>8. Rising(Subjects(s \o t))
    BY <1>3, <1>4, <1>5, <1>6, RisingOn
  <1>9. \A k \in DOMAIN (s \o t) : (s \o t)[k][2] \in EvaluateOne((s \o t)[k][1])
    <2> TAKE k \in DOMAIN (s \o t)
    <2>1. CASE k \in DOMAIN s
      <3>1. (s \o t)[k] = s[k]
        BY <1>1, <2>1, JoinIs
      <3> QED
        BY <1>3, <2>1, <3>1
    <2>2. CASE k \notin DOMAIN s
      <3>1. k - Len(s) \in DOMAIN t /\ (s \o t)[k] = t[k - Len(s)]
        BY <1>1, <2>2, JoinIs
      <3> QED
        BY <1>4, <3>1
    <2> QED
      BY <2>1, <2>2
  <1>10. Members(e \o f) = Unjudged(s \o t)
    <2>1. Unjudged(s \o t) = Unjudged(s) \cup Unjudged(t)
      BY <1>1, SubjectsJoin
    <2>2. Members(e \o f) = Members(e) \cup Members(f)
      BY <1>1, MembersJoin
    <2> QED
      BY <1>3, <1>4, <2>1, <2>2
  <1>11. Rising(e \o f)
    <2>1. Members(e) \subseteq A /\ Members(f) \subseteq B
      BY <1>1, <1>3, <1>4, SubjectsJoin
    <2> QED
      BY <1>1, <1>3, <1>4, <2>1, RisingOn
  <1>12. Covers(j, A \cup B)
    <2>1. Subjects(j.findings) = Subjects(s \o t) /\ Unjudged(j.findings) = Unjudged(s \o t)
      BY <1>2
    <2>2. \A k \in DOMAIN j.findings : j.findings[k][2] \in EvaluateOne(j.findings[k][1])
      BY <1>2, <1>9
    <2>3. Rising(Subjects(j.findings)) /\ Rising(j.errors)
      BY <1>2, <1>8, <1>11, <2>1
    <2>4. Members(Subjects(j.findings)) = A \cup B /\ Members(j.errors) = Unjudged(j.findings)
      BY <1>2, <1>7, <1>10, <2>1
    <2> QED
      BY <2>2, <2>3, <2>4 DEF Covers
  <1> QED
    BY <1>12 DEF j

(* One more control against a resource.                                    *)
LEMMA CoversOneMore ==
  ASSUME NEW slot \in Slot, NEW A, Covers(slot, A),
         NEW x \in Item, NEW o \in EvaluateOne(x), \A y \in A : Promise!Before(y, x)
  PROVE  Covers(With(slot, x, o), A \cup {x})
  <1> DEFINE one == <<<<x, o>>>>
             wrong == IF o = "judged" THEN <<>> ELSE <<x>>
             other == [findings |-> one, errors |-> wrong]
  <1>1. o \in Outcomes
    BY DEF EvaluateOne, Outcomes
  <1>2. /\ one \in Seq(Item \X Outcomes) /\ DOMAIN one = {1} /\ one[1] = <<x, o>>
        /\ wrong \in Seq(Item)
    BY <1>1
  <1>3. other \in Slot
    BY <1>2 DEF Slot, Outcomes
  <1>4. With(slot, x, o) = Joined(slot, other)
    <2>1. slot.findings \in Seq(Item \X Outcomes) /\ slot.errors \in Seq(Item)
      BY DEF Slot, Outcomes
    <2>2. Append(slot.findings, <<x, o>>) = slot.findings \o one
      <3>1. <<x, o>> \in Item \X Outcomes
        BY <1>1
      <3> QED
        BY <2>1, <3>1, AppendIsJoin
    <2>3. Append(slot.errors, x) = slot.errors \o <<x>> /\ slot.errors \o <<>> = slot.errors
      BY <2>1
    <2> HIDE DEF one
    <2>4. slot.errors \o wrong = IF o = "judged" THEN slot.errors ELSE Append(slot.errors, x)
      BY <2>3
    <2> HIDE DEF wrong
    <2> QED
      BY <2>2, <2>4 DEF With, Joined
  <1>5. Covers(other, {x})
    <2> HIDE DEF one
    <2>1. Subjects(one) = [k \in {1} |-> x]
      BY <1>2 DEF Subjects
    <2>2. Members(Subjects(one)) = {x} /\ Rising(Subjects(one))
      BY <2>1 DEF Members, Rising
    <2>3. Unjudged(one) = IF o = "judged" THEN {} ELSE {x}
      BY <1>2 DEF Unjudged
    <2>4. Members(wrong) = Unjudged(one) /\ Rising(wrong)
      <3>1. CASE o = "judged"
        BY <2>3, <3>1 DEF Members, Rising
      <3>2. CASE o # "judged"
        BY <2>3, <3>2 DEF Members, Rising
      <3> QED
        BY <3>1, <3>2
    <2> HIDE DEF wrong
    <2>5. \A k \in DOMAIN one : one[k][2] \in EvaluateOne(one[k][1])
      BY <1>2
    <2> QED
      BY <2>2, <2>4, <2>5 DEF Covers
  <1> HIDE DEF other
  <1> QED
    BY <1>3, <1>4, <1>5, CoversJoined

(* What was judged while the context lived could have been when it died.   *)
LEMMA CoversStill ==
  ASSUME NEW slot, NEW A, Covers(slot, A), UNCHANGED input, ctx' = ctx \/ ctx' = "dead"
  PROVE  Covers(slot, A)'
  <1>1. \A x : EvaluateOne(x) \subseteq EvaluateOne(x)'
    BY DEF EvaluateOne
  <1> QED
    BY <1>1 DEF Covers

-----------------------------------------------------------------------------
(* What is written where *)

Judged(i) == Len(results[i].findings)
ItemsOf(i, k) == {jobs[i]} \X (1 .. k)
Merged(n) == Promise!ControllerItems \cup ({jobs[i] : i \in 1 .. n} \X (1 .. JobChecks))
Encodable(i) == jobs[i] \notin input.opaque
Sent == IF main = "feed" THEN step ELSE Len(jobs)

(* Each slot holds what its job has been judged for so far.                *)
SlotsWritten ==
  /\ main \in {"encode", "controller"} => \A i \in 1 .. N : results[i] = Blank
  /\ \A i \in 1 .. Len(jobs) : Judged(i) <= JobChecks /\ Covers(results[i], ItemsOf(i, Judged(i)))

(* The report holds what the caller did.                                   *)
ReportWritten ==
  /\ main = "encode" => report = Blank
  /\ main = "controller" => step <= ControllerChecks /\ Covers(report, {0} \X (1 .. step))
  /\ main \in Busy => Covers(report, Promise!ControllerItems)
  /\ main = "merge" => step <= Len(jobs) /\ Covers(report, Merged(step))

(* An index that was sent is held, or its job was judged, or some job      *)
(* could not be encoded.                                                   *)
Accounted ==
  /\ main \in {"feed", "wait"} =>
       \A i \in 1 .. Sent :
         \/ firstErr # 0
         \/ \E w \in Worker : own[w] = i
         \/ Encodable(i) /\ Judged(i) = JobChecks
  /\ main = "merge" /\ JobChecks > 0 =>
       \A i \in 1 .. Len(jobs) : Encodable(i) /\ Judged(i) = JobChecks
  /\ \A w \in Worker : pc[w] = "judge" => Encodable(own[w])

(* What the caller has found out when it comes to where it is.             *)
Found ==
  /\ firstErr # 0 =>
       main \in {"feed", "wait", "returned"} /\ firstErr <= Len(jobs) /\ ~Encodable(firstErr)
  /\ main \in Busy => JobChecks > 0
  /\ main \notin {"encode", "returned"} => 0 \notin input.opaque /\ jobs \in InOrder
  /\ main # "returned" => returned = "pending"

Faithful == SlotsWritten /\ ReportWritten /\ Accounted /\ Found

(* The jobs to evaluate are the ones kept, each once, in their order.      *)
LEMMA ListIsWhole ==
  ASSUME NEW list \in InOrder
  PROVE  /\ {list[i] : i \in 1 .. Len(list)} = Kept
         /\ Len(list) = Cardinality(Kept) /\ Len(list) \in Nat
         /\ \A i \in 1 .. Len(list) : list[i] \in Kept
         /\ \A a, b \in 1 .. Len(list) : a < b => list[a] < list[b]
  <1>1. Kept \subseteq 1 .. N
    BY DEF Kept
  <1>2. IsFiniteSet(1 .. N)
    BY FS_Interval, EvaluateAssumption
  <1>3. IsFiniteSet(Kept) /\ Cardinality(Kept) \in Nat
    BY <1>1, <1>2, FS_Subset, FS_CardinalityType
  <1> DEFINE n == Cardinality(Kept)
  <1>4. /\ list \in [1 .. n -> Kept] /\ DOMAIN list = 1 .. n
        /\ \A a, b \in 1 .. n : a < b => list[a] < list[b]
    BY DEF InOrder
  <1>5. Len(list) = n
    BY <1>3, <1>4, FunctionAsSequence
  <1> HIDE DEF n
  <1>6. \A a, b \in 1 .. n : list[a] = list[b] => a = b
    <2> TAKE a, b \in 1 .. n
    <2>1. list[a] \in Nat /\ list[b] \in Nat
      <3>1. \A j \in Kept : j \in Nat
        BY <1>1, EvaluateAssumption
      <3> QED
        BY <1>4, <3>1
    <2>2. a < b => list[a] < list[b]
      BY <1>4
    <2>3. b < a => list[b] < list[a]
      BY <1>4
    <2>4. a \in Int /\ b \in Int
      BY <1>3 DEF n
    <2> QED
      BY <2>1, <2>2, <2>3, <2>4
  <1>7. list \in Injection(1 .. n, Kept)
    BY <1>4, <1>6 DEF Injection, IsInjective
  <1>8. IsFiniteSet(1 .. n) /\ Cardinality(1 .. n) = n
    BY <1>3, FS_Interval DEF n
  <1>9. list \in Surjection(1 .. n, Kept)
    BY <1>3, <1>7, <1>8, FS_Injection DEF n
  <1>10. \A j \in Kept : \E i \in 1 .. n : list[i] = j
    BY <1>9 DEF Surjection
  <1>11. {list[i] : i \in 1 .. n} = Kept
    BY <1>4, <1>10
  <1> QED
    BY <1>3, <1>4, <1>5, <1>11 DEF n

LEMMA KeptIsEligible == Kept = Promise!Eligible
  BY DEF Kept, Promise!Eligible

-----------------------------------------------------------------------------
(* Each action keeps what is written *)

LEMMA EntryOf ==
  ASSUME NEW S, NEW s \in Seq(S), NEW i \in 1 .. Len(s)
  PROVE  s[i] \in S
  OBVIOUS

(* A worker with an index: the caller still sends, or waits.               *)
LEMMA Serving ==
  ASSUME IInv, NEW w \in Worker, pc[w] \in {"encode", "judge"}
  PROVE  main \in {"feed", "wait"} /\ own[w] \in 1 .. Len(jobs) /\ own[w] \in 1 .. N
  <1>1. main \notin {"merge", "returned"}
    BY DEF IInv, Lifecycle, Living
  <1>2. main \notin {"encode", "controller", "spawn"}
    BY DEF IInv, Lifecycle
  <1>3. own[w] \in 0 .. N /\ own[w] # 0 /\ own[w] <= Len(jobs) /\ Len(jobs) \in Nat
    BY DEF IInv, Ownership, TypeOK
  <1> QED
    BY <1>1, <1>2, <1>3, EvaluateAssumption DEF IInv, TypeOK

(* Steps that write nothing leave what is written so.                      *)
LEMMA SlotsStay ==
  ASSUME SlotsWritten, UNCHANGED <<input, jobs, results>>, ctx' = ctx \/ ctx' = "dead",
         main' \in {"encode", "controller"} => main \in {"encode", "controller"}
  PROVE  SlotsWritten'
  <1>1. ASSUME NEW i \in 1 .. Len(jobs)
        PROVE  Judged(i)' <= JobChecks /\ Covers(results[i], ItemsOf(i, Judged(i)))'
    <2>1. Judged(i) <= JobChecks /\ Covers(results[i], ItemsOf(i, Judged(i)))
      BY DEF SlotsWritten
    <2>2. results'[i] = results[i] /\ Judged(i)' = Judged(i)
      BY DEF Judged
    <2>3. ItemsOf(i, Judged(i))' = ItemsOf(i, Judged(i))
      BY <2>2 DEF ItemsOf
    <2> QED
      BY <2>1, <2>2, <2>3, CoversStill
  <1> QED
    BY <1>1 DEF SlotsWritten

LEMMA ReportStays ==
  ASSUME ReportWritten, UNCHANGED <<input, jobs, report>>, ctx' = ctx \/ ctx' = "dead",
         \/ main' = main /\ step' = step
         \/ main \in Busy /\ main' \in Busy
         \/ main' = "returned"
  PROVE  ReportWritten'
  <1>1. /\ Promise!ControllerItems' = Promise!ControllerItems
        /\ Merged(step)' =
             Promise!ControllerItems \cup ({jobs[i] : i \in 1 .. step'} \X (1 .. JobChecks))
    BY DEF Promise!ControllerItems, Merged
  <1>2. \A A : Covers(report, A) => Covers(report, A)'
    BY CoversStill
  <1> QED
    BY <1>1, <1>2 DEF ReportWritten, Busy, Merged

LEMMA FaithfulAtFirst == Init => Faithful
  <1> SUFFICES ASSUME Init PROVE Faithful
    OBVIOUS
  <1>1. Len(jobs) = 0 /\ \A i \in 1 .. Len(jobs) : FALSE
    BY DEF Init
  <1>2. SlotsWritten
    BY <1>1 DEF Init, SlotsWritten
  <1>3. ReportWritten
    BY DEF Init, ReportWritten, Busy
  <1>4. Accounted
    BY DEF Init, Accounted
  <1>5. Found
    BY DEF Init, Found, Busy
  <1> QED
    BY <1>2, <1>3, <1>4, <1>5 DEF Faithful

LEMMA EncodeSharedWrites ==
  ASSUME IInv, Faithful, EncodeShared PROVE Faithful'
  <1>1. /\ main = "encode" /\ main' = "controller" /\ step' = 0
        /\ UNCHANGED <<ctx, input, report, results, pc, own, wg, firstErr, returned>>
    BY DEF EncodeShared, Move
  <1>2. jobs' \in InOrder /\ jobs' \in Seq(1 .. N) /\ Len(jobs') <= N /\ Len(jobs') \in Nat
    BY InOrderType DEF EncodeShared
  <1>3. SlotsWritten'
    <2>1. \A i \in 1 .. N : results'[i] = Blank
      BY <1>1 DEF Faithful, SlotsWritten
    <2>2. ASSUME NEW i \in 1 .. Len(jobs')
          PROVE  Judged(i)' <= JobChecks /\ Covers(results[i], ItemsOf(i, Judged(i)))'
      <3>1. results'[i] = Blank
        BY <1>2, <2>1, EvaluateAssumption
      <3>2. Judged(i)' = 0
        BY <3>1 DEF Judged, Blank
      <3>3. ItemsOf(i, Judged(i))' = {}
        BY <3>2 DEF ItemsOf
      <3>4. Covers(Blank, {})'
        BY <1>1, CoversNothing, CoversStill
      <3>5. Covers(results[i], ItemsOf(i, Judged(i)))'
        BY <3>1, <3>3, <3>4
      <3>6. Judged(i)' <= JobChecks
        BY <3>2, EvaluateAssumption
      <3> QED
        BY <3>5, <3>6
    <2> QED
      BY <2>1, <2>2 DEF SlotsWritten
  <1>4. ReportWritten'
    <2>1. report' = Blank /\ {0} \X (1 .. step') = {}
      BY <1>1 DEF Faithful, ReportWritten
    <2>2. Covers(Blank, {})'
      BY <1>1, CoversNothing, CoversStill
    <2> QED
      BY <1>1, <2>1, <2>2, EvaluateAssumption DEF ReportWritten, Busy
  <1>5. Accounted'
    BY <1>1 DEF IInv, Lifecycle, Accounted
  <1>6. Found'
    <2>1. InOrder' = InOrder
      BY <1>1 DEF InOrder, Kept
    <2>2. 0 \notin input'.opaque
      BY <1>1 DEF EncodeShared
    <2>3. firstErr' = 0 /\ returned' = "pending"
      BY <1>1 DEF Faithful, Found
    <2> QED
      BY <1>1, <1>2, <2>1, <2>2, <2>3 DEF Found, Busy
  <1> QED
    BY <1>3, <1>4, <1>5, <1>6 DEF Faithful

LEMMA JudgeControllerWrites ==
  ASSUME IInv, Faithful, JudgeController PROVE Faithful'
  <1>1. /\ main = "controller" /\ main' = main /\ step' = step + 1 /\ step < ControllerChecks
        /\ step \in Nat
        /\ UNCHANGED <<ctx, input, jobs, results, pc, own, wg, firstErr, returned>>
    BY DEF JudgeController, IInv, TypeOK
  <1>2. SlotsWritten'
    BY <1>1, SlotsStay DEF Faithful
  <1>3. ReportWritten'
    <2> DEFINE x == <<0, step + 1>>
               A == {0} \X (1 .. step)
    <2>1. x \in Item /\ report \in Slot
      BY <1>1, EvaluateAssumption DEF Item, IInv, TypeOK
    <2>2. PICK o \in EvaluateOne(x) : report' = With(report, x, o)
      BY DEF JudgeController
    <2>3. Covers(report, A)
      BY <1>1 DEF Faithful, ReportWritten
    <2>4. \A y \in A : Promise!Before(y, x)
      BY <1>1 DEF Promise!Before
    <2>5. A \cup {x} = {0} \X (1 .. step')
      <3>1. 1 .. step + 1 = (1 .. step) \cup {step + 1}
        BY <1>1
      <3> QED
        BY <1>1, <3>1
    <2> HIDE DEF x, A
    <2>6. Covers(report', A \cup {x})
      BY <2>1, <2>2, <2>3, <2>4, CoversOneMore
    <2>7. Covers(report, {0} \X (1 .. step))'
      BY <1>1, <2>5, <2>6, CoversStill
    <2> QED
      BY <1>1, <2>7, EvaluateAssumption DEF ReportWritten, Busy
  <1>4. Accounted'
    BY <1>1 DEF IInv, Lifecycle, Accounted
  <1>5. Found'
    BY <1>1 DEF Faithful, Found, Busy, Encodable, InOrder, Kept
  <1> QED
    BY <1>2, <1>3, <1>4, <1>5 DEF Faithful

LEMMA StartJobsWrites ==
  ASSUME IInv, Faithful, StartJobs PROVE Faithful'
  <1>1. /\ main = "controller" /\ step = ControllerChecks /\ step' = 0
        /\ main' = IF JobChecks = 0 \/ jobs = <<>> THEN "merge" ELSE "spawn"
        /\ UNCHANGED <<ctx, input, jobs, report, results, pc, own, wg, firstErr, returned>>
    BY DEF StartJobs, Move
  <1>2. SlotsWritten'
    BY <1>1, SlotsStay DEF Faithful
  <1>3. ReportWritten'
    <2>1. Covers(report, Promise!ControllerItems)
      BY <1>1 DEF Faithful, ReportWritten, Promise!ControllerItems
    <2>2. Merged(step)' = Promise!ControllerItems
      BY <1>1 DEF Merged, Promise!ControllerItems
    <2>3. Covers(report, Promise!ControllerItems)'
      BY <1>1, <2>1, CoversStill DEF Promise!ControllerItems
    <2>4. 0 <= Len(jobs)
      BY DEF IInv, TypeOK
    <2> QED
      BY <1>1, <2>2, <2>3, <2>4 DEF ReportWritten, Busy, Promise!ControllerItems
  <1>4. Accounted'
    <2>1. jobs = <<>> => \A i \in 1 .. Len(jobs) : FALSE
      OBVIOUS
    <2> QED
      BY <1>1, <2>1 DEF IInv, Lifecycle, Accounted
  <1>5. Found'
    <2>1. main' \in Busy => JobChecks > 0
      BY <1>1, EvaluateAssumption DEF Busy
    <2> QED
      BY <1>1, <2>1 DEF Faithful, Found, InOrder, Kept
  <1> QED
    BY <1>2, <1>3, <1>4, <1>5 DEF Faithful

(* The caller's steps with workers about.                                  *)
LEMMA CallerWrites ==
  ASSUME IInv, Faithful, Spawn \/ StartFeeding \/ Close \/ JobsFail \/ Return \/ EncodeSharedFails
  PROVE  Faithful'
  <1>1. /\ UNCHANGED <<ctx, input, report, results, own, firstErr>>
        /\ UNCHANGED jobs
    BY DEF Spawn, StartFeeding, Close, JobsFail, Return, EncodeSharedFails
  <1>2. /\ Spawn => main = "spawn" /\ main' = "spawn"
        /\ StartFeeding => main = "spawn" /\ main' = "feed" /\ step' = 0
        /\ Close => main = "feed" /\ main' = "wait" /\ step = Len(jobs)
        /\ JobsFail => main = "wait" /\ main' = "returned"
        /\ Return => main = "merge" /\ main' = "returned"
        /\ EncodeSharedFails => main = "encode" /\ main' = "returned"
    BY DEF Spawn, StartFeeding, Close, JobsFail, Return, EncodeSharedFails, Move
  <1>3. SlotsWritten'
    BY <1>1, <1>2, SlotsStay DEF Faithful
  <1>4. ReportWritten'
    BY <1>1, <1>2, ReportStays DEF Faithful, Busy
  <1>5. Accounted'
    <2>1. \A w \in Worker : pc'[w] = "judge" => pc[w] = "judge"
      BY DEF Spawn, StartFeeding, Close, JobsFail, Return, EncodeSharedFails, IInv, TypeOK
    <2>2. \A i : Encodable(i)' = Encodable(i) /\ Judged(i)' = Judged(i)
      BY <1>1 DEF Encodable, Judged
    <2>3. \A w \in Worker : pc'[w] = "judge" => Encodable(own[w])'
      BY <1>1, <2>1, <2>2 DEF Faithful, Accounted, Encodable
    <2>4. CASE StartFeeding
      BY <1>2, <2>3, <2>4 DEF Accounted, Sent
    <2>5. CASE Close
      BY <1>1, <1>2, <2>2, <2>3, <2>5 DEF Faithful, Accounted, Sent
    <2>6. CASE ~StartFeeding /\ ~Close
      BY <1>2, <2>3, <2>6 DEF Accounted
    <2> QED
      BY <2>4, <2>5, <2>6
  <1>6. Found'
    <2>1. main' # "returned" => returned' = returned
      BY <1>2 DEF Spawn, StartFeeding, Close, EncodeSharedFails
    <2>2. InOrder' = InOrder
      BY <1>1 DEF InOrder, Kept
    <2> QED
      BY <1>1, <1>2, <2>1, <2>2 DEF Faithful, Found, Busy, Encodable
  <1> QED
    BY <1>3, <1>4, <1>5, <1>6 DEF Faithful

LEMMA JobsDoneWrites ==
  ASSUME IInv, Faithful, JobsDone PROVE Faithful'
  <1>1. /\ main = "wait" /\ main' = "merge" /\ step' = 0 /\ wg = 0 /\ firstErr = 0
        /\ UNCHANGED <<ctx, input, report, results, pc, own, wg, firstErr, returned>>
        /\ UNCHANGED jobs
    BY DEF JobsDone, Move
  <1>2. SlotsWritten'
    BY <1>1, SlotsStay DEF Faithful
  <1>3. ReportWritten'
    <2>1. Covers(report, Promise!ControllerItems)
      BY <1>1 DEF Faithful, ReportWritten, Busy
    <2>2. Merged(step)' = Promise!ControllerItems
      BY <1>1 DEF Merged, Promise!ControllerItems
    <2>3. Covers(report, Promise!ControllerItems)'
      BY <1>1, <2>1, CoversStill DEF Promise!ControllerItems
    <2>4. 0 <= Len(jobs)
      BY DEF IInv, TypeOK
    <2> QED
      BY <1>1, <2>2, <2>3, <2>4 DEF ReportWritten, Busy, Promise!ControllerItems
  <1>4. Accounted'
    <2>1. Living = {}
      <3>1. IsFiniteSet(Living)
        BY WorkersFinite DEF Living
      <3> QED
        BY <1>1, <3>1, FS_EmptySet DEF IInv, Counted
    <2>2. \A w \in Worker : own[w] = 0 /\ pc[w] # "judge"
      BY <2>1 DEF Living, IInv, Ownership
    <2>3. \A i \in 1 .. Len(jobs) : Encodable(i) /\ Judged(i) = JobChecks
      <3> TAKE i \in 1 .. Len(jobs)
      <3>1. i # 0
        BY DEF IInv, TypeOK
      <3> QED
        BY <1>1, <2>2, <3>1 DEF Faithful, Accounted, Sent
    <2>4. \A i : Encodable(i)' = Encodable(i) /\ Judged(i)' = Judged(i)
      BY <1>1 DEF Encodable, Judged
    <2> QED
      BY <1>1, <2>2, <2>3, <2>4 DEF Accounted
  <1>5. Found'
    BY <1>1 DEF Faithful, Found, Busy, InOrder, Kept
  <1> QED
    BY <1>2, <1>3, <1>4, <1>5 DEF Faithful

LEMMA MergeJobWrites ==
  ASSUME IInv, Faithful, MergeJob PROVE Faithful'
  <1> DEFINE i == step + 1
  <1>1. /\ main = "merge" /\ main' = main /\ step' = i /\ report' = Joined(report, results[i])
        /\ UNCHANGED <<ctx, input, results, pc, own, wg, firstErr, returned>>
        /\ UNCHANGED jobs
    BY DEF MergeJob
  <1>2. step \in Nat /\ Len(jobs) \in Nat /\ i \in 1 .. Len(jobs) /\ i \in 1 .. N
    BY EvaluateAssumption DEF MergeJob, IInv, TypeOK
  <1>3. SlotsWritten'
    BY <1>1, SlotsStay DEF Faithful
  <1>4. ReportWritten'
    <2> DEFINE A == Merged(step)
               B == ItemsOf(i, JobChecks)
    <2>1. report \in Slot /\ results[i] \in Slot
      BY <1>2 DEF IInv, TypeOK
    <2>2. Covers(report, A)
      BY <1>1 DEF Faithful, ReportWritten
    <2>3. Covers(results[i], B)
      <3>1. Judged(i) <= JobChecks /\ Covers(results[i], ItemsOf(i, Judged(i)))
        BY <1>2 DEF Faithful, SlotsWritten
      <3>2. Judged(i) \in Nat
        BY <2>1 DEF Judged, Slot
      <3>3. JobChecks > 0 => Judged(i) = JobChecks
        BY <1>1, <1>2 DEF Faithful, Accounted
      <3>4. Judged(i) = JobChecks
        BY <3>1, <3>2, <3>3, EvaluateAssumption
      <3> QED
        BY <3>1, <3>4
    <2>4. jobs \in InOrder
      BY <1>1 DEF Faithful, Found
    <2>5. /\ \A a \in 1 .. Len(jobs) : jobs[a] \in Nat /\ jobs[a] > 0
          /\ \A a, b \in 1 .. Len(jobs) : a < b => jobs[a] < jobs[b]
      <3>1. \A a \in 1 .. Len(jobs) : jobs[a] \in 1 .. N
        <4>1. jobs \in Seq(1 .. N)
          BY DEF IInv, TypeOK
        <4> QED
          BY <4>1, EntryOf
      <3> QED
        BY <2>4, <3>1, ListIsWhole, EvaluateAssumption
    <2>6. \A x \in A, y \in B : Promise!Before(x, y)
      <3> TAKE x \in A, y \in B
      <3>1. y[1] = jobs[i]
        BY DEF ItemsOf
      <3>2. CASE x \in Promise!ControllerItems
        <4>1. x[1] = 0
          BY <3>2 DEF Promise!ControllerItems
        <4> QED
          BY <1>2, <2>5, <3>1, <4>1 DEF Promise!Before
      <3>3. CASE x \notin Promise!ControllerItems
        <4>1. PICK a \in 1 .. step : x[1] = jobs[a]
          BY <3>3 DEF Merged
        <4>2. a \in 1 .. Len(jobs) /\ a < i
          BY <1>2
        <4>3. jobs[a] < jobs[i]
          BY <1>2, <2>5, <4>2
        <4> QED
          BY <3>1, <4>1, <4>3 DEF Promise!Before
      <3> QED
        BY <3>2, <3>3
    <2>7. A \cup B = Merged(step)'
      <3>1. 1 .. i = (1 .. step) \cup {i}
        BY <1>2
      <3>2. {jobs[k] : k \in 1 .. i} = {jobs[k] : k \in 1 .. step} \cup {jobs[i]}
        BY <3>1
      <3> HIDE DEF i
      <3>3. Merged(step)' = Promise!ControllerItems \cup ({jobs[k] : k \in 1 .. i} \X (1 .. JobChecks))
        BY <1>1 DEF Merged, Promise!ControllerItems
      <3> QED
        BY <3>2, <3>3 DEF Merged, ItemsOf
    <2>8. Covers(report', A \cup B)
      <3> HIDE DEF A, B, i
      <3> QED
        BY <1>1, <2>1, <2>2, <2>3, <2>6, CoversJoined
    <2>9. Covers(report, Merged(step))'
      BY <1>1, <2>7, <2>8, CoversStill
    <2>10. step' <= Len(jobs')
      BY <1>1, <1>2
    <2> QED
      BY <1>1, <2>9, <2>10 DEF ReportWritten, Busy
  <1>5. Accounted'
    <2>1. \A k : Encodable(k)' = Encodable(k) /\ Judged(k)' = Judged(k)
      BY <1>1 DEF Encodable, Judged
    <2>2. \A w \in Worker : pc[w] = "judge" => Encodable(own[w])
      BY DEF Faithful, Accounted
    <2>3. \A w \in Worker : pc'[w] = "judge" => Encodable(own[w])'
      BY <1>1, <2>2 DEF Encodable
    <2> QED
      BY <1>1, <2>1, <2>3 DEF Faithful, Accounted
  <1>6. Found'
    BY <1>1 DEF Faithful, Found, Busy, InOrder, Kept, Encodable
  <1> QED
    BY <1>3, <1>4, <1>5, <1>6 DEF Faithful

LEMMA FeedWrites ==
  ASSUME IInv, Faithful, NEW w \in Worker, Feed(w) PROVE Faithful'
  <1>1. /\ main = "feed" /\ main' = main /\ step' = step + 1 /\ step \in Nat
        /\ pc[w] = "receive" /\ pc' = [pc EXCEPT ![w] = "encode"]
        /\ own' = [own EXCEPT ![w] = step + 1]
        /\ UNCHANGED <<ctx, input, report, results, wg, firstErr, returned>>
        /\ UNCHANGED jobs
    BY DEF Feed, IInv, TypeOK
  <1>2. SlotsWritten'
    BY <1>1, SlotsStay DEF Faithful
  <1>3. ReportWritten'
    BY <1>1, ReportStays DEF Faithful, Busy
  <1>4. Accounted'
    <2>1. \A v \in Worker : v # w => own'[v] = own[v] /\ pc'[v] = pc[v]
      BY <1>1 DEF IInv, TypeOK
    <2>2. own'[w] = step + 1 /\ pc'[w] = "encode" /\ own[w] = 0
      BY <1>1 DEF IInv, TypeOK, Ownership
    <2>3. \A i : Encodable(i)' = Encodable(i) /\ Judged(i)' = Judged(i)
      BY <1>1 DEF Encodable, Judged
    <2>4. ASSUME NEW i \in 1 .. step + 1
          PROVE  \/ firstErr' # 0
                 \/ \E v \in Worker : own'[v] = i
                 \/ Encodable(i)' /\ Judged(i)' = JobChecks
      <3>1. CASE i = step + 1
        BY <2>2, <3>1
      <3>2. CASE i # step + 1
        <4>1. i \in 1 .. step /\ i # 0
          BY <1>1, <3>2
        <4>2. \/ firstErr # 0
              \/ \E v \in Worker : own[v] = i
              \/ Encodable(i) /\ Judged(i) = JobChecks
          BY <1>1, <4>1 DEF Faithful, Accounted, Sent
        <4> QED
          BY <1>1, <2>1, <2>2, <2>3, <4>1, <4>2
      <3> QED
        BY <3>1, <3>2
    <2>5. \A v \in Worker : pc'[v] = "judge" => Encodable(own[v])'
      BY <1>1, <2>1, <2>2 DEF Faithful, Accounted, Encodable
    <2>6. Sent' = step + 1
      BY <1>1 DEF Sent
    <2> QED
      BY <1>1, <2>4, <2>5, <2>6 DEF Accounted
  <1>5. Found'
    BY <1>1 DEF Faithful, Found, Busy, InOrder, Kept, Encodable
  <1> QED
    BY <1>2, <1>3, <1>4, <1>5 DEF Faithful

(* A worker that goes on with its job, or comes back from it.              *)
LEMMA WorkerWrites ==
  ASSUME IInv, Faithful, NEW w \in Worker,
         Encode(w) \/ EncodeFails(w) \/ JobJudged(w) \/ Leave(w)
  PROVE  Faithful'
  <1>1. /\ UNCHANGED <<ctx, input, main, step, report, results, returned>>
        /\ UNCHANGED jobs
    BY DEF Encode, EncodeFails, JobJudged, Leave
  <1>2. SlotsWritten'
    BY <1>1, SlotsStay DEF Faithful
  <1>3. ReportWritten'
    BY <1>1, ReportStays DEF Faithful
  <1>4. \A i : Encodable(i)' = Encodable(i) /\ Judged(i)' = Judged(i)
    BY <1>1 DEF Encodable, Judged
  <1>5. Sent' = Sent /\ InOrder' = InOrder
    BY <1>1 DEF Sent, InOrder, Kept
  <1>6. \A v \in Worker : v # w => own'[v] = own[v] /\ pc'[v] = pc[v]
    BY DEF Encode, EncodeFails, JobJudged, Leave, IInv, TypeOK
  <1>7. ~EncodeFails(w) => firstErr' = firstErr
    BY DEF Encode, JobJudged, Leave
  <1>8. Accounted'
    <2>1. pc'[w] = "judge" => Encodable(own[w])'
      <3>1. pc'[w] = "judge" => Encode(w)
        BY DEF EncodeFails, JobJudged, Leave, IInv, TypeOK
      <3>2. Encode(w) => own' = own /\ jobs[own[w]] \notin input.opaque
        BY DEF Encode
      <3> QED
        BY <1>1, <3>1, <3>2 DEF Encodable
    <2>2. \A v \in Worker : pc'[v] = "judge" => Encodable(own[v])'
      <3>1. \A v \in Worker : v # w /\ pc'[v] = "judge" => Encodable(own[v])'
        BY <1>1, <1>6 DEF Faithful, Accounted, Encodable
      <3> QED
        BY <2>1, <3>1
    <2>3. ASSUME main \in {"feed", "wait"}, NEW i \in 1 .. Sent
          PROVE  \/ firstErr' # 0
                 \/ \E v \in Worker : own'[v] = i
                 \/ Encodable(i) /\ Judged(i) = JobChecks
      <3>1. \/ firstErr # 0
            \/ \E v \in Worker : own[v] = i
            \/ Encodable(i) /\ Judged(i) = JobChecks
        BY <2>3 DEF Faithful, Accounted
      <3>2. i # 0
        OBVIOUS
      <3>3. CASE EncodeFails(w)
        <4>1. own[w] # 0
          BY <3>3 DEF EncodeFails, IInv, Ownership
        <4> QED
          BY <3>3, <4>1 DEF EncodeFails
      <3>4. CASE Encode(w) \/ Leave(w)
        <4>1. own' = own /\ firstErr' = firstErr
          BY <3>4 DEF Encode, Leave
        <4> QED
          BY <3>1, <4>1
      <3>5. CASE JobJudged(w) /\ own[w] = i
        <4>1. Encodable(own[w]) /\ Judged(own[w]) = JobChecks
          BY <3>5 DEF JobJudged, Judged, Faithful, Accounted
        <4> QED
          BY <3>5, <4>1
      <3>6. CASE JobJudged(w) /\ own[w] # i
        <4>1. firstErr' = firstErr
          BY <3>6 DEF JobJudged
        <4> QED
          BY <1>6, <3>1, <3>6, <4>1
      <3> QED
        BY <3>3, <3>4, <3>5, <3>6
    <2> QED
      BY <1>1, <1>4, <1>5, <2>2, <2>3 DEF Faithful, Accounted
  <1>9. Found'
    <2>1. CASE EncodeFails(w)
      <3>1. main \in {"feed", "wait"} /\ own[w] \in 1 .. Len(jobs)
        BY <2>1, Serving DEF EncodeFails
      <3>2. ~Encodable(own[w])
        BY <2>1 DEF EncodeFails, Encodable
      <3>3. firstErr' = IF firstErr = 0 THEN own[w] ELSE firstErr
        BY <2>1 DEF EncodeFails
      <3>4. own[w] <= Len(jobs)
        BY <3>1 DEF IInv, TypeOK
      <3>5. firstErr' <= Len(jobs) /\ ~Encodable(firstErr')
        BY <3>2, <3>3, <3>4 DEF Faithful, Found
      <3>6. ~Encodable(firstErr)'
        BY <1>1, <3>5 DEF Encodable
      <3> QED
        BY <1>1, <1>5, <3>1, <3>5, <3>6 DEF Faithful, Found
    <2>2. CASE ~EncodeFails(w)
      BY <1>1, <1>5, <1>7, <2>2 DEF Faithful, Found, Encodable
    <2> QED
      BY <2>1, <2>2
  <1> QED
    BY <1>2, <1>3, <1>8, <1>9 DEF Faithful

LEMMA JudgeWrites ==
  ASSUME IInv, Faithful, NEW w \in Worker, Judge(w) PROVE Faithful'
  <1> DEFINE i == own[w]
             slot == results[i]
             x == <<jobs[i], Len(slot.findings) + 1>>
  <1>1. /\ pc[w] = "judge" /\ Judged(i) < JobChecks
        /\ UNCHANGED <<ctx, input, main, step, report, pc, own, wg, firstErr, returned>>
        /\ UNCHANGED jobs
    BY DEF Judge, Judged
  <1>2. main \in {"feed", "wait"} /\ i \in 1 .. Len(jobs) /\ i \in 1 .. N
    BY <1>1, Serving
  <1>3. slot \in Slot /\ Judged(i) \in Nat /\ x \in Item /\ jobs[i] \in 1 .. N
    <2>1. slot \in Slot
      BY <1>2 DEF IInv, TypeOK
    <2>2. Judged(i) \in Nat
      BY <2>1 DEF Judged, Slot
    <2>3. jobs[i] \in 1 .. N
      <3>1. jobs \in Seq(1 .. N)
        BY DEF IInv, TypeOK
      <3> QED
        BY <1>2, <3>1, EntryOf
    <2> QED
      BY <2>1, <2>2, <2>3, EvaluateAssumption DEF Item, Judged
  <1>4. PICK o \in EvaluateOne(x) : results' = [results EXCEPT ![i] = With(slot, x, o)]
    BY DEF Judge
  <1>5. results'[i] = With(slot, x, o) /\ \A k \in 1 .. N : k # i => results'[k] = results[k]
    BY <1>2, <1>4 DEF IInv, TypeOK
  <1>6. Judged(i)' = Judged(i) + 1
    <2>1. slot.findings \in Seq(Item \X Outcomes) /\ o \in Outcomes
      BY <1>3 DEF Slot, Outcomes, EvaluateOne
    <2>2. <<x, o>> \in Item \X Outcomes
      BY <1>3, <2>1
    <2>3. Len(Append(slot.findings, <<x, o>>)) = Len(slot.findings) + 1
      BY <2>1, <2>2
    <2>4. With(slot, x, o).findings = Append(slot.findings, <<x, o>>)
      BY DEF With
    <2> QED
      BY <1>1, <1>5, <2>3, <2>4 DEF Judged
  <1>7. \A k \in 1 .. Len(jobs) : k \in 1 .. N
    BY EvaluateAssumption DEF IInv, TypeOK
  <1>8. SlotsWritten'
    <2>1. Covers(results[i], ItemsOf(i, Judged(i)))
      BY <1>2 DEF Faithful, SlotsWritten
    <2>2. \A y \in ItemsOf(i, Judged(i)) : Promise!Before(y, x)
      <3> TAKE y \in ItemsOf(i, Judged(i))
      <3>1. y[1] = jobs[i] /\ y[2] \in 1 .. Judged(i)
        BY DEF ItemsOf
      <3>2. x[1] = jobs[i] /\ x[2] = Judged(i) + 1
        BY DEF Judged
      <3>3. y[2] < x[2]
        BY <1>3, <3>1, <3>2
      <3> QED
        BY <3>1, <3>2, <3>3 DEF Promise!Before
    <2>3. ItemsOf(i, Judged(i)) \cup {x} = ItemsOf(i, Judged(i) + 1)
      <3>1. 1 .. Judged(i) + 1 = (1 .. Judged(i)) \cup {Judged(i) + 1}
        BY <1>3
      <3>2. x = <<jobs[i], Judged(i) + 1>>
        BY DEF Judged
      <3> HIDE DEF i, x
      <3> QED
        BY <3>1, <3>2 DEF ItemsOf
    <2>4. Covers(results'[i], ItemsOf(i, Judged(i) + 1))
      <3> HIDE DEF i, slot, x
      <3> QED
        BY <1>3, <1>5, <2>1, <2>2, <2>3, CoversOneMore DEF slot
    <2>5. ASSUME NEW k \in 1 .. Len(jobs)
          PROVE  Judged(k)' <= JobChecks /\ Covers(results[k], ItemsOf(k, Judged(k)))'
      <3>1. CASE k = i
        <4>1. ItemsOf(k, Judged(k))' = ItemsOf(i, Judged(i) + 1)
          BY <1>1, <1>6, <3>1 DEF ItemsOf
        <4>2. Covers(results[k], ItemsOf(k, Judged(k)))'
          BY <1>1, <2>4, <3>1, <4>1, CoversStill
        <4>3. Judged(k)' <= JobChecks
          BY <1>1, <1>3, <1>6, <3>1, EvaluateAssumption
        <4> QED
          BY <4>2, <4>3
      <3>2. CASE k # i
        <4>1. results'[k] = results[k]
          BY <1>5, <1>7, <3>2
        <4>2. Judged(k)' = Judged(k)
          BY <4>1 DEF Judged
        <4>3. ItemsOf(k, Judged(k))' = ItemsOf(k, Judged(k))
          BY <1>1, <4>2 DEF ItemsOf
        <4>4. Judged(k) <= JobChecks /\ Covers(results[k], ItemsOf(k, Judged(k)))
          BY DEF Faithful, SlotsWritten
        <4> QED
          BY <1>1, <4>1, <4>2, <4>3, <4>4, CoversStill
      <3> QED
        BY <3>1, <3>2
    <2> QED
      BY <1>1, <1>2, <2>5 DEF SlotsWritten
  <1>9. ReportWritten'
    BY <1>1, ReportStays DEF Faithful
  <1>10. Accounted'
    <2>1. \A k : Encodable(k)' = Encodable(k)
      BY <1>1 DEF Encodable
    <2>2. Sent' = Sent
      BY <1>1 DEF Sent
    <2>3. \A k \in 1 .. Sent : k \in 1 .. N
      BY <1>2, <1>7 DEF Sent, IInv, TypeOK, Lifecycle
    <2>4. \A k \in 1 .. N : k # i => Judged(k)' = Judged(k)
      BY <1>5 DEF Judged
    <2>5. ASSUME NEW k \in 1 .. Sent
          PROVE  \/ firstErr' # 0
                 \/ \E v \in Worker : own'[v] = k
                 \/ Encodable(k)' /\ Judged(k)' = JobChecks
      <3>1. CASE k = i
        BY <1>1, <3>1
      <3>2. CASE k # i
        <4>1. \/ firstErr # 0
              \/ \E v \in Worker : own[v] = k
              \/ Encodable(k) /\ Judged(k) = JobChecks
          BY <1>2 DEF Faithful, Accounted
        <4>2. Judged(k)' = Judged(k)
          BY <2>3, <2>4, <3>2
        <4> QED
          BY <1>1, <2>1, <4>1, <4>2
      <3> QED
        BY <3>1, <3>2
    <2>6. \A v \in Worker : pc'[v] = "judge" => Encodable(own[v])'
      BY <1>1 DEF Faithful, Accounted, Encodable
    <2> QED
      BY <1>1, <1>2, <2>2, <2>5, <2>6 DEF Accounted
  <1>11. Found'
    BY <1>1 DEF Faithful, Found, Busy, InOrder, Kept, Encodable
  <1> QED
    BY <1>8, <1>9, <1>10, <1>11 DEF Faithful

LEMMA FaithfulStays ==
  ASSUME IInv, Faithful, [Next]_vars PROVE Faithful'
  <1>1. CASE Expire \/ UNCHANGED vars
    <2>1. /\ UNCHANGED <<input, main, step, report, results, pc, own, wg, firstErr, returned>>
          /\ UNCHANGED jobs /\ (ctx' = ctx \/ ctx' = "dead")
      BY <1>1 DEF Expire, vars
    <2>2. SlotsWritten' /\ ReportWritten'
      BY <2>1, SlotsStay, ReportStays DEF Faithful
    <2>3. \A i : Encodable(i)' = Encodable(i) /\ Judged(i)' = Judged(i)
      BY <2>1 DEF Encodable, Judged
    <2>4. Sent' = Sent /\ InOrder' = InOrder
      BY <2>1 DEF Sent, InOrder, Kept
    <2>5. Accounted'
      <3>1. \A w \in Worker : pc'[w] = "judge" => Encodable(own[w])'
        BY <2>1 DEF Faithful, Accounted, Encodable
      <3> QED
        BY <2>1, <2>3, <2>4, <3>1 DEF Faithful, Accounted
    <2>6. Found'
      BY <2>1, <2>4 DEF Faithful, Found, Encodable
    <2> QED
      BY <2>2, <2>5, <2>6 DEF Faithful
  <1>2. CASE Alone
    BY <1>2, EncodeSharedWrites, JudgeControllerWrites, StartJobsWrites, CallerWrites,
       JobsDoneWrites, MergeJobWrites DEF Alone
  <1>3. CASE Sending
    BY <1>3, FeedWrites DEF Sending
  <1>4. ASSUME NEW w \in Worker, Working(w) PROVE Faithful'
    BY <1>4, WorkerWrites, JudgeWrites DEF Working
  <1> QED
    BY <1>1, <1>2, <1>3, <1>4 DEF Next

(* What every worker and the caller have written, in every reachable       *)
(* state: a slot holds its job's controls up to the one being judged, the  *)
(* report what was judged and merged, and an index that was sent is held   *)
(* or done with.                                                           *)
THEOREM FaithfulThroughout == Spec => []Faithful
  <1>1. IInv /\ Faithful /\ [Next]_vars => Faithful'
    BY FaithfulStays
  <1> QED
    BY <1>1, FaithfulAtFirst, Invariance, PTL DEF Spec

-----------------------------------------------------------------------------
(* What is returned is what was promised *)

LEMMA ReturnReports ==
  ASSUME IInv, Faithful, Return PROVE Promise!Report
  <1>1. /\ main = "merge" /\ step = Len(jobs) /\ returned' = "report"
        /\ final' = [findings |-> report.findings, errors |-> report.errors,
                     jobs |-> Len(jobs), skipped |-> N - Len(jobs)]
        /\ UNCHANGED <<ctx, input>>
    BY DEF Return, Move
  <1>2. returned = "pending" /\ 0 \notin input.opaque /\ jobs \in InOrder
    BY <1>1 DEF Faithful, Found
  <1> DEFINE E == Promise!Eligible
             items == Promise!Items(E)
             reading == Subjects(report.findings)
             cut == {x \in items : \E k \in DOMAIN reading :
                                      reading[k] = x /\ report.findings[k][2] = "cut"}
  <1>3. /\ {jobs[i] : i \in 1 .. Len(jobs)} = E
        /\ Len(jobs) = Cardinality(E)
        /\ \A i \in 1 .. Len(jobs) : jobs[i] \in E
    BY <1>2, ListIsWhole, KeptIsEligible
  <1>4. ~Promise!Unencodable
    <2>1. ASSUME JobChecks > 0, NEW j \in E PROVE j \notin input.opaque
      <3>1. PICK i \in 1 .. Len(jobs) : j = jobs[i]
        BY <1>3
      <3> QED
        BY <1>1, <2>1, <3>1 DEF Faithful, Accounted, Encodable
    <2> QED
      BY <1>2, <2>1 DEF Promise!Unencodable
  <1>5. Covers(report, items)
    <2>1. Merged(step) = items
      BY <1>1, <1>3 DEF Merged, Promise!Items
    <2> QED
      BY <1>1, <2>1 DEF Faithful, ReportWritten
  <1>6. report.findings \in Seq(Item \X Outcomes) /\ report.errors \in Seq(Item)
    BY DEF IInv, TypeOK, Slot, Outcomes
  <1> HIDE DEF E, items
  <1>7. reading \in Seq(Item) /\ Members(reading) = items /\ Rising(reading)
    BY <1>5, <1>6, SubjectsJoin DEF Covers
  <1>8. reading = Promise!Reading(items)
    BY <1>7, ReadingIs
  <1>9. /\ DOMAIN reading = DOMAIN report.findings
        /\ \A k \in DOMAIN reading : /\ reading[k] \in items /\ reading[k] \in Item
                                     /\ report.findings[k] = <<reading[k], report.findings[k][2]>>
    <2>1. /\ DOMAIN reading = DOMAIN report.findings
          /\ \A k \in DOMAIN reading : reading[k] = report.findings[k][1]
      BY DEF Subjects
    <2>2. ASSUME NEW k \in DOMAIN reading PROVE report.findings[k] \in Item \X Outcomes
      BY <1>6, <2>1
    <2>3. ASSUME NEW k \in DOMAIN reading PROVE reading[k] \in items
      BY <1>7 DEF Members
    <2> HIDE DEF reading
    <2> QED
      BY <2>1, <2>2, <2>3
  <1>10. ASSUME NEW a \in DOMAIN reading, NEW b \in DOMAIN reading, reading[a] = reading[b]
         PROVE  a = b
    <2>1. a \in Nat /\ b \in Nat
      BY <1>7
    <2>2. ~(a < b) /\ ~(b < a)
      BY <1>7, <1>9, <1>10, ItemsAreOrdered DEF Rising
    <2> QED
      BY <2>1, <2>2
  <1> HIDE DEF reading
  <1>11. ASSUME NEW k \in DOMAIN reading
         PROVE  Promise!Outcome(reading[k], cut) = report.findings[k][2]
    <2>1. report.findings[k][2] \in EvaluateOne(reading[k])
      BY <1>5, <1>9 DEF Covers, reading, Subjects
    <2>2. reading[k] \in cut <=> report.findings[k][2] = "cut"
      BY <1>9, <1>10
    <2> HIDE DEF cut
    <2> QED
      BY <2>1, <2>2 DEF EvaluateOne, Promise!Outcome
  <1>12. report.findings = [k \in DOMAIN reading |-> <<reading[k], Promise!Outcome(reading[k], cut)>>]
    <2>1. report.findings = [k \in DOMAIN report.findings |-> report.findings[k]]
      BY <1>6
    <2> HIDE DEF cut
    <2>2. \A k \in DOMAIN reading :
            report.findings[k] = <<reading[k], Promise!Outcome(reading[k], cut)>>
      BY <1>9, <1>11
    <2> QED
      BY <1>9, <2>1, <2>2
  <1>13. Members(report.errors) = {x \in items : Promise!Outcome(x, cut) # "judged"}
    <2>1. Members(report.errors) = Unjudged(report.findings)
      BY <1>5 DEF Covers
    <2>2. Unjudged(report.findings) =
            {reading[k] : k \in {i \in DOMAIN reading : report.findings[i][2] # "judged"}}
      BY <1>9 DEF Unjudged, reading, Subjects
    <2>3. \A x \in items : \E k \in DOMAIN reading : reading[k] = x
      BY <1>7 DEF Members
    <2> HIDE DEF cut
    <2> QED
      BY <1>9, <1>11, <2>1, <2>2, <2>3
  <1>14. report.errors = Promise!Reading({x \in items : Promise!Outcome(x, cut) # "judged"})
    <2>1. Rising(report.errors)
      BY <1>5 DEF Covers
    <2>2. report.errors = Promise!Reading(Members(report.errors))
      BY <1>6, <2>1, ReadingIs
    <2> HIDE DEF cut
    <2> QED
      BY <1>13, <2>2
  <1>15. cut \in IF ctx = "dead" THEN SUBSET items ELSE {{}}
    <2>1. ASSUME ctx # "dead", NEW k \in DOMAIN reading PROVE report.findings[k][2] # "cut"
      BY <1>5, <1>9, <2>1 DEF Covers, EvaluateOne
    <2> QED
      BY <2>1
  <1>16. final' = Promise!ReportOf(reading, cut)
    <2>1. Promise!Cardinality(E) = Len(jobs)
      BY <1>3, SameCardinality
    <2> HIDE DEF cut
    <2>2. Promise!ReportOf(reading, cut) =
            [findings |-> [k \in DOMAIN reading |-> <<reading[k], Promise!Outcome(reading[k], cut)>>],
             errors |-> Promise!Reading({x \in items : Promise!Outcome(x, cut) # "judged"}),
             jobs |-> Promise!Cardinality(E), skipped |-> N - Promise!Cardinality(E)]
      BY DEF Promise!ReportOf, items, E
    <2> QED
      BY <1>1, <1>12, <1>14, <2>1, <2>2
  <1> HIDE DEF cut
  <1> QED
    BY <1>1, <1>2, <1>4, <1>8, <1>15, <1>16 DEF Promise!Report, items, E

LEMMA FailuresAreMeant ==
  ASSUME IInv, Faithful, EncodeSharedFails \/ JobsFail PROVE Promise!Fail
  <1>1. returned = "pending" /\ returned' = "failure" /\ UNCHANGED <<ctx, input, final>>
    BY DEF EncodeSharedFails, JobsFail, Move, Faithful, Found
  <1>2. Promise!Unencodable
    <2>1. CASE EncodeSharedFails
      BY <2>1 DEF EncodeSharedFails, Promise!Unencodable
    <2>2. CASE JobsFail
      <3>1. main = "wait" /\ firstErr # 0
        BY <2>2 DEF JobsFail, Move
      <3>2. /\ firstErr \in 1 .. Len(jobs) /\ jobs[firstErr] \in input.opaque
            /\ JobChecks > 0 /\ jobs \in InOrder
        BY <3>1, EvaluateAssumption DEF Faithful, Found, Encodable, Busy, IInv, TypeOK
      <3>3. jobs[firstErr] \in Promise!Eligible
        BY <3>2, ListIsWhole, KeptIsEligible
      <3> QED
        BY <3>2, <3>3 DEF Promise!Unencodable
    <2> QED
      BY <2>1, <2>2
  <1> QED
    BY <1>1, <1>2 DEF Promise!Fail

(* Every step of the caller and the workers is a step of what Evaluate     *)
(* promises, or leaves what is promised alone.                             *)
LEMMA StepsAsPromised ==
  ASSUME IInv, Faithful, [Next]_vars PROVE [Promise!Next]_(Promise!vars)
  <1>1. CASE Return
    BY <1>1, ReturnReports DEF Promise!Next
  <1>2. CASE EncodeSharedFails \/ JobsFail
    BY <1>2, FailuresAreMeant DEF Promise!Next
  <1>3. CASE Expire
    <2>1. returned = "pending"
      BY <1>3 DEF Expire, Faithful, Found
    <2> QED
      BY <1>3, <2>1 DEF Expire, Promise!Expire, Promise!Next
  <1>4. CASE \/ EncodeShared \/ JudgeController \/ StartJobs \/ Spawn \/ StartFeeding \/ Close
             \/ JobsDone \/ MergeJob \/ Sending \/ (\E w \in Worker : Working(w)) \/ UNCHANGED vars
    BY <1>4 DEF EncodeShared, JudgeController, StartJobs, Spawn, StartFeeding, Close, JobsDone,
       MergeJob, Sending, Feed, Working, Encode, EncodeFails, Judge, JobJudged, Leave, vars,
       Promise!vars
  <1> QED
    BY <1>1, <1>2, <1>3, <1>4 DEF Next, Alone

(* For every number of jobs, controls and workers, and whenever the        *)
(* context dies, what Evaluate returns is what a single worker would have  *)
(* returned: the safety part of ImplementsEvaluation.                      *)
THEOREM SafelyImplementsEvaluation ==
  Spec => Promise!Init /\ [][Promise!Next]_(Promise!vars)
  <1>1. Init => Promise!Init
    BY DEF Init, Promise!Init
  <1>2. IInv /\ Faithful /\ [Next]_vars => [Promise!Next]_(Promise!vars)
    BY StepsAsPromised
  <1> QED
    BY <1>1, <1>2, Invariance, FaithfulThroughout, PTL DEF Spec

-----------------------------------------------------------------------------
(* What the policies conclude from what an account may read                *)

NotRead == {"refused", "malformed", "html"}

(* What a job's record is, by how the read of its config.xml ended.        *)
LEMMA FetchedJob ==
  ASSUME NEW doc, NEW node
  PROVE  /\ \A answer \in NotRead : FetchJob(doc, answer, node) = Listed(doc)
         /\ ~Known(doc) => FetchJob(doc, "config", node) = Untaught(doc)
         /\ Known(doc) => FetchJob(doc, "config", node) = ApplyConfig(doc, node)
  BY DEF FetchJob, NotRead

LEMMA WhatPlaceJobSays ==
  ASSUME NEW doc, NEW node
  PROVE  /\ doc.canRoam = "true" =>
              PlaceJob(doc, node) =
                IF ~node.numExecutors.known THEN Unread(FALSE)
                ELSE IF node.numExecutors.value = 0 THEN Measured(FALSE)
                ELSE IF ~node.mode.known THEN Unread(FALSE)
                ELSE Measured(node.mode.value # "EXCLUSIVE")
         /\ doc.canRoam = "false" /\ doc.assigned = "" => PlaceJob(doc, node) = Measured(TRUE)
         /\ doc.canRoam = "false" /\ doc.assigned = "expression" => PlaceJob(doc, node) = Unread(FALSE)
         /\ doc.canRoam = "false" /\ doc.assigned \notin {"", "expression"} =>
              PlaceJob(doc, node) =
                IF doc.assigned \in BuiltInNodeLabels(node) THEN Measured(TRUE)
                ELSE IF node.labels.known THEN Measured(FALSE) ELSE Unread(FALSE)
         /\ doc.canRoam \notin {"true", "false"} => PlaceJob(doc, node) = Unread(FALSE)
  BY DEF PlaceJob, IsLabelExpression

(* A disabled job is NA or MANUAL; another is judged by the three policies *)
(* that read something of it.                                              *)
LEMMA WhatJobsAreJudged ==
  ASSUME NEW j
  PROVE  /\ JobVerdict("2.1.1", j) = NeedsAPerson(j)
         /\ JobVerdict("2.3.4", j) = NeedsAPerson(j)
         /\ JobVerdict("2.1.2", j) = SandboxedScripts(j)
         /\ JobVerdict("2.3.1", j) = InVersionControl(j)
         /\ JobVerdict("2.3.5", j) = StartsByPermission(j)
         /\ \A c \in JobControls : j.disabled => JobVerdict(c, j) = "NA"
         /\ \A c \in JobControls : ~j.disabled /\ ~j.config => JobVerdict(c, j) = "MANUAL"
  BY DEF JobVerdict, JobControls, NeedsAPerson, SandboxedScripts, InVersionControl, StartsByPermission

LEMMA WhatControllersAreJudged ==
  ASSUME NEW c
  PROVE  /\ ControllerVerdict("2.1.3", c) = Audited(c)
         /\ ControllerVerdict("2.1.5", c) = CSRFProtected(c)
         /\ ControllerVerdict("2.1.6", c) = LoginRequired(c)
         /\ ControllerVerdict("2.2.3", c) = NoExecutors(c)
         /\ ControllerVerdict("plugin-updates", c) = PluginsCurrent(c)
  BY DEF ControllerVerdict

(* Whatever placeJob read, nothing else in the record depends on it.       *)
LEMMA PlacementIsApart ==
  ASSUME NEW doc, NEW m, NEW n, NEW c \in JobControls
  PROVE  JobVerdict(c, FetchJob(doc, "config", m)) = JobVerdict(c, FetchJob(doc, "config", n))
  <1>1. CASE ~Known(doc)
    BY <1>1, FetchedJob
  <1>2. CASE Known(doc)
    <2> DEFINE a == ApplyConfig(doc, m)
               b == ApplyConfig(doc, n)
    <2>1. /\ a.disabled = b.disabled /\ a.config = b.config /\ a.definition = b.definition
          /\ a.scripts = b.scripts /\ a.unauthenticated = b.unauthenticated
          /\ a.unrecognized = b.unrecognized /\ a.triggersKnown = b.triggersKnown
      BY DEF ApplyConfig
    <2> HIDE DEF a, b
    <2>2. JobVerdict(c, a) = JobVerdict(c, b)
      <3>1. NeedsAPerson(a) = NeedsAPerson(b)
        BY <2>1 DEF NeedsAPerson
      <3>2. SandboxedScripts(a) = SandboxedScripts(b)
        BY <2>1 DEF SandboxedScripts
      <3>3. InVersionControl(a) = InVersionControl(b)
        BY <2>1 DEF InVersionControl
      <3>4. StartsByPermission(a) = StartsByPermission(b)
        BY <2>1 DEF StartsByPermission
      <3> QED
        BY <3>1, <3>2, <3>3, <3>4, WhatJobsAreJudged DEF JobControls
    <2> QED
      BY <1>2, <2>2, FetchedJob DEF a, b
  <1> QED
    BY <1>1, <1>2

(* The scan this account would make now.                                   *)
JobRead(answer) == FetchJob(world.job, answer, ReadController.node)

(* A scan records what this account is shown, step by step.                *)
InTurn ==
  /\ phase \in {"controller", "jobs", "judged"} => controller = ReadController
  /\ phase \in {"jobs", "judged"} => \E answer \in Answers : job = JobRead(answer)
  /\ phase = "judged" => verdicts = VerdictsOn(job, controller)

(* What was concluded, every scan this account can make concludes.         *)
Decided ==
  \A c \in JobControls \cup ControllerControls :
    verdicts[c] \notin {"none", "MANUAL"} =>
      \A answer \in Answers : VerdictsOn(JobRead(answer), ReadController)[c] = verdicts[c]

PlacedForGood ==
  job.onBuiltIn.known =>
    \A answer \in Answers : JobRead(answer).onBuiltIn = job.onBuiltIn

AccessInv ==
  /\ world \in Worlds
  /\ phase \in {"connected", "controller", "jobs", "judged"}
  /\ DOMAIN verdicts = JobControls \cup ControllerControls
  /\ InTurn
  /\ Decided
  /\ PlacedForGood

LEMMA AnswersAre ==
  /\ "config" \in granted => Answers = {"config"}
  /\ "config" \notin granted => Answers = NotRead
  BY DEF Answers, NotRead

LEMMA VerdictsAre ==
  ASSUME NEW j, NEW c
  PROVE  /\ DOMAIN VerdictsOn(j, c) = JobControls \cup ControllerControls
         /\ \A control \in JobControls : VerdictsOn(j, c)[control] = JobVerdict(control, j)
         /\ \A control \in ControllerControls : VerdictsOn(j, c)[control] = ControllerVerdict(control, c)
  <1>1. JobControls \cap ControllerControls = {}
    BY DEF JobControls, ControllerControls
  <1> QED
    BY <1>1 DEF VerdictsOn

(* The same account reads the same of a job, but for where it is placed:   *)
(* two reads that differ in how they failed record the same.               *)
LEMMA OneReading ==
  ASSUME NEW doc, NEW node, NEW a \in Answers, NEW b \in Answers
  PROVE  FetchJob(doc, a, node) = FetchJob(doc, b, node)
  BY AnswersAre, FetchedJob DEF NotRead

LEMMA AccessInitInv == AccessInit => AccessInv
  <1> SUFFICES ASSUME AccessInit PROVE AccessInv
    OBVIOUS
  <1>1. /\ DOMAIN verdicts = JobControls \cup ControllerControls
        /\ \A c \in JobControls \cup ControllerControls : verdicts[c] = "none"
    BY DEF AccessInit
  <1>2. ~job.onBuiltIn.known
    BY DEF AccessInit, Listed, Unread
  <1>3. InTurn
    BY DEF AccessInit, InTurn
  <1> QED
    BY <1>1, <1>2, <1>3 DEF AccessInit, AccessInv, Decided, PlacedForGood

-----------------------------------------------------------------------------
(* An account that is shown more *)

(* What it was shown, it is shown again.                                   *)
LEMMA ReadMore ==
  ASSUME UNCHANGED world, granted \subseteq granted'
  PROVE  /\ ReadController.available \subseteq ReadController'.available
         /\ ReadController.enabled.known => ReadController'.enabled = ReadController.enabled
         /\ ReadController.csrfProtection.known =>
              ReadController'.csrfProtection = ReadController.csrfProtection
         /\ ReadController.anonymousRead.known =>
              ReadController'.anonymousRead = ReadController.anonymousRead
         /\ "plugins" \in ReadController.available =>
              ReadController'.plugins = ReadController.plugins
         /\ ReadController.dataAge.known => ReadController'.dataAge = ReadController.dataAge
  BY DEF ReadController, FromRoot, Measured, Unread

LEMMA NodeReadMore ==
  ASSUME UNCHANGED world, granted \subseteq granted'
  PROVE  LET m == ReadController.node
             n == ReadController'.node
         IN  /\ m.numExecutors.known => n.numExecutors = m.numExecutors
             /\ m.mode.known => n.mode = m.mode
             /\ m.labels.known => n.labels = m.labels
             /\ ~m.labels.known => m.labels.value = {}
  <1>1. ReadController.node = BuiltInNode /\ ReadController'.node = BuiltInNode'
    BY DEF ReadController
  <1>2. /\ BuiltInNode.numExecutors.known => BuiltInNode'.numExecutors = BuiltInNode.numExecutors
        /\ BuiltInNode.mode.known => BuiltInNode'.mode = BuiltInNode.mode
        /\ BuiltInNode.labels.known => BuiltInNode'.labels = BuiltInNode.labels
        /\ ~BuiltInNode.labels.known => BuiltInNode.labels.value = {}
    BY DEF BuiltInNode, FromRoot, Measured, Unread
  <1> QED
    BY <1>1, <1>2

(* A policy that concluded on less concludes the same on more.             *)
LEMMA ControllerMonotone ==
  ASSUME UNCHANGED world, granted \subseteq granted', NEW c \in ControllerControls,
         ControllerVerdict(c, ReadController) # "MANUAL"
  PROVE  ControllerVerdict(c, ReadController') = ControllerVerdict(c, ReadController)
  <1> DEFINE a == ReadController
             b == ReadController'
  <1>1. /\ a.available \subseteq b.available
        /\ a.enabled.known => b.enabled = a.enabled
        /\ a.csrfProtection.known => b.csrfProtection = a.csrfProtection
        /\ a.anonymousRead.known => b.anonymousRead = a.anonymousRead
        /\ "plugins" \in a.available => b.plugins = a.plugins
        /\ a.dataAge.known => b.dataAge = a.dataAge
    BY ReadMore
  <1>2. a.node.numExecutors.known => b.node.numExecutors = a.node.numExecutors
    BY NodeReadMore
  <1>3. ControllerVerdict(c, a) # "MANUAL"
    OBVIOUS
  <1> SUFFICES ControllerVerdict(c, b) = ControllerVerdict(c, a)
    OBVIOUS
  <1> HIDE DEF a, b
  <1>4. Audited(a) # "MANUAL" => Audited(b) = Audited(a)
    BY <1>1 DEF Audited
  <1>5. CSRFProtected(a) # "MANUAL" => CSRFProtected(b) = CSRFProtected(a)
    BY <1>1 DEF CSRFProtected
  <1>6. LoginRequired(a) # "MANUAL" => LoginRequired(b) = LoginRequired(a)
    BY <1>1 DEF LoginRequired
  <1>7. NoExecutors(a) # "MANUAL" => NoExecutors(b) = NoExecutors(a)
    BY <1>2 DEF NoExecutors
  <1>8. PluginsCurrent(a) # "MANUAL" => PluginsCurrent(b) = PluginsCurrent(a)
    BY <1>1 DEF PluginsCurrent
  <1> QED
    BY <1>3, <1>4, <1>5, <1>6, <1>7, <1>8, WhatControllersAreJudged DEF ControllerControls

(* Before its document is read, a job is judged only if it is disabled, and*)
(* no document enables it.                                                 *)
LEMMA JobMonotone ==
  ASSUME UNCHANGED world, granted \subseteq granted', NEW c \in JobControls,
         NEW a \in Answers, JobVerdict(c, JobRead(a)) # "MANUAL", NEW b \in Answers'
  PROVE  JobVerdict(c, JobRead(b)') = JobVerdict(c, JobRead(a))
  <1> DEFINE doc == world.job
             m == ReadController.node
             n == ReadController'.node
  <1>1. JobRead(a) = FetchJob(doc, a, m) /\ JobRead(b)' = FetchJob(doc, b, n)
    BY DEF JobRead
  <1> HIDE DEF m, n, doc
  <1>2. CASE "config" \in granted
    <2>1. a = "config" /\ b = "config"
      BY <1>2 DEF Answers
    <2> QED
      BY <1>1, <2>1, PlacementIsApart
  <1>3. CASE "config" \notin granted
    <2>1. a \in NotRead /\ b \in {"config"} \cup NotRead
      BY <1>3 DEF Answers, NotRead
    <2>2. JobRead(a) = Listed(doc)
      BY <1>1, <2>1, FetchedJob
    <2>3. Listed(doc).disabled
      <3>1. ~Listed(doc).config
        BY DEF Listed
      <3> QED
        BY <2>2, <3>1, WhatJobsAreJudged
    <2>4. FetchJob(doc, b, n).disabled
      <3>1. Untaught(doc).disabled
        BY <2>3 DEF Untaught, Listed
      <3>2. ApplyConfig(doc, n).disabled
        BY <2>3 DEF ApplyConfig
      <3> QED
        BY <2>1, <2>3, <3>1, <3>2, FetchedJob
    <2> QED
      BY <1>1, <2>2, <2>3, <2>4, WhatJobsAreJudged
  <1> QED
    BY <1>2, <1>3

(* What placeJob knew from less it knows from more.                        *)
LEMMA PlacementMonotone ==
  ASSUME UNCHANGED world, granted \subseteq granted',
         PlaceJob(world.job, ReadController.node).known
  PROVE  PlaceJob(world.job, ReadController'.node) = PlaceJob(world.job, ReadController.node)
  <1> DEFINE doc == world.job
             m == ReadController.node
             n == ReadController'.node
  <1>1. /\ m.numExecutors.known => n.numExecutors = m.numExecutors
        /\ m.mode.known => n.mode = m.mode
        /\ m.labels.known => n.labels = m.labels
        /\ ~m.labels.known => m.labels.value = {}
    BY NodeReadMore
  <1>2. doc' = doc /\ PlaceJob(doc, m).known
    OBVIOUS
  <1> SUFFICES PlaceJob(doc, n) = PlaceJob(doc, m)
    OBVIOUS
  <1> HIDE DEF m, n, doc
  <1>3. ~Unread(FALSE).known
    BY DEF Unread
  <1>4. CASE doc.canRoam = "true"
    BY <1>1, <1>2, <1>3, <1>4, WhatPlaceJobSays
  <1>5. CASE doc.canRoam = "false" /\ doc.assigned \notin {"", "expression"}
    <2>1. doc.assigned \in BuiltInNodeLabels(m) => doc.assigned \in BuiltInNodeLabels(n)
      BY <1>1 DEF BuiltInNodeLabels
    <2>2. doc.assigned \notin BuiltInNodeLabels(m) => m.labels.known
      BY <1>2, <1>3, <1>5, WhatPlaceJobSays
    <2>3. doc.assigned \notin BuiltInNodeLabels(m) => doc.assigned \notin BuiltInNodeLabels(n)
      BY <2>2, <1>1 DEF BuiltInNodeLabels
    <2> QED
      BY <1>1, <1>5, <2>1, <2>2, <2>3, WhatPlaceJobSays
  <1>6. CASE doc.canRoam = "false" /\ doc.assigned = ""
    BY <1>6, WhatPlaceJobSays
  <1>7. CASE doc.canRoam = "false" /\ doc.assigned = "expression"
    BY <1>2, <1>3, <1>7, WhatPlaceJobSays
  <1>8. CASE doc.canRoam \notin {"true", "false"}
    BY <1>2, <1>3, <1>8, WhatPlaceJobSays
  <1> QED
    BY <1>4, <1>5, <1>6, <1>7, <1>8

LEMMA SameReading ==
  ASSUME UNCHANGED <<world, granted>>
  PROVE  /\ ReadController' = ReadController
         /\ Answers' = Answers
         /\ \A answer : JobRead(answer)' = JobRead(answer)
  <1>1. ReadController' = ReadController
    BY DEF ReadController, FromRoot, BuiltInNode
  <1> QED
    BY <1>1 DEF Answers, JobRead

LEMMA FetchControllerInv == AccessInv /\ FetchController => AccessInv'
  <1> SUFFICES ASSUME AccessInv, FetchController PROVE AccessInv'
    OBVIOUS
  <1> USE DEF AccessInv, FetchController
  <1>1. InTurn'
    BY SameReading DEF InTurn
  <1>2. Decided'
    BY SameReading DEF Decided
  <1>3. PlacedForGood'
    BY SameReading DEF PlacedForGood
  <1> QED
    BY <1>1, <1>2, <1>3

LEMMA ReadJobInv == AccessInv /\ ReadJob => AccessInv'
  <1> SUFFICES ASSUME AccessInv, ReadJob PROVE AccessInv'
    OBVIOUS
  <1> USE DEF AccessInv, ReadJob
  <1>1. PICK answer \in Answers : job' = FetchJob(world.job, answer, controller.node)
    OBVIOUS
  <1>2. controller = ReadController /\ job' = JobRead(answer)
    BY <1>1 DEF InTurn, JobRead
  <1>3. InTurn'
    BY <1>2, SameReading DEF InTurn
  <1>4. Decided'
    BY SameReading DEF Decided
  <1>5. \A other \in Answers : JobRead(other) = job'
    BY <1>2, OneReading DEF JobRead
  <1>6. PlacedForGood'
    BY <1>5, SameReading DEF PlacedForGood
  <1> QED
    BY <1>3, <1>4, <1>6

LEMMA ConcludeInv == AccessInv /\ Conclude => AccessInv'
  <1> SUFFICES ASSUME AccessInv, Conclude PROVE AccessInv'
    OBVIOUS
  <1> USE DEF AccessInv, Conclude
  <1>1. controller = ReadController /\ verdicts' = VerdictsOn(job, controller)
    BY DEF InTurn
  <1>2. PICK answer \in Answers : job = JobRead(answer)
    BY DEF InTurn
  <1>3. \A other \in Answers : JobRead(other) = job
    BY <1>2, OneReading DEF JobRead
  <1>4. InTurn'
    BY <1>1, <1>2, SameReading DEF InTurn
  <1>5. Decided'
    BY <1>1, <1>3, SameReading DEF Decided
  <1>6. PlacedForGood'
    BY SameReading DEF PlacedForGood
  <1>7. DOMAIN verdicts' = JobControls \cup ControllerControls
    BY <1>1, VerdictsAre
  <1> QED
    BY <1>4, <1>5, <1>6, <1>7

LEMMA GrantInv == AccessInv /\ Grant => AccessInv'
  <1> SUFFICES ASSUME AccessInv, Grant PROVE AccessInv'
    OBVIOUS
  <1> USE DEF AccessInv, Grant
  <1>1. UNCHANGED world /\ granted \subseteq granted'
    OBVIOUS
  <1>2. InTurn'
    BY DEF InTurn
  <1>3. PICK a : a \in Answers
    BY DEF Answers
  <1>4. Decided'
    <2> SUFFICES ASSUME NEW c \in JobControls \cup ControllerControls,
                        verdicts[c] \notin {"none", "MANUAL"}, NEW b \in Answers'
                 PROVE  VerdictsOn(JobRead(b)', ReadController')[c] = verdicts[c]
      BY DEF Decided
    <2>1. VerdictsOn(JobRead(a), ReadController)[c] = verdicts[c]
      BY <1>3 DEF Decided
    <2>2. CASE c \in JobControls
      BY <1>1, <1>3, <2>1, <2>2, VerdictsAre, JobMonotone
    <2>3. CASE c \in ControllerControls
      BY <1>1, <2>1, <2>3, VerdictsAre, ControllerMonotone
    <2> QED
      BY <2>2, <2>3
  <1>5. PlacedForGood'
    <2> SUFFICES ASSUME job.onBuiltIn.known, NEW b \in Answers'
                 PROVE  JobRead(b)'.onBuiltIn = job.onBuiltIn
      BY DEF PlacedForGood
    <2>1. JobRead(a).onBuiltIn = job.onBuiltIn
      BY <1>3 DEF PlacedForGood
    <2>2. /\ ~Listed(world.job).onBuiltIn.known
          /\ ~Untaught(world.job).onBuiltIn.known
      BY DEF Listed, Untaught, Unread
    <2>3. a \notin NotRead /\ Known(world.job)
      BY <1>3, <2>1, <2>2, AnswersAre, FetchedJob DEF JobRead
    <2>4. "config" \in granted
      BY <1>3, <2>3, AnswersAre
    <2>5. a = "config" /\ b = "config"
      BY <1>3, <2>4 DEF Answers
    <2>6. /\ JobRead(a) = ApplyConfig(world.job, ReadController.node)
          /\ JobRead(b)' = ApplyConfig(world.job, ReadController'.node)
      BY <1>1, <2>3, <2>5, FetchedJob DEF JobRead
    <2>7. JobDocuments[world.job.root].ui /\ PlaceJob(world.job, ReadController.node).known
      BY <2>1, <2>6 DEF ApplyConfig, Unread
    <2>8. PlaceJob(world.job, ReadController'.node) = PlaceJob(world.job, ReadController.node)
      BY <1>1, <2>7, PlacementMonotone
    <2> QED
      BY <2>1, <2>6, <2>7, <2>8 DEF ApplyConfig
  <1> QED
    BY <1>2, <1>4, <1>5

LEMMA AccessNextInv == AccessInv /\ [AccessNext]_accessVars => AccessInv'
  <1> SUFFICES ASSUME AccessInv, [AccessNext]_accessVars PROVE AccessInv'
    OBVIOUS
  <1>1. CASE FetchController
    BY <1>1, FetchControllerInv
  <1>2. CASE ReadJob
    BY <1>2, ReadJobInv
  <1>3. CASE Conclude
    BY <1>3, ConcludeInv
  <1>4. CASE Grant
    BY <1>4, GrantInv
  <1>5. CASE UNCHANGED accessVars
    BY <1>5, SameReading DEF accessVars, AccessInv, InTurn, Decided, PlacedForGood
  <1> QED
    BY <1>1, <1>2, <1>3, <1>4, <1>5 DEF AccessNext

(* Every reachable state of the scans by an account that is shown more and *)
(* more: what is in the controller, the job and the verdicts is what the   *)
(* parts granted say of the world.                                         *)
THEOREM AccessInvariance == AccessSpec => []AccessInv
  <1> QED
    BY AccessInitInv, AccessNextInv, PTL DEF AccessSpec

(* A conclusion is never taken back by an account that is shown more: what *)
(* fetchJob and fetchController leave unread makes a policy answer MANUAL, *)
(* never a verdict that the missing part would change.                     *)
THEOREM IgnoranceIsManual == AccessSpec => IgnoranceNeverDecides
  <1> DEFINE Upheld ==
        /\ \A c \in DOMAIN verdicts :
             verdicts[c] \notin {"none", "MANUAL"} => verdicts'[c] = verdicts[c]
        /\ job.onBuiltIn.known => job'.onBuiltIn = job.onBuiltIn
  <1>1. AccessInv /\ [AccessNext]_accessVars => Upheld
    <2> SUFFICES ASSUME AccessInv, [AccessNext]_accessVars PROVE Upheld
      OBVIOUS
    <2>1. CASE ReadJob
      <3>1. PICK answer \in Answers : job' = FetchJob(world.job, answer, controller.node)
        BY <2>1 DEF ReadJob
      <3>2. controller = ReadController
        BY <2>1 DEF ReadJob, AccessInv, InTurn
      <3> QED
        BY <2>1, <3>1, <3>2 DEF ReadJob, AccessInv, PlacedForGood, JobRead
    <2>2. CASE Conclude
      <3>1. controller = ReadController /\ \E answer \in Answers : job = JobRead(answer)
        BY <2>2 DEF Conclude, AccessInv, InTurn
      <3> QED
        BY <2>2, <3>1 DEF Conclude, AccessInv, Decided
    <2>3. CASE FetchController \/ Grant \/ UNCHANGED accessVars
      BY <2>3 DEF FetchController, Grant, accessVars
    <2> QED
      BY <2>1, <2>2, <2>3 DEF AccessNext
  <1>2. AccessInv /\ [AccessNext]_accessVars => [Upheld]_accessVars
    BY <1>1
  <1> QED
    BY <1>2, AccessInvariance, PTL DEF AccessSpec, IgnoranceNeverDecides, Upheld

-----------------------------------------------------------------------------
(* What was concluded is so                                                *)

LEMMA NodeIsSo ==
  LET n == ReadController.node
      c == world.controller
  IN  /\ n.numExecutors.known => n.numExecutors.value = c.numExecutors
      /\ n.mode.known => n.mode.value = c.mode
      /\ n.labels.known => n.labels.value = c.labels
  BY DEF ReadController, BuiltInNode, FromRoot, Measured, Unread

LEMMA WhereItBuildsFrom ==
  ASSUME NEW doc
  PROVE  LET source == DefinitionFrom(doc).source IN
         /\ doc.root = "project" => source = "ui"
         /\ doc.root # "project" /\ doc.built \in {"jenkinsfile", "branch"} => source = "scm"
         /\ doc.root # "project" /\ doc.built \in {"inline", "defaults"} =>
              source = "inline" /\ DefinitionFrom(doc).sandbox = WithSandbox(doc.flag)
         /\ doc.root # "project" /\ doc.built \notin {"jenkinsfile", "branch", "inline", "defaults"} =>
              source = "unknown"
  BY DEF DefinitionFrom, Definition

LEMMA WhatScriptsAreJudged ==
  ASSUME NEW j, ~j.disabled, j.config
  PROVE  LET v == SandboxedScripts(j)
             out == \E s \in j.scripts : s.flag = "false"
             by == j.definition
         IN  /\ out => v = "FAIL"
             /\ ~out /\ by.source = "inline" /\ ~by.sandbox.known => v = "MANUAL"
             /\ ~out /\ by.source = "inline" /\ by.sandbox.known =>
                  v = IF by.sandbox.value THEN "PASS" ELSE "FAIL"
             /\ ~out /\ by.source = "unknown" => v = "MANUAL"
             /\ ~out /\ by.source \notin {"inline", "unknown"} => v \in {"PASS", "NA"}
  BY DEF SandboxedScripts

LEMMA WhatDefinitionsAreJudged ==
  ASSUME NEW j, ~j.disabled, j.config
  PROVE  /\ InVersionControl(j) = "PASS" => j.definition.source = "scm"
         /\ InVersionControl(j) = "FAIL" => j.definition.source \in {"inline", "ui"}
  BY DEF InVersionControl

(* A job that can run is judged by its document or not at all.             *)
LEMMA JudgedByDocument ==
  ASSUME ~world.job.disabled, NEW answer \in Answers, NEW c \in {"2.1.2", "2.3.1", "2.3.5"},
         NEW j, j = JobRead(answer), JobVerdict(c, j) # "MANUAL"
  PROVE  Known(world.job) /\ j = ApplyConfig(world.job, ReadController.node)
  <1> DEFINE doc == world.job
  <1>1. c \in JobControls
    BY DEF JobControls
  <1>2. ~Listed(doc).disabled /\ ~Listed(doc).config
    BY DEF Listed
  <1>3. j # Listed(doc)
    BY <1>1, <1>2, WhatJobsAreJudged
  <1>4. answer = "config"
    BY <1>3, FetchedJob, AnswersAre DEF JobRead, Answers
  <1>5. JobVerdict(c, Untaught(doc)) = "MANUAL"
    <2> DEFINE u == Untaught(doc)
    <2>1. /\ ~u.disabled /\ u.config /\ u.scripts = {} /\ u.definition.source = "unknown"
          /\ u.unauthenticated = {} /\ ~u.triggersKnown
      BY DEF Untaught, Listed, Definition
    <2> HIDE DEF u
    <2>2. SandboxedScripts(u) = "MANUAL"
      BY <2>1, WhatScriptsAreJudged
    <2>3. InVersionControl(u) = "MANUAL"
      BY <2>1 DEF InVersionControl
    <2>4. StartsByPermission(u) = "MANUAL"
      BY <2>1 DEF StartsByPermission
    <2> QED
      BY <2>2, <2>3, <2>4, WhatJobsAreJudged DEF u
  <1> QED
    BY <1>4, <1>5, FetchedJob DEF JobRead

LEMMA PlacementIsSo ==
  ASSUME AccessInv, NEW answer \in Answers,
         JobRead(answer).onBuiltIn.known, ~JobRead(answer).onBuiltIn.value
  PROVE  ~CanRunOnController
  <1> DEFINE doc == world.job
             n == ReadController.node
             c == world.controller
  <1>1. PlaceJob(doc, n).known /\ ~PlaceJob(doc, n).value
    <2>1. ~Listed(doc).onBuiltIn.known /\ ~Untaught(doc).onBuiltIn.known
      BY DEF Listed, Untaught, Unread
    <2>2. JobRead(answer) = ApplyConfig(doc, n)
      BY <2>1, AnswersAre, FetchedJob DEF JobRead
    <2> QED
      BY <2>2 DEF ApplyConfig, Unread
  <1>2. /\ n.numExecutors.known => n.numExecutors.value = c.numExecutors
        /\ n.mode.known => n.mode.value = c.mode
        /\ n.labels.known => n.labels.value = c.labels
    BY NodeIsSo
  <1>3. ~Unread(FALSE).known /\ Measured(TRUE).value /\ Measured(TRUE).known
    BY DEF Unread, Measured
  <1> HIDE DEF n
  <1>4. CASE doc.canRoam = "true"
    <2>1. n.numExecutors.known
      BY <1>1, <1>3, <1>4, WhatPlaceJobSays
    <2>2. CASE n.numExecutors.value = 0
      BY <1>2, <1>4, <2>1, <2>2 DEF CanRunOnController
    <2>3. CASE n.numExecutors.value # 0
      <3>1. n.mode.known
        BY <1>1, <1>3, <1>4, <2>1, <2>3, WhatPlaceJobSays
      <3>2. PlaceJob(doc, n) = Measured(n.mode.value # "EXCLUSIVE")
        BY <1>4, <2>1, <2>3, <3>1, WhatPlaceJobSays
      <3>3. n.mode.value = "EXCLUSIVE"
        <4>1. \A v : Measured(v).value = v
          BY DEF Measured
        <4> QED
          BY <1>1, <3>2, <4>1
      <3> QED
        BY <1>2, <1>4, <3>1, <3>3 DEF CanRunOnController
    <2> QED
      BY <2>2, <2>3
  <1>5. CASE doc.canRoam = "false" /\ doc.assigned \notin {"", "expression"}
    <2>1. doc.assigned \notin BuiltInNodeLabels(n) /\ n.labels.known
      BY <1>1, <1>3, <1>5, WhatPlaceJobSays
    <2>2. doc.assigned \notin c.labels
      BY <1>2, <2>1 DEF BuiltInNodeLabels
    <2> QED
      BY <1>5, <2>2 DEF CanRunOnController
  <1>6. CASE doc.canRoam = "false" /\ doc.assigned \in {"", "expression"}
    BY <1>1, <1>3, <1>6, WhatPlaceJobSays
  <1>7. CASE doc.canRoam \notin {"true", "false"}
    BY <1>7 DEF CanRunOnController
  <1> QED
    BY <1>4, <1>5, <1>6, <1>7

LEMMA ScriptsAreSo ==
  ASSUME AccessInv, ~world.job.disabled, Known(world.job), NEW j,
         j = ApplyConfig(world.job, ReadController.node)
  PROVE  /\ Flagged /\ SandboxedScripts(j) \in {"PASS", "NA"} => ~MayEscape
         /\ SandboxedScripts(j) = "FAIL" => MayEscape
  <1> DEFINE doc == world.job
  <1>1. /\ ~j.disabled /\ j.config
        /\ j.scripts = FindScripts(doc) /\ j.definition = DefinitionFrom(doc)
    BY DEF ApplyConfig, Listed
  <1>2. /\ doc.root = "project" => doc.built = "form"
        /\ \A s \in doc.scripts : s.holder # "definition" /\ s.flag \in {"absent", "true", "false"}
    BY AccessAssumption DEF AccessInv
  <1>3. /\ WithSandbox(doc.flag).known <=> doc.flag # "absent"
        /\ doc.flag # "absent" => (WithSandbox(doc.flag).value <=> doc.flag = "true")
    BY DEF WithSandbox, Measured, Unread
  <1> HIDE DEF doc
  <1>5. (\E s \in j.scripts : s.flag = "false") => "false" \in Scripts
    BY <1>1 DEF FindScripts, Scripts, doc
  <1>6. ASSUME Flagged, NEW flag \in Scripts, flag # "true"
        PROVE  (\E s \in j.scripts : s.flag = "false") \/ (doc.built = "inline" /\ doc.flag = flag)
    <2>1. PICK e \in Elements(doc) : e.script /\ e.flag = flag
      BY <1>6 DEF Scripts, doc
    <2>2. CASE e \in doc.scripts
      <3>1. e.flag = "false" /\ e.holder # "definition"
        BY <1>2, <1>6, <2>1, <2>2 DEF Flagged, doc
      <3>2. e \in FindScripts(doc)
        BY <2>1, <3>1 DEF FindScripts
      <3> QED
        BY <1>1, <3>1, <3>2
    <2>3. CASE e \notin doc.scripts
      BY <2>1, <2>3 DEF Elements
    <2> QED
      BY <2>2, <2>3
  <1>7. j.definition.source = "inline" <=> doc.root # "project" /\ doc.built \in {"inline", "defaults"}
    BY <1>1, WhereItBuildsFrom
  <1>8. j.definition.source = "inline" => j.definition.sandbox = WithSandbox(doc.flag)
    BY <1>1, <1>7, WhereItBuildsFrom
  <1>9. doc.built = "foreign" => j.definition.source = "unknown"
    BY <1>1, <1>2, WhereItBuildsFrom
  <1>10. MayEscape <=> \/ \E flag \in Scripts : flag # "true"
                       \/ doc.built \in {"inline", "defaults", "foreign"} /\ doc.flag # "true"
    BY DEF MayEscape, doc
  <1>11. ASSUME Flagged, SandboxedScripts(j) \in {"PASS", "NA"} PROVE ~MayEscape
    <2>1. ~ \E s \in j.scripts : s.flag = "false"
      BY <1>1, <1>11, WhatScriptsAreJudged
    <2>2. j.definition.source # "unknown"
      BY <1>1, <1>11, <2>1, WhatScriptsAreJudged
    <2>3. j.definition.source = "inline" => doc.flag = "true"
      BY <1>1, <1>3, <1>8, <1>11, <2>1, WhatScriptsAreJudged
    <2>4. doc.built \in {"inline", "defaults"} => j.definition.source = "inline"
      BY <1>2, <1>7
    <2>5. ASSUME NEW flag \in Scripts, flag # "true" PROVE FALSE
      BY <1>6, <1>11, <2>1, <2>3, <2>4, <2>5
    <2> QED
      BY <1>9, <1>10, <2>2, <2>3, <2>4, <2>5
  <1>12. ASSUME SandboxedScripts(j) = "FAIL", ~ \E s \in j.scripts : s.flag = "false"
         PROVE  MayEscape
    <2>1. j.definition.source = "inline" /\ ~j.definition.sandbox.value /\ j.definition.sandbox.known
      BY <1>1, <1>12, WhatScriptsAreJudged
    <2> QED
      BY <1>3, <1>7, <1>8, <1>10, <2>1
  <1> QED
    BY <1>5, <1>10, <1>11, <1>12

LEMMA StartsAreSo ==
  ASSUME AccessInv, ~world.job.disabled, Known(world.job), NEW j,
         j = ApplyConfig(world.job, ReadController.node)
  PROVE  /\ StartsByPermission(j) = "PASS" => ~StartableByAnyone
         /\ StartsByPermission(j) = "FAIL" => StartableByAnyone
  <1> DEFINE doc == world.job
             classes == doc.triggers \cup doc.pipelineTriggers
  <1>1. /\ ~j.disabled /\ j.config
        /\ j.unauthenticated = (IF doc.token = "set" THEN {"authToken"} ELSE {})
                                 \cup (classes \cap {"GenericTrigger"})
        /\ j.unrecognized = classes \ {"GenericTrigger", "TimerTrigger"}
        /\ j.triggersKnown = JobDocuments[doc.root].project
    BY DEF ApplyConfig, Listed, AssessTriggers
  <1>2. j.triggersKnown => doc.elsewhere = {}
    BY <1>1, AccessAssumption DEF AccessInv, Known, JobDocuments
  <1>3. StartableByAnyone <=> \/ doc.token = "set"
                              \/ \E t \in classes \cup doc.elsewhere : t # "TimerTrigger"
    BY DEF StartableByAnyone
  <1> HIDE DEF doc, classes
  <1>4. /\ StartsByPermission(j) = "PASS" =>
             j.unauthenticated = {} /\ j.triggersKnown /\ j.unrecognized = {}
        /\ StartsByPermission(j) = "FAIL" => j.unauthenticated # {}
    BY <1>1 DEF StartsByPermission
  <1> QED
    BY <1>1, <1>2, <1>3, <1>4

(* What a scan concludes of a job that can run, by cis-2.1.2 where every   *)
(* script has a flag, by cis-2.3.1 and by cis-2.3.5, and that it does not  *)
(* run on the controller, holds of the job's document and of the           *)
(* controller, whatever part of them the account was shown: applyConfig,   *)
(* findScripts, placeJob and the policies that read what they record.      *)
THEOREM ConclusionsHold == AccessSpec => []ConclusionsAreSo
  <1>1. AccessInv => ConclusionsAreSo
    <2> SUFFICES ASSUME AccessInv, phase = "judged" PROVE ConclusionsAreSo
      BY DEF ConclusionsAreSo
    <2>1. PICK answer \in Answers : job = JobRead(answer)
      BY DEF AccessInv, InTurn
    <2>2. \A c \in JobControls : verdicts[c] = JobVerdict(c, job)
      BY VerdictsAre DEF AccessInv, InTurn
    <2>3. /\ verdicts["2.1.2"] = SandboxedScripts(job)
          /\ verdicts["2.3.1"] = InVersionControl(job)
          /\ verdicts["2.3.5"] = StartsByPermission(job)
      BY <2>2, WhatJobsAreJudged DEF JobControls
    <2>4. job.onBuiltIn.known /\ ~job.onBuiltIn.value => ~CanRunOnController
      BY <2>1, PlacementIsSo
    <2>5. ASSUME ~world.job.disabled
          PROVE  /\ Flagged /\ verdicts["2.1.2"] \in {"PASS", "NA"} => ~MayEscape
                 /\ verdicts["2.1.2"] = "FAIL" => MayEscape
      <3>1. CASE verdicts["2.1.2"] = "MANUAL"
        BY <3>1
      <3>2. CASE verdicts["2.1.2"] # "MANUAL"
        <4>1. Known(world.job) /\ job = ApplyConfig(world.job, ReadController.node)
          BY <2>1, <2>2, <2>5, <3>2, JudgedByDocument DEF JobControls
        <4> QED
          BY <2>3, <2>5, <4>1, ScriptsAreSo
      <3> QED
        BY <3>1, <3>2
    <2>6. ASSUME ~world.job.disabled
          PROVE  /\ verdicts["2.3.5"] = "PASS" => ~StartableByAnyone
                 /\ verdicts["2.3.5"] = "FAIL" => StartableByAnyone
      <3>1. CASE verdicts["2.3.5"] = "MANUAL"
        BY <3>1
      <3>2. CASE verdicts["2.3.5"] # "MANUAL"
        <4>1. Known(world.job) /\ job = ApplyConfig(world.job, ReadController.node)
          BY <2>1, <2>2, <2>6, <3>2, JudgedByDocument DEF JobControls
        <4> QED
          BY <2>3, <2>6, <4>1, StartsAreSo
      <3> QED
        BY <3>1, <3>2
    <2>7. ASSUME ~world.job.disabled
          PROVE  /\ verdicts["2.3.1"] = "PASS" => world.job.built \in {"jenkinsfile", "branch"}
                 /\ verdicts["2.3.1"] = "FAIL" => world.job.built \notin {"jenkinsfile", "branch"}
      <3>1. CASE verdicts["2.3.1"] = "MANUAL"
        BY <3>1
      <3>2. CASE verdicts["2.3.1"] # "MANUAL"
        <4>1. Known(world.job) /\ job = ApplyConfig(world.job, ReadController.node)
          BY <2>1, <2>2, <2>7, <3>2, JudgedByDocument DEF JobControls
        <4>2. ~job.disabled /\ job.config /\ job.definition = DefinitionFrom(world.job)
          BY <2>7, <4>1 DEF ApplyConfig, Listed
        <4>3. world.job.root = "project" => world.job.built = "form"
          BY AccessAssumption DEF AccessInv
        <4>5. /\ verdicts["2.3.1"] = "PASS" => job.definition.source = "scm"
              /\ verdicts["2.3.1"] = "FAIL" => job.definition.source \in {"inline", "ui"}
          BY <2>3, <4>2, WhatDefinitionsAreJudged
        <4> QED
          BY <4>2, <4>3, <4>5, WhereItBuildsFrom
      <3> QED
        BY <3>1, <3>2
    <2> QED
      BY <2>4, <2>5, <2>6, <2>7 DEF ConclusionsAreSo
  <1> QED
    BY <1>1, AccessInvariance, PTL

=============================================================================
