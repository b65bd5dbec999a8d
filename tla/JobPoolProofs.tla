--------------------------- MODULE JobPoolProofs ---------------------------
(***************************************************************************)
(* The pool of job reads, for every number of jobs and every concurrency:  *)
(* the safety properties of JobPool follow from one inductive invariant    *)
(* that ties the three counters to the goroutines they count, and each     *)
(* goroutine's place in the code to what it has written so far.            *)
(***************************************************************************)
EXTENDS JobPool, FiniteSetTheorems, TLAPS

(* The semaphore, the WaitGroup and the counter of jobs read count         *)
(* goroutines.                                                             *)
Counted == {i \in Job : count[i] # 0}

Counters ==
  /\ sem = Cardinality(Holders)
  /\ wg = Cardinality(Alive)
  /\ done = Cardinality(Counted)

(* The caller starts the goroutines in order and returns when none is left.*)
Lifecycle ==
  /\ \A i \in Job : pc[i] = "unborn" <=> i > spawned
  /\ main # "spawn" => spawned = N
  /\ main \in {"ok", "error"} => wg = 0
  /\ main = "ok" => firstErr = 0
  /\ main = "error" => firstErr # 0

(* What goroutine i has written by the time it is at pc[i].                *)
Before == {"unborn", "acquire", "fetch", "fail"}
Leaving == {"release", "exit", "ended"}

Progressed(i) ==
  /\ pc[i] \in Before => answer[i] = "none" /\ jobs[i] = "empty"
  /\ pc[i] = "store" => answer[i] \in Answers
  /\ pc[i] \in {"count", "report"} => answer[i] \in Answers /\ jobs[i] = answer[i]
  /\ pc[i] \in Leaving =>
       \/ answer[i] \in Answers /\ jobs[i] = answer[i] /\ count[i] # 0
       \/ answer[i] = "none" /\ firstErr # 0
  /\ pc[i] \in Before \cup {"store", "count"} => count[i] = 0
  /\ pc[i] = "report" => count[i] # 0
  /\ pc[i] = "fail" => ctx = "dead"

FirstError ==
  firstErr # 0 => ctx = "dead" /\ answer[firstErr] = "none" /\ pc[firstErr] \in Leaving

(* The counts handed out are 1 to done, each to one goroutine, and each is *)
(* reported once that goroutine has passed its report.                     *)
Counts ==
  /\ \A i, j \in Job : count[i] = count[j] /\ count[i] # 0 => i = j
  /\ \A i \in Job : count[i] <= done
  /\ \A k \in 1 .. done : \E i \in Job : count[i] = k
  /\ \A k \in Job :
       reported[k] = IF \E i \in Job : count[i] = k /\ pc[i] # "report" THEN 1 ELSE 0

IInv ==
  /\ TypeOK
  /\ Counters
  /\ Lifecycle
  /\ \A i \in Job : Progressed(i)
  /\ FirstError
  /\ Counts

-----------------------------------------------------------------------------
(* Counting goroutines *)

(* Every set of goroutines has a cardinality, at most N.                   *)
LEMMA JobsFinite ==
  ASSUME NEW S \in SUBSET Job
  PROVE  IsFiniteSet(S) /\ Cardinality(S) \in 0 .. N /\ (Cardinality(S) = N => S = Job)
  <1>1. IsFiniteSet(Job) /\ Cardinality(Job) = N
    BY FS_Interval, SizeAssumption DEF Job
  <1>2. IsFiniteSet(S) /\ Cardinality(S) <= N /\ (Cardinality(S) = N => S = Job)
    BY <1>1, FS_Subset
  <1>3. Cardinality(S) \in Nat
    BY <1>2, FS_CardinalityType
  <1> QED
    BY <1>2, <1>3, SizeAssumption

(* A goroutine that moves enters and leaves the sets of places it should.  *)
Within(H) == {j \in Job : pc[j] \in H}

LEMMA GoCounts ==
  ASSUME TypeOK, NEW H, NEW i \in Job, NEW from, NEW to, Go(i, from, to)
  PROVE  Cardinality(Within(H)') =
           Cardinality(Within(H)) + (IF to \in H THEN 1 ELSE 0) - (IF from \in H THEN 1 ELSE 0)
  <1>1. IsFiniteSet(Within(H)) /\ Cardinality(Within(H)) \in Nat
    BY JobsFinite, SizeAssumption DEF Within
  <1>2. pc[i] = from /\ pc' = [pc EXCEPT ![i] = to] /\ DOMAIN pc = Job
    BY DEF Go, TypeOK
  <1>3. i \in Within(H) <=> from \in H
    BY <1>2 DEF Within
  <1>4. CASE to \in H
    <2>1. Within(H)' = Within(H) \cup {i}
      BY <1>2, <1>4 DEF Within
    <2> QED
      BY <2>1, <1>1, <1>3, <1>4, FS_AddElement
  <1>5. CASE to \notin H
    <2>1. Within(H)' = Within(H) \ {i}
      BY <1>2, <1>5 DEF Within
    <2>2. Cardinality(Within(H) \ {i}) =
            IF i \in Within(H) THEN Cardinality(Within(H)) - 1 ELSE Cardinality(Within(H))
      BY <1>1, FS_RemoveElement
    <2> QED
      BY <2>1, <2>2, <1>1, <1>3, <1>5
  <1> QED
    BY <1>4, <1>5

(* The counters after a move.                                              *)
LEMMA Moved ==
  ASSUME TypeOK, Counters, NEW i \in Job, NEW from, NEW to, Go(i, from, to)
  PROVE  /\ Cardinality(Holders') \in Nat
         /\ Cardinality(Alive') \in Nat
         /\ Cardinality(Holders') =
              sem + (IF to \in Holding THEN 1 ELSE 0) - (IF from \in Holding THEN 1 ELSE 0)
         /\ Cardinality(Alive') =
              wg + (IF to \in Running THEN 1 ELSE 0) - (IF from \in Running THEN 1 ELSE 0)
  <1>1. Holders = Within(Holding) /\ Holders' = Within(Holding)'
    BY DEF Holders, Within
  <1>2. Alive = Within(Running) /\ Alive' = Within(Running)'
    BY DEF Alive, Within
  <1>3. Cardinality(Holders') \in Nat /\ Cardinality(Alive') \in Nat
    BY JobsFinite, SizeAssumption DEF Holders, Alive
  <1>4. Cardinality(Within(Holding)') =
          Cardinality(Within(Holding)) + (IF to \in Holding THEN 1 ELSE 0)
                                       - (IF from \in Holding THEN 1 ELSE 0)
    BY GoCounts
  <1>5. Cardinality(Within(Running)') =
          Cardinality(Within(Running)) + (IF to \in Running THEN 1 ELSE 0)
                                       - (IF from \in Running THEN 1 ELSE 0)
    BY GoCounts
  <1> QED
    BY <1>1, <1>2, <1>3, <1>4, <1>5 DEF Counters

-----------------------------------------------------------------------------
(* The invariant is inductive                                              *)

LEMMA InitInv == Init => IInv
  <1> SUFFICES ASSUME Init PROVE IInv
    OBVIOUS
  <1> USE SizeAssumption DEF Init, Job
  <1>1. TypeOK
    BY DEF TypeOK
  <1>2. Counters
    <2>1. Holders = {} /\ Alive = {} /\ Counted = {}
      BY DEF Holders, Alive, Counted, Holding, Running
    <2> QED
      BY <2>1, FS_EmptySet DEF Counters
  <1>3. Lifecycle
    BY DEF Lifecycle
  <1>4. (\A i \in Job : Progressed(i)) /\ FirstError
    BY DEF Progressed, FirstError, Before, Leaving
  <1>5. Counts
    BY DEF Counts
  <1> QED
    BY <1>1, <1>2, <1>3, <1>4, <1>5 DEF IInv

LEMMA StepInv == IInv /\ [Next]_vars => IInv'
  <1> SUFFICES ASSUME IInv, [Next]_vars PROVE IInv'
    OBVIOUS
  <1>t. TypeOK /\ Counters /\ Lifecycle /\ (\A i \in Job : Progressed(i)) /\ FirstError /\ Counts
    BY DEF IInv
  <1>h. Holding \subseteq Running
    BY DEF Holding, Running
  <1>1. ASSUME NEW i \in Job, Acquire(i) PROVE IInv'
    <2>m. /\ Cardinality(Holders') \in Nat
          /\ Cardinality(Alive') \in Nat
          /\ Cardinality(Holders') = sem + 1
          /\ Cardinality(Alive') = wg
      <3>1. Go(i, "acquire", "fetch")
        BY <1>1 DEF Acquire
      <3> QED
        BY <3>1, <1>t, Moved DEF Holding, Running, TypeOK
    <2>1. TypeOK'
      BY <1>1, <1>t, <2>m, SizeAssumption DEF Acquire, Go, TypeOK, Counters, Running, Holding, Answers, Job
    <2>2. Counters'
      BY <1>1, <1>t, <2>m DEF Acquire, Counters, Counted
    <2>3. Lifecycle'
      BY <1>1, <1>t, <2>m DEF Acquire, Go, Lifecycle, TypeOK
    <2>4. ASSUME NEW j \in Job PROVE Progressed(j)'
      BY <1>1, <1>t DEF Acquire, Go, Progressed, Before, Leaving, TypeOK
    <2>5. FirstError'
      BY <1>1, <1>t DEF Acquire, Go, FirstError, Progressed, Before, Leaving, TypeOK, Job
    <2>6. Counts'
      BY <1>1, <1>t DEF Acquire, Go, Counts, Progressed, Before, TypeOK
    <2> QED
      BY <2>1, <2>2, <2>3, <2>4, <2>5, <2>6 DEF IInv
  <1>2. ASSUME NEW i \in Job, FetchAnswered(i) PROVE IInv'
    <2>m. /\ Cardinality(Holders') \in Nat
          /\ Cardinality(Alive') \in Nat
          /\ Cardinality(Holders') = sem
          /\ Cardinality(Alive') = wg
      <3>1. Go(i, "fetch", "store")
        BY <1>2 DEF FetchAnswered
      <3> QED
        BY <3>1, <1>t, Moved DEF Holding, Running, TypeOK
    <2>1. TypeOK'
      BY <1>2, <1>t, <2>m, SizeAssumption DEF FetchAnswered, Go, TypeOK, Counters, Running, Holding, Answers, Job
    <2>2. Counters'
      BY <1>2, <1>t, <2>m DEF FetchAnswered, Counters, Counted
    <2>3. Lifecycle'
      BY <1>2, <1>t, <2>m DEF FetchAnswered, Go, Lifecycle, TypeOK
    <2>4. ASSUME NEW j \in Job PROVE Progressed(j)'
      BY <1>2, <1>t DEF FetchAnswered, Go, Progressed, Before, Leaving, TypeOK
    <2>5. FirstError'
      BY <1>2, <1>t DEF FetchAnswered, Go, FirstError, Progressed, Before, Leaving, TypeOK, Job
    <2>6. Counts'
      BY <1>2, <1>t DEF FetchAnswered, Go, Counts, Progressed, Before, TypeOK
    <2> QED
      BY <2>1, <2>2, <2>3, <2>4, <2>5, <2>6 DEF IInv
  <1>3. ASSUME NEW i \in Job, FetchCancelled(i) PROVE IInv'
    <2>m. /\ Cardinality(Holders') \in Nat
          /\ Cardinality(Alive') \in Nat
          /\ Cardinality(Holders') = sem
          /\ Cardinality(Alive') = wg
      <3>1. Go(i, "fetch", "fail")
        BY <1>3 DEF FetchCancelled
      <3> QED
        BY <3>1, <1>t, Moved DEF Holding, Running, TypeOK
    <2>1. TypeOK'
      BY <1>3, <1>t, <2>m, SizeAssumption DEF FetchCancelled, Go, TypeOK, Counters, Running, Holding, Answers, Job
    <2>2. Counters'
      BY <1>3, <1>t, <2>m DEF FetchCancelled, Counters, Counted
    <2>3. Lifecycle'
      BY <1>3, <1>t, <2>m DEF FetchCancelled, Go, Lifecycle, TypeOK
    <2>4. ASSUME NEW j \in Job PROVE Progressed(j)'
      BY <1>3, <1>t DEF FetchCancelled, Go, Progressed, Before, Leaving, TypeOK
    <2>5. FirstError'
      BY <1>3, <1>t DEF FetchCancelled, Go, FirstError, Progressed, Before, Leaving, TypeOK, Job
    <2>6. Counts'
      BY <1>3, <1>t DEF FetchCancelled, Go, Counts, Progressed, Before, TypeOK
    <2> QED
      BY <2>1, <2>2, <2>3, <2>4, <2>5, <2>6 DEF IInv
  <1>4. ASSUME NEW i \in Job, Fail(i) PROVE IInv'
    <2>m. /\ Cardinality(Holders') \in Nat
          /\ Cardinality(Alive') \in Nat
          /\ Cardinality(Holders') = sem
          /\ Cardinality(Alive') = wg
      <3>1. Go(i, "fail", "release")
        BY <1>4 DEF Fail
      <3> QED
        BY <3>1, <1>t, Moved DEF Holding, Running, TypeOK
    <2>1. TypeOK'
      BY <1>4, <1>t, <2>m, SizeAssumption DEF Fail, Go, TypeOK, Counters, Running, Holding, Answers, Job
    <2>2. Counters'
      BY <1>4, <1>t, <2>m DEF Fail, Counters, Counted
    <2>3. Lifecycle'
      <3>1. i \in Alive /\ IsFiniteSet(Alive)
        BY <1>4, JobsFinite DEF Fail, Go, Alive, Running, Holding
      <3>2. wg # 0
        BY <3>1, <1>t, FS_EmptySet DEF Counters
      <3> QED
        BY <1>4, <1>t, <3>2 DEF Fail, Go, Lifecycle, TypeOK
    <2>4. ASSUME NEW j \in Job PROVE Progressed(j)'
      BY <1>4, <1>t, SizeAssumption DEF Fail, Go, Progressed, Before, Leaving, TypeOK, Job
    <2>5. FirstError'
      BY <1>4, <1>t DEF Fail, Go, FirstError, Progressed, Before, Leaving, TypeOK, Job
    <2>6. Counts'
      BY <1>4, <1>t DEF Fail, Go, Counts, Progressed, Before, TypeOK
    <2> QED
      BY <2>1, <2>2, <2>3, <2>4, <2>5, <2>6 DEF IInv
  <1>5. ASSUME NEW i \in Job, Store(i) PROVE IInv'
    <2>m. /\ Cardinality(Holders') \in Nat
          /\ Cardinality(Alive') \in Nat
          /\ Cardinality(Holders') = sem
          /\ Cardinality(Alive') = wg
      <3>1. Go(i, "store", "count")
        BY <1>5 DEF Store
      <3> QED
        BY <3>1, <1>t, Moved DEF Holding, Running, TypeOK
    <2>1. TypeOK'
      <3>1. answer[i] \in Answers
        BY <1>5, <1>t DEF Store, Go, Progressed
      <3> QED
        BY <1>5, <1>t, <3>1 DEF Store, Go, TypeOK, Running, Holding
    <2>2. Counters'
      BY <1>5, <1>t, <2>m DEF Store, Counters, Counted
    <2>3. Lifecycle'
      BY <1>5, <1>t, <2>m DEF Store, Go, Lifecycle, TypeOK
    <2>4. ASSUME NEW j \in Job PROVE Progressed(j)'
      BY <1>5, <1>t DEF Store, Go, Progressed, Before, Leaving, TypeOK
    <2>5. FirstError'
      BY <1>5, <1>t DEF Store, Go, FirstError, Progressed, Before, Leaving, TypeOK, Job
    <2>6. Counts'
      BY <1>5, <1>t DEF Store, Go, Counts, Progressed, Before, TypeOK
    <2> QED
      BY <2>1, <2>2, <2>3, <2>4, <2>5, <2>6 DEF IInv
  <1>6. ASSUME NEW i \in Job, Count(i) PROVE IInv'
    <2>m. /\ Cardinality(Holders') \in Nat
          /\ Cardinality(Alive') \in Nat
          /\ Cardinality(Holders') = sem
          /\ Cardinality(Alive') = wg
      <3>1. Go(i, "count", "report")
        BY <1>6 DEF Count
      <3> QED
        BY <3>1, <1>t, Moved DEF Holding, Running, TypeOK
    <2>1. TypeOK'
      BY <1>6, <1>t, <2>m, SizeAssumption DEF Count, Go, TypeOK, Counters, Running, Holding, Answers, Job
    <2>2. Counters'
      <3>1. count[i] = 0 /\ i \notin Counted /\ Counted' = Counted \cup {i}
        BY <1>6, <1>t DEF Count, Go, Progressed, Counted, TypeOK
      <3>2. IsFiniteSet(Counted)
        BY JobsFinite DEF Counted
      <3>3. Cardinality(Counted') = Cardinality(Counted) + 1
        BY <3>1, <3>2, FS_AddElement
      <3> QED
        BY <1>6, <1>t, <2>m, <3>3 DEF Count, Counters
    <2>3. Lifecycle'
      BY <1>6, <1>t, <2>m DEF Count, Go, Lifecycle, TypeOK
    <2>4. ASSUME NEW j \in Job PROVE Progressed(j)'
      BY <1>6, <1>t DEF Count, Go, Progressed, Before, Leaving, TypeOK
    <2>5. FirstError'
      BY <1>6, <1>t DEF Count, Go, FirstError, Progressed, Before, Leaving, TypeOK, Job
    <2>6. Counts'
      <3>1. /\ done \in Nat /\ done' = done + 1
            /\ count \in [Job -> Nat] /\ count[i] = 0 /\ count' = [count EXCEPT ![i] = done + 1]
            /\ pc[i] = "count" /\ pc' = [pc EXCEPT ![i] = "report"] /\ DOMAIN pc = Job
            /\ reported' = reported
        BY <1>6, <1>t DEF Count, Go, Progressed, TypeOK
      <3>2. \A j \in Job : count[j] <= done
        BY <1>t DEF Counts
      <3>3. \A j, l \in Job : count'[j] = count'[l] /\ count'[j] # 0 => j = l
        BY <1>t, <3>1, <3>2 DEF Counts
      <3>4. \A j \in Job : count'[j] <= done'
        BY <3>1, <3>2
      <3>5. \A k \in 1 .. done' : \E j \in Job : count'[j] = k
        <4> SUFFICES ASSUME NEW k \in 1 .. done' PROVE \E j \in Job : count'[j] = k
          OBVIOUS
        <4>1. CASE k = done + 1
          BY <3>1, <4>1
        <4>2. CASE k \in 1 .. done
          <5>1. PICK j \in Job : count[j] = k
            BY <1>t, <4>2 DEF Counts
          <5> QED
            BY <3>1, <5>1
        <4> QED
          BY <3>1, <4>1, <4>2
      <3>6. ASSUME NEW k \in Job
            PROVE  reported'[k] =
                     IF \E j \in Job : count'[j] = k /\ pc'[j] # "report" THEN 1 ELSE 0
        <4>1. k # 0
          BY SizeAssumption DEF Job
        <4>2. ASSUME NEW j \in Job
              PROVE  (count'[j] = k /\ pc'[j] # "report") <=> (count[j] = k /\ pc[j] # "report")
          <5>1. CASE j = i
            BY <3>1, <4>1, <5>1
          <5>2. CASE j # i
            BY <3>1, <5>2
          <5> QED
            BY <5>1, <5>2
        <4>3. (\E j \in Job : count'[j] = k /\ pc'[j] # "report") <=>
                \E j \in Job : count[j] = k /\ pc[j] # "report"
          BY <4>2
        <4>4. reported[k] = IF \E j \in Job : count[j] = k /\ pc[j] # "report" THEN 1 ELSE 0
          BY <1>t DEF Counts
        <4> QED
          BY <3>1, <4>3, <4>4
      <3> QED
        BY <3>3, <3>4, <3>5, <3>6 DEF Counts
    <2> QED
      BY <2>1, <2>2, <2>3, <2>4, <2>5, <2>6 DEF IInv
  <1>7. ASSUME NEW i \in Job, Report(i) PROVE IInv'
    <2>m. /\ Cardinality(Holders') \in Nat
          /\ Cardinality(Alive') \in Nat
          /\ Cardinality(Holders') = sem
          /\ Cardinality(Alive') = wg
      <3>1. Go(i, "report", "release")
        BY <1>7 DEF Report
      <3> QED
        BY <3>1, <1>t, Moved DEF Holding, Running, TypeOK
    <2>1. TypeOK'
      <3>1. done \in 0 .. N
        BY <1>t, JobsFinite DEF Counters, Counted
      <3>2. count[i] \in 1 .. done
        BY <1>7, <1>t, <3>1 DEF Report, Go, Progressed, Counts, TypeOK
      <3>3. count[i] \in Job
        BY <3>1, <3>2, SizeAssumption DEF Job
      <3>4. reported[count[i]] + 1 \in Nat
        BY <1>t, <3>3 DEF TypeOK
      <3>5. reported' \in [Job -> Nat]
        BY <1>7, <1>t, <3>4 DEF Report, TypeOK
      <3> QED
        BY <1>7, <1>t, <3>5 DEF Report, Go, TypeOK, Running, Holding
    <2>2. Counters'
      BY <1>7, <1>t, <2>m DEF Report, Counters, Counted
    <2>3. Lifecycle'
      BY <1>7, <1>t, <2>m DEF Report, Go, Lifecycle, TypeOK
    <2>4. ASSUME NEW j \in Job PROVE Progressed(j)'
      BY <1>7, <1>t DEF Report, Go, Progressed, Before, Leaving, TypeOK
    <2>5. FirstError'
      BY <1>7, <1>t DEF Report, Go, FirstError, Progressed, Before, Leaving, TypeOK, Job
    <2>6. Counts'
      BY <1>7, <1>t DEF Report, Go, Counts, Progressed, Before, TypeOK
    <2> QED
      BY <2>1, <2>2, <2>3, <2>4, <2>5, <2>6 DEF IInv
  <1>8. ASSUME NEW i \in Job, Release(i) PROVE IInv'
    <2>m. /\ Cardinality(Holders') \in Nat
          /\ Cardinality(Alive') \in Nat
          /\ Cardinality(Holders') = sem - 1
          /\ Cardinality(Alive') = wg
      <3>1. Go(i, "release", "exit")
        BY <1>8 DEF Release
      <3> QED
        BY <3>1, <1>t, Moved DEF Holding, Running, TypeOK
    <2>1. TypeOK'
      BY <1>8, <1>t, <2>m, SizeAssumption DEF Release, Go, TypeOK, Counters, Running, Holding, Answers, Job
    <2>2. Counters'
      BY <1>8, <1>t, <2>m DEF Release, Counters, Counted
    <2>3. Lifecycle'
      BY <1>8, <1>t, <2>m DEF Release, Go, Lifecycle, TypeOK
    <2>4. ASSUME NEW j \in Job PROVE Progressed(j)'
      BY <1>8, <1>t DEF Release, Go, Progressed, Before, Leaving, TypeOK
    <2>5. FirstError'
      BY <1>8, <1>t DEF Release, Go, FirstError, Progressed, Before, Leaving, TypeOK, Job
    <2>6. Counts'
      BY <1>8, <1>t DEF Release, Go, Counts, Progressed, Before, TypeOK
    <2> QED
      BY <2>1, <2>2, <2>3, <2>4, <2>5, <2>6 DEF IInv
  <1>9. ASSUME NEW i \in Job, Exit(i) PROVE IInv'
    <2>m. /\ Cardinality(Holders') \in Nat
          /\ Cardinality(Alive') \in Nat
          /\ Cardinality(Holders') = sem
          /\ Cardinality(Alive') = wg - 1
      <3>1. Go(i, "exit", "ended")
        BY <1>9 DEF Exit
      <3> QED
        BY <3>1, <1>t, Moved DEF Holding, Running, TypeOK
    <2>1. TypeOK'
      BY <1>9, <1>t, <2>m, SizeAssumption DEF Exit, Go, TypeOK, Counters, Running, Holding, Answers, Job
    <2>2. Counters'
      BY <1>9, <1>t, <2>m DEF Exit, Counters, Counted
    <2>3. Lifecycle'
      BY <1>9, <1>t, <2>m DEF Exit, Go, Lifecycle, TypeOK
    <2>4. ASSUME NEW j \in Job PROVE Progressed(j)'
      BY <1>9, <1>t DEF Exit, Go, Progressed, Before, Leaving, TypeOK
    <2>5. FirstError'
      BY <1>9, <1>t DEF Exit, Go, FirstError, Progressed, Before, Leaving, TypeOK, Job
    <2>6. Counts'
      BY <1>9, <1>t DEF Exit, Go, Counts, Progressed, Before, TypeOK
    <2> QED
      BY <2>1, <2>2, <2>3, <2>4, <2>5, <2>6 DEF IInv
  <1>10. CASE Spawn
    <2>i. spawned + 1 \in Job /\ Go(spawned + 1, "unborn", "acquire")
      BY <1>10, <1>t, SizeAssumption DEF Spawn, TypeOK, Job
    <2>m. /\ Cardinality(Holders') \in Nat
          /\ Cardinality(Alive') \in Nat
          /\ Cardinality(Holders') = sem
          /\ Cardinality(Alive') = wg + 1
      BY <2>i, <1>t, Moved DEF Holding, Running, TypeOK
    <2>1. TypeOK'
      BY <1>10, <1>t, <2>i, <2>m, SizeAssumption DEF Spawn, Go, TypeOK, Running, Job
    <2>2. Counters'
      BY <1>10, <1>t, <2>m DEF Spawn, Counters, Counted
    <2>3. Lifecycle'
      BY <1>10, <1>t, <2>i, SizeAssumption DEF Spawn, Go, Lifecycle, TypeOK, Job
    <2>4. ASSUME NEW j \in Job PROVE Progressed(j)'
      BY <1>10, <1>t, <2>i DEF Spawn, Go, Progressed, Before, Leaving, TypeOK
    <2>5. FirstError'
      BY <1>10, <1>t, <2>i DEF Spawn, Go, FirstError, Leaving, TypeOK, Job
    <2>6. Counts'
      BY <1>10, <1>t, <2>i DEF Spawn, Go, Counts, TypeOK
    <2> QED
      BY <2>1, <2>2, <2>3, <2>4, <2>5, <2>6 DEF IInv
  <1>11. CASE StartWaiting \/ Return \/ Expire \/ UNCHANGED vars
    <2>1. TypeOK'
      BY <1>11, <1>t DEF StartWaiting, Return, Expire, vars, goroutine, TypeOK
    <2>2. Counters'
      BY <1>11, <1>t DEF StartWaiting, Return, Expire, vars, goroutine, Counters, Counted, Holders, Alive
    <2>3. Lifecycle'
      BY <1>11, <1>t DEF StartWaiting, Return, Expire, vars, goroutine, Lifecycle
    <2>4. ASSUME NEW j \in Job PROVE Progressed(j)'
      BY <1>11, <1>t DEF StartWaiting, Return, Expire, vars, goroutine, Progressed
    <2>5. FirstError'
      BY <1>11, <1>t DEF StartWaiting, Return, Expire, vars, goroutine, FirstError
    <2>6. Counts'
      BY <1>11, <1>t DEF StartWaiting, Return, Expire, vars, goroutine, Counts
    <2> QED
      BY <2>1, <2>2, <2>3, <2>4, <2>5, <2>6 DEF IInv
  <1> QED
    BY <1>1, <1>2, <1>3, <1>4, <1>5, <1>6, <1>7, <1>8, <1>9, <1>10, <1>11 DEF Next, Caller, Goroutine

-----------------------------------------------------------------------------
(* What follows                                                            *)

(* Every reachable state of the pool satisfies the strengthened invariant. *)
THEOREM Invariance == Spec => []IInv
  BY InitInv, StepInv, PTL DEF Spec

(* The types, and with them the bounds of the semaphore, the WaitGroup and *)
(* the index of the first error, hold for any number of jobs.              *)
THEOREM TypeCorrect == Spec => []TypeOK
  <1>1. IInv => TypeOK
    BY DEF IInv
  <1> QED
    BY Invariance, <1>1, PTL

(* Fetcher.Concurrency bounds the reads under way.                         *)
THEOREM BoundedConcurrency == Spec => []ConcurrencyBound
  <1>1. IInv => ConcurrencyBound
    BY SizeAssumption DEF IInv, TypeOK, Counters, ConcurrencyBound
  <1> QED
    BY Invariance, <1>1, PTL

(* When the caller has returned no goroutine is left ...                   *)
LEMMA AllEnded ==
  ASSUME IInv, main \in {"ok", "error"}
  PROVE  Alive = {} /\ \A i \in Job : pc[i] = "ended"
  <1>1. wg = 0 /\ spawned = N
    BY DEF IInv, Lifecycle
  <1>2. Alive = {}
    BY <1>1, JobsFinite, FS_EmptySet DEF IInv, Counters, Alive
  <1>3. \A i \in Job : pc[i] # "unborn"
    BY <1>1, SizeAssumption DEF IInv, Lifecycle, Job
  <1> QED
    BY <1>2, <1>3 DEF IInv, TypeOK, Alive

(* ... so nothing is written or reported behind its back.                  *)
THEOREM QuietAfterReturn == Spec => []NothingAfterReturn
  <1>1. IInv => NothingAfterReturn
    BY AllEnded DEF NothingAfterReturn
  <1> QED
    BY Invariance, <1>1, PTL

(* A result holds every job as its own request was answered, or it is the  *)
(* error of a dead context.                                                *)
THEOREM AllJobsOrError == Spec => []WholeOrNothing
  <1>1. IInv => WholeOrNothing
    <2> SUFFICES ASSUME IInv PROVE WholeOrNothing
      OBVIOUS
    <2>1. ASSUME main = "ok", NEW i \in Job
          PROVE  jobs[i] = answer[i] /\ jobs[i] \in Answers
      <3>1. pc[i] = "ended" /\ firstErr = 0
        BY <2>1, AllEnded DEF IInv, Lifecycle
      <3> QED
        BY <3>1 DEF IInv, Progressed, Leaving
    <2>2. main = "error" => ctx = "dead" /\ answer[firstErr] = "none"
      BY DEF IInv, Lifecycle, FirstError
    <2> QED
      BY <2>1, <2>2 DEF WholeOrNothing
  <1> QED
    BY Invariance, <1>1, PTL

(* Progress hears every count from 1 to N exactly once.                    *)
THEOREM ProgressIsExact == Spec => []EveryCountOnce
  <1>1. IInv => EveryCountOnce
    <2> SUFFICES ASSUME IInv PROVE EveryCountOnce
      OBVIOUS
    <2>1. \A k \in Job : reported[k] <= 1
      BY DEF IInv, Counts
    <2>2. ASSUME main = "ok", NEW k \in Job PROVE reported[k] = 1
      <3>1. \A i \in Job : pc[i] = "ended" /\ count[i] # 0
        <4>1. \A i \in Job : pc[i] = "ended"
          BY <2>2, AllEnded
        <4>2. firstErr = 0
          BY <2>2 DEF IInv, Lifecycle
        <4> QED
          BY <4>1, <4>2 DEF IInv, Progressed, Leaving
      <3>2. Counted = Job
        BY <3>1 DEF Counted
      <3>3. done = N
        BY <3>2, FS_Interval, SizeAssumption DEF IInv, Counters, Job
      <3>4. PICK i \in Job : count[i] = k
        BY <3>3 DEF IInv, Counts, Job
      <3>5. \E j \in Job : count[j] = k /\ pc[j] # "report"
        BY <3>1, <3>4
      <3> QED
        BY <3>5 DEF IInv, Counts
    <2> QED
      BY <2>1, <2>2 DEF EveryCountOnce
  <1> QED
    BY Invariance, <1>1, PTL

=============================================================================
