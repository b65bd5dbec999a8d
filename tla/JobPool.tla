------------------------------ MODULE JobPool ------------------------------
(***************************************************************************)
(* The concurrent half of a scan: fetchJobs of internal/ci/jenkins/        *)
(* fetcher.go.  One goroutine per job waits for a slot of a semaphore,     *)
(* reads the job's configuration, puts it into its own slot of the result, *)
(* reports how many are done and leaves; the caller waits for all of them. *)
(* The context can die between any two of these steps.  Progress is set, as*)
(* it is in the scan command.                                              *)
(***************************************************************************)
EXTENDS Naturals, FiniteSets

CONSTANTS
  N,            \* jobs to read: len(items)
  Concurrency   \* the semaphore's capacity, at least one

ASSUME SizeAssumption == N \in Nat /\ Concurrency \in Nat \ {0}

Job == 1 .. N

VARIABLES
  ctx,        \* "live", or "dead" once cancelled or past the deadline
  main,       \* the caller: "spawn", "wait", or the result it returned, "ok" or "error"
  spawned,    \* goroutines started so far
  wg,         \* the WaitGroup's counter
  sem,        \* slots of the semaphore in use
  pc,         \* where each goroutine is
  answer,     \* what fetchJob returned to each goroutine
  jobs,       \* the result slice, before it is sorted by name
  firstErr,   \* the first error, 0 while there is none
  done,       \* the counter of jobs read
  count,      \* what done.Add(1) returned to each goroutine
  reported    \* the counts passed to Progress so far, how often each

vars == <<ctx, main, spawned, wg, sem, pc, answer, jobs, firstErr, done, count, reported>>
goroutine == <<pc, answer, jobs, count>>

(* What a read job can be: its configuration, or the error that says why   *)
(* there is none.  "empty" is the zero Job of an untouched slot.           *)
Answers == {"read", "refused"}

(* From acquiring the semaphore to releasing it.                           *)
Holding == {"fetch", "store", "count", "report", "fail", "release"}
Running == {"acquire", "exit"} \cup Holding
Holders == {i \in Job : pc[i] \in Holding}
Alive == {i \in Job : pc[i] \in Running}

TypeOK ==
  /\ ctx \in {"live", "dead"}
  /\ main \in {"spawn", "wait", "ok", "error"}
  /\ spawned \in 0 .. N
  /\ wg \in Nat
  /\ sem \in 0 .. Concurrency
  /\ pc \in [Job -> {"unborn", "ended"} \cup Running]
  /\ answer \in [Job -> {"none"} \cup Answers]
  /\ jobs \in [Job -> {"empty"} \cup Answers]
  /\ firstErr \in 0 .. N
  /\ done \in Nat
  /\ count \in [Job -> Nat]
  /\ reported \in [Job -> Nat]

Init ==
  /\ ctx = "live"
  /\ main = "spawn"
  /\ spawned = 0
  /\ wg = 0
  /\ sem = 0
  /\ pc = [i \in Job |-> "unborn"]
  /\ answer = [i \in Job |-> "none"]
  /\ jobs = [i \in Job |-> "empty"]
  /\ firstErr = 0
  /\ done = 0
  /\ count = [i \in Job |-> 0]
  /\ reported = [i \in Job |-> 0]

Go(i, from, to) == pc[i] = from /\ pc' = [pc EXCEPT ![i] = to]

-----------------------------------------------------------------------------
(* The caller *)

(* Mutant: wg.Add moves into the goroutine, so that Wait can pass early.   *)
MutantSpawn ==
  /\ main = "spawn" /\ spawned < N
  /\ spawned' = spawned + 1
  /\ Go(spawned + 1, "unborn", "acquire")
  /\ UNCHANGED <<ctx, main, wg, sem, answer, jobs, firstErr, done, count, reported>>

Spawn ==
  /\ main = "spawn" /\ spawned < N
  /\ spawned' = spawned + 1
  /\ wg' = wg + 1
  /\ Go(spawned + 1, "unborn", "acquire")
  /\ UNCHANGED <<ctx, main, sem, answer, jobs, firstErr, done, count, reported>>

StartWaiting ==
  /\ main = "spawn" /\ spawned = N
  /\ main' = "wait"
  /\ UNCHANGED <<ctx, spawned, wg, sem, goroutine, firstErr, done, reported>>

Return ==
  /\ main = "wait" /\ wg = 0
  /\ main' = IF firstErr = 0 THEN "ok" ELSE "error"
  /\ UNCHANGED <<ctx, spawned, wg, sem, goroutine, firstErr, done, reported>>

Expire ==
  /\ main \in {"spawn", "wait"} /\ ctx = "live"
  /\ ctx' = "dead"
  /\ UNCHANGED <<main, spawned, wg, sem, goroutine, firstErr, done, reported>>

-----------------------------------------------------------------------------
(* A goroutine *)

(* Mutant: the slot is given back at once instead of at the end.           *)
MutantAcquire(i) ==
  /\ Go(i, "acquire", "fetch")
  /\ sem < Concurrency
  /\ UNCHANGED <<ctx, main, spawned, wg, sem, answer, jobs, firstErr, done, count, reported>>

Acquire(i) ==
  /\ Go(i, "acquire", "fetch")
  /\ sem < Concurrency
  /\ sem' = sem + 1
  /\ UNCHANGED <<ctx, main, spawned, wg, answer, jobs, firstErr, done, count, reported>>

(* fetchJob: one request, whose refusal is recorded in the job ...         *)
FetchAnswered(i) ==
  /\ ctx = "live"
  /\ Go(i, "fetch", "store")
  /\ \E a \in Answers : answer' = [answer EXCEPT ![i] = a]
  /\ UNCHANGED <<ctx, main, spawned, wg, sem, jobs, firstErr, done, count, reported>>

(* ... unless it is the context that ended it.                             *)
FetchCancelled(i) ==
  /\ ctx = "dead"
  /\ Go(i, "fetch", "fail")
  /\ UNCHANGED <<ctx, main, spawned, wg, sem, answer, jobs, firstErr, done, count, reported>>

Fail(i) ==
  /\ Go(i, "fail", "release")
  /\ firstErr' = IF firstErr = 0 THEN i ELSE firstErr
  /\ UNCHANGED <<ctx, main, spawned, wg, sem, answer, jobs, done, count, reported>>

(* Mutant: the slot is the next free one, not the goroutine's own.         *)
MutantStore(i) ==
  /\ Go(i, "store", "count")
  /\ jobs' = [jobs EXCEPT ![IF done < N THEN done + 1 ELSE i] = answer[i]]
  /\ UNCHANGED <<ctx, main, spawned, wg, sem, answer, firstErr, done, count, reported>>

Store(i) ==
  /\ Go(i, "store", "count")
  /\ jobs' = [jobs EXCEPT ![i] = answer[i]]
  /\ UNCHANGED <<ctx, main, spawned, wg, sem, answer, firstErr, done, count, reported>>

Count(i) ==
  /\ Go(i, "count", "report")
  /\ done' = done + 1
  /\ count' = [count EXCEPT ![i] = done']
  /\ UNCHANGED <<ctx, main, spawned, wg, sem, answer, jobs, firstErr, reported>>

(* Mutant: the counter is read again for the call.                         *)
MutantReport(i) ==
  /\ Go(i, "report", "release")
  /\ reported' = [reported EXCEPT ![done] = @ + 1]
  /\ UNCHANGED <<ctx, main, spawned, wg, sem, answer, jobs, firstErr, done, count>>

Report(i) ==
  /\ Go(i, "report", "release")
  /\ reported' = [reported EXCEPT ![count[i]] = @ + 1]
  /\ UNCHANGED <<ctx, main, spawned, wg, sem, answer, jobs, firstErr, done, count>>

(* Mutant: a goroutine that failed keeps its slot.                         *)
MutantRelease(i) ==
  /\ Go(i, "release", "exit")
  /\ sem' = IF jobs[i] = "empty" THEN sem ELSE sem - 1
  /\ UNCHANGED <<ctx, main, spawned, wg, answer, jobs, firstErr, done, count, reported>>

(* The deferred calls, last one first.                                     *)
Release(i) ==
  /\ Go(i, "release", "exit")
  /\ sem' = sem - 1
  /\ UNCHANGED <<ctx, main, spawned, wg, answer, jobs, firstErr, done, count, reported>>

Exit(i) ==
  /\ Go(i, "exit", "ended")
  /\ wg' = wg - 1
  /\ UNCHANGED <<ctx, main, spawned, sem, answer, jobs, firstErr, done, count, reported>>

-----------------------------------------------------------------------------
Caller == Spawn \/ StartWaiting \/ Return

Goroutine(i) ==
  \/ Acquire(i) \/ FetchAnswered(i) \/ FetchCancelled(i) \/ Fail(i)
  \/ Store(i) \/ Count(i) \/ Report(i) \/ Release(i) \/ Exit(i)

Next == Caller \/ Expire \/ \E i \in Job : Goroutine(i)

(* Go's scheduler runs every runnable goroutine; a request is bounded by   *)
(* the client's retries and timeouts (module Request).                     *)
Spec ==
  /\ Init /\ [][Next]_vars
  /\ WF_vars(Caller)
  /\ \A i \in Job : WF_vars(Goroutine(i))

-----------------------------------------------------------------------------
(* Properties *)

(* Fetcher.Concurrency bounds the reads that are under way, whatever the   *)
(* goroutines that fail or are cancelled do with their slots.              *)
ConcurrencyBound == Cardinality(Holders) <= Concurrency

(* A result is whole or it is an error: when fetchJobs returns jobs, each  *)
(* one is what its own request was answered with, no slot is a zero Job,   *)
(* and no goroutine met the deadline; when it returns an error, it is the  *)
(* context's.                                                              *)
WholeOrNothing ==
  /\ main = "ok" => \A i \in Job : jobs[i] = answer[i] /\ jobs[i] \in Answers
  /\ main = "error" => ctx = "dead" /\ answer[firstErr] = "none"

(* No goroutine outlives the call, so nothing writes a job or reports      *)
(* progress after the result is in the caller's hands.                     *)
NothingAfterReturn == main \in {"ok", "error"} => Alive = {}

(* Progress hears each count once however the goroutines interleave, and   *)
(* by the time the jobs are returned it has heard all of them.             *)
EveryCountOnce ==
  /\ \A k \in Job : reported[k] <= 1
  /\ main = "ok" => \A k \in Job : reported[k] = 1

(* The call returns: a goroutine that fails frees its slot for the others. *)
PoolEnds == <>(main \in {"ok", "error"})

=============================================================================
