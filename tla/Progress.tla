------------------------------ MODULE Progress ------------------------------
(***************************************************************************)
(* What a scan writes on stderr while it fetches: progressWriter of        *)
(* internal/cli/progress.go, record and summary of trace.go and the two    *)
(* callbacks of obtainSnapshot in scan.go.  The caller draws the line and  *)
(* clears it, a goroutine turns its rotor, the fetch's goroutines report   *)
(* jobs, requests and warnings.  That no fetch goroutine is left when the  *)
(* fetch returns is what JobPool shows (NothingAfterReturn).               *)
(*                                                                         *)
(* The terminal is the row the cursor is in: how many of its columns show  *)
(* something, and the cursor, always put back to its start by what erases. *)
(* The words of the line are left out; its width changes from one drawing  *)
(* to the next.                                                            *)
(***************************************************************************)
EXTENDS Integers, FiniteSets

CONSTANTS
  Worker,     \* the fetch's goroutines
  MaxWidth,   \* bound: columns of the line
  MaxWork,    \* bound: what the workers have to tell, all together
  Main, Rotor, Nobody

Thread == Worker \cup {Main, Rotor}

ASSUME ProgressAssumption ==
  /\ MaxWidth \in Nat \ {0} /\ MaxWork \in Nat
  /\ Main \notin Worker \cup {Rotor, Nobody} /\ Rotor \notin Worker /\ Nobody \notin Thread

VARIABLES
  shown,      \* whether there is a writer: on a terminal, with progress compact
  pc,         \* where each thread is
  mu,         \* who holds the writer's lock
  up,         \* p.stop # nil: the line is up
  stop, done, \* whether each channel is closed
  last,       \* p.last: the width last drawn, 0 when erased
  row,        \* (terminal) how many columns of the row show something
  total,      \* tracer.total
  work,       \* what the workers told
  spoiled     \* (history) a line was printed on a row that showed something

lineVars == <<shown, pc, mu, up, stop, done, last, row, total, work, spoiled>>

Places ==
  {"idle", "counted", "lock", "erase", "print", "redraw", "jobs", "select", "tick", "turn",
   "ended", "new", "fetch", "take", "close", "wait", "wipe", "account"}

LineTypeOK ==
  /\ shown \in BOOLEAN
  /\ pc \in [Thread -> Places]
  /\ mu \in Thread \cup {Nobody}
  /\ up \in BOOLEAN /\ stop \in BOOLEAN /\ done \in BOOLEAN
  /\ last \in 0 .. MaxWidth /\ row \in 0 .. MaxWidth
  /\ total \in 0 .. MaxWork /\ work \in 0 .. MaxWork
  /\ spoiled \in BOOLEAN

LineInit ==
  /\ shown \in BOOLEAN
  /\ pc = [t \in Thread |-> IF t = Main THEN "new" ELSE IF t = Rotor THEN "ended" ELSE "idle"]
  /\ mu = Nobody
  /\ up = FALSE /\ stop = FALSE /\ done = FALSE
  /\ last = 0 /\ row = 0 /\ total = 0 /\ work = 0 /\ spoiled = FALSE

-----------------------------------------------------------------------------
(* What is written *)

Go(t, from, to) == pc[t] = from /\ pc' = [pc EXCEPT ![t] = to]

(* redrawLocked: as wide as it is now, padded to the width before.         *)
Redraw ==
  /\ \E width \in 1 .. MaxWidth :
       /\ row' = IF row > width /\ row > last THEN row ELSE width
       /\ last' = width
  /\ UNCHANGED spoiled

(* As many blanks as were drawn last.                                      *)
Erase ==
  /\ row' = IF row > last THEN row ELSE 0
  /\ last' = 0
  /\ UNCHANGED spoiled

(* A whole line and its newline: the next row shows nothing.               *)
PrintLine ==
  /\ spoiled' = (spoiled \/ row # 0)
  /\ row' = 0
  /\ UNCHANGED last

Quiet == UNCHANGED <<row, last, spoiled>>

Acquire(t) == mu = Nobody /\ mu' = t
Release(t) == mu = t /\ mu' = Nobody

-----------------------------------------------------------------------------
(* A fetch goroutine has something to tell, or the caller, which reads the *)
(* controller and the job tree before it starts them.                      *)

Fetching(t) == IF t = Main THEN "fetch" ELSE "idle"
AllIdle == \A t \in Worker : pc[t] = "idle"

Tell(t) ==
  /\ pc[Main] = "fetch" /\ (t = Main => AllIdle)
  /\ work < MaxWork /\ work' = work + 1

(* OnRequest, first half; with -v, and so without a writer, the request is *)
(* printed as well.                                                        *)
Record(t) ==
  /\ Go(t, Fetching(t), "counted") /\ Tell(t)
  /\ total' = total + 1
  /\ \/ ~shown /\ PrintLine
     \/ Quiet
  /\ UNCHANGED <<shown, mu, up, stop, done>>

(* The second half: tick only counts.                                      *)
Tick(t) ==
  /\ Go(t, "counted", Fetching(t)) /\ Quiet
  /\ UNCHANGED <<shown, mu, up, stop, done, total, work>>

(* Warnf: what the fetch warns of, it warns of before its goroutines start,*)
(* so that the lock around a warning never has two takers.                 *)
Warn ==
  /\ Go(Main, "fetch", IF shown THEN "lock" ELSE "print") /\ Tell(Main) /\ Quiet
  /\ UNCHANGED <<shown, mu, up, stop, done, total>>

Interrupt ==
  /\ Go(Main, "lock", "erase") /\ Acquire(Main) /\ Quiet
  /\ UNCHANGED <<shown, up, stop, done, total, work>>

StepAside ==
  /\ Go(Main, "erase", "print")
  /\ IF last > 0 THEN Erase ELSE Quiet
  /\ UNCHANGED <<shown, mu, up, stop, done, total, work>>

PrintWarning ==
  /\ Go(Main, "print", IF shown THEN "redraw" ELSE "fetch") /\ PrintLine
  /\ UNCHANGED <<shown, mu, up, stop, done, total, work>>

ComeBack ==
  /\ Go(Main, "redraw", "fetch")
  /\ IF up THEN Redraw ELSE Quiet
  /\ mu' = IF mu = Main THEN Nobody ELSE mu
  /\ UNCHANGED <<shown, up, stop, done, total, work>>

(* fetchJobs counts a job; jobsRead says so, whether the line is up or not.*)
JobsRead(t) ==
  /\ Go(t, "idle", "jobs") /\ shown /\ Tell(t) /\ Acquire(t) /\ Redraw
  /\ UNCHANGED <<shown, up, stop, done, total>>

JobsShown(t) ==
  /\ Go(t, "jobs", "idle") /\ Release(t) /\ Quiet
  /\ UNCHANGED <<shown, up, stop, done, total, work>>

-----------------------------------------------------------------------------
(* The rotor *)

Due ==
  /\ Go(Rotor, "select", "tick") /\ Quiet
  /\ UNCHANGED <<shown, mu, up, stop, done, total, work>>

TakeTurn ==
  /\ Go(Rotor, "tick", "turn") /\ Acquire(Rotor) /\ Redraw
  /\ UNCHANGED <<shown, up, stop, done, total, work>>

Turned ==
  /\ Go(Rotor, "turn", "select") /\ Release(Rotor) /\ Quiet
  /\ UNCHANGED <<shown, up, stop, done, total, work>>

(* Mutant: the goroutine reads the channel back through p, where it is nil.*)
MutantStopped ==
  /\ Go(Rotor, "select", "ended") /\ up /\ stop /\ done' = TRUE /\ Quiet
  /\ UNCHANGED <<shown, mu, up, stop, total, work>>

Stopped ==
  /\ Go(Rotor, "select", "ended") /\ stop /\ done' = TRUE /\ Quiet
  /\ UNCHANGED <<shown, mu, up, stop, total, work>>

-----------------------------------------------------------------------------
(* The caller *)

(* A snapshot from disk, or a client that cannot be made: no line at all.  *)
Skip ==
  /\ Go(Main, "new", IF shown THEN "take" ELSE "account") /\ Quiet
  /\ UNCHANGED <<shown, mu, up, stop, done, total, work>>

Start ==
  /\ pc[Main] = "new"
  /\ pc' = [pc EXCEPT ![Main] = "fetch", ![Rotor] = IF shown THEN "select" ELSE @]
  /\ up' = shown
  /\ IF shown THEN Redraw ELSE Quiet
  /\ UNCHANGED <<shown, mu, stop, done, total, work>>

(* Fetch returns when its goroutines are gone.                             *)
Fetched ==
  /\ Go(Main, "fetch", IF shown THEN "take" ELSE "account") /\ Quiet
  /\ AllIdle
  /\ UNCHANGED <<shown, mu, up, stop, done, total, work>>

(* clear: under the lock, the fields are taken.                            *)
TakeChannels ==
  /\ Go(Main, "take", IF up THEN "close" ELSE "wipe") /\ mu = Nobody
  /\ up' = FALSE /\ Quiet
  /\ UNCHANGED <<shown, mu, stop, done, total, work>>

CloseStop ==
  /\ Go(Main, "close", "wait") /\ stop' = TRUE /\ Quiet
  /\ UNCHANGED <<shown, mu, up, done, total, work>>

(* Mutant: the line is erased without waiting for the rotor.               *)
MutantAwaitRotor ==
  /\ Go(Main, "wait", "wipe") /\ Quiet
  /\ UNCHANGED <<shown, mu, up, stop, done, total, work>>

AwaitRotor ==
  /\ Go(Main, "wait", "wipe") /\ done /\ Quiet
  /\ UNCHANGED <<shown, mu, up, stop, done, total, work>>

Wipe ==
  /\ Go(Main, "wipe", "account") /\ mu = Nobody
  /\ IF last > 0 THEN Erase ELSE Quiet
  /\ UNCHANGED <<shown, mu, up, stop, done, total, work>>

(* The closing line, unless nothing was sent; then the report.             *)
Account ==
  /\ Go(Main, "account", "ended")
  /\ IF total = 0 THEN Quiet ELSE PrintLine
  /\ UNCHANGED <<shown, mu, up, stop, done, total, work>>

-----------------------------------------------------------------------------

Warning == StepAside \/ PrintWarning \/ ComeBack
Clearing == TakeChannels \/ Wipe
Calling == Skip \/ Start \/ Fetched \/ CloseStop \/ AwaitRotor \/ Account

LineNext ==
  \/ \E t \in Worker \cup {Main} : Record(t) \/ Tick(t)
  \/ \E t \in Worker : JobsRead(t) \/ JobsShown(t)
  \/ Warn \/ Interrupt \/ Warning
  \/ Due \/ TakeTurn \/ Turned \/ Stopped
  \/ Clearing \/ Calling

(* A thread that can run does.  A lock that is free again and again goes   *)
(* to each who waits for it: sync.Mutex hands it over to one that has      *)
(* waited for a millisecond.  A select of two ready cases takes either     *)
(* with the same chance, and so not the ticker's for ever.                 *)
Fairness ==
  /\ \A t \in Worker \cup {Main} : WF_lineVars(Tick(t))
  /\ \A t \in Worker : WF_lineVars(JobsShown(t))
  /\ SF_lineVars(Interrupt) /\ WF_lineVars(Warning)
  /\ SF_lineVars(TakeTurn) /\ WF_lineVars(Turned) /\ SF_lineVars(Stopped)
  /\ SF_lineVars(Clearing) /\ WF_lineVars(Calling)

LineSpec == LineInit /\ [][LineNext]_lineVars /\ Fairness

-----------------------------------------------------------------------------
(* Properties *)

(* No warning and no closing line shares a row with the progress           *)
(* line; while nobody draws, what the row shows is what the writer will    *)
(* erase; and when the caller goes on to the report, the row is empty and  *)
(* nothing is going to be drawn on it.                                     *)
RowIsClean ==
  /\ ~spoiled
  /\ mu = Nobody => row = last
  /\ pc[Main] = "ended" => row = 0 /\ pc[Rotor] = "ended"

(* clear returns, and with it the scan goes on to its report, however the  *)
(* rotor, the warnings and the lock fall together.                         *)
ClearReturns == (pc[Main] = "take") ~> (pc[Main] = "ended")

=============================================================================
