---------------------------- MODULE FetchProofs ----------------------------
(***************************************************************************)
(* A fetch of any length: the snapshot it returns was not shaped by the    *)
(* deadline, rests on an answer of the root, and calls available exactly   *)
(* what was read.  That Fetch returns is liveness, which TLC checks.       *)
(*                                                                         *)
(* Then the progress line that a fetch draws, for any number of threads    *)
(* and any widths: it shares its row with nothing and is gone at the end.  *)
(***************************************************************************)
EXTENDS Fetch, Progress, TLAPS

(* A request begun on a dead context is only ever cancelled, and what was  *)
(* lost to the deadline is followed by such requests up to the last        *)
(* listing, which none of them gets past.                                  *)
Late ==
  /\ late \/ cut # {} \/ result = "cancelled" => ctx = "dead"
  /\ late => result \in {"pending", "cancelled"}
  /\ at \in Reads /\ cut # {} => late
  /\ at = "configs" => cut \subseteq {"configs"}
  /\ at = "configs" /\ cut # {} => ctxErr
  /\ at = "returned" => cut = {}

(* The root is read once, first, and what it said is kept.                 *)
RootKnown ==
  /\ at = "root" => rootAnswer = "none" /\ ~available["root"]
  /\ at \notin {"root", "failed"} =>
       /\ \/ rootAnswer \in {"ok", "403", "405"}
          \/ rootAnswer = "401" /\ ~credentialed
       /\ available["root"] <=> rootAnswer = "ok"

Honest ==
  /\ AnonymousIsMeasured
  /\ at = "probe" /\ result \in {"401", "403"} => ~opensToAll

StoresKnown == available["credentials"] <=> storesSeen = "whole"

JobsKnown ==
  /\ at \in {"configs", "returned"} => (available["jobs"] <=> unlisted = 0)
  /\ at = "returned" => snapshot = available

Counted ==
  /\ at \in Reads => listings < MaxListings
  /\ unlisted <= listings

IInv == TypeOK /\ Late /\ RootKnown /\ Honest /\ StoresKnown /\ JobsKnown /\ Counted

LEMMA InitInv == Init => IInv
  <1> SUFFICES ASSUME Init PROVE IInv
    OBVIOUS
  <1> USE DEF Init, Request!Init
  <1>1. TypeOK
    <2>1. listings \in 0 .. MaxListings /\ unlisted \in 0 .. MaxListings /\ pending \in 0 .. MaxJobs
      BY BoundAssumption
    <2>2. Request!TypeOK /\ given \in BOOLEAN \X BOOLEAN /\ NotYet \in [Keys -> BOOLEAN]
      BY DEF Request!TypeOK, given, NotYet
    <2> QED
      BY <2>1, <2>2 DEF TypeOK, Reads
  <1>2. Late /\ RootKnown /\ Honest /\ JobsKnown
    BY DEF Late, RootKnown, Honest, JobsKnown, AnonymousIsMeasured, NotYet, Keys, Reads
  <1>3. StoresKnown
    BY DEF StoresKnown, NotYet, Keys, Optional
  <1>4. Counted
    BY BoundAssumption DEF Counted, Reads
  <1> QED
    BY <1>1, <1>2, <1>3, <1>4 DEF IInv

(* What any read but the root's and the listing's leaves behind: the next  *)
(* request, which is late when something was lost.                         *)
LEMMA AskInv ==
  ASSUME IInv, NEW read \in Reads \ {"root", "probe"}, Ask(read),
         at \in Reads, ctx' = ctx,
         cut' = cut \/ Cut(at)
  PROVE  Late'
  BY DEF IInv, TypeOK, Late, Ask, Cut, Reads, Optional

LEMMA RequestStepInv == IInv /\ RequestStep => IInv'
  <1> SUFFICES ASSUME IInv, RequestStep PROVE IInv'
    OBVIOUS
  <1> USE DEF IInv, RequestStep, given, known, jobs
  <1>1. TypeOK'
    BY DEF TypeOK, Request!TypeOK, Request!Next, Request!Expire, Request!Answer,
           Request!Cancel, Request!Outcomes
  <1>2. Late'
    BY DEF TypeOK, Late, Request!Next, Request!Expire, Request!Answer, Request!Cancel, Refusals
  <1>3. RootKnown' /\ StoresKnown' /\ Honest' /\ JobsKnown'
    BY DEF RootKnown, StoresKnown, Honest, AnonymousIsMeasured, JobsKnown
  <1>4. Counted'
    BY DEF Counted
  <1> QED
    BY <1>1, <1>2, <1>3, <1>4

LEMMA RootInv == IInv /\ (RootRead \/ RootDenied \/ RootFailed) => IInv'
  <1> SUFFICES ASSUME IInv PROVE RootRead \/ RootDenied \/ RootFailed => IInv'
    OBVIOUS
  <1> USE DEF IInv, given, jobs, get, Answered
  <1>1. CASE RootRead
    <2>1. TypeOK'
      BY <1>1 DEF RootRead, TypeOK, Request!TypeOK, Request!Outcomes, Ask, Reads, Keys
    <2>2. Late'
      BY <1>1 DEF RootRead, TypeOK, Late, Ask, Reads
    <2>3. RootKnown' /\ Honest' /\ StoresKnown' /\ JobsKnown'
      BY <1>1 DEF RootRead, TypeOK, RootKnown, Honest, AnonymousIsMeasured, StoresKnown,
                  JobsKnown, Ask, Keys, Optional
    <2>4. Counted'
      BY <1>1 DEF RootRead, Counted, Ask, Reads
    <2> QED
      BY <2>1, <2>2, <2>3, <2>4
  <1>2. CASE RootDenied
    <2>1. TypeOK'
      BY <1>2 DEF RootDenied, TypeOK, Request!TypeOK, Request!Outcomes, Ask, Reads
    <2>2. Late'
      BY <1>2 DEF RootDenied, TypeOK, Late, Ask, Reads
    <2>3. RootKnown' /\ Honest' /\ StoresKnown' /\ JobsKnown'
      BY <1>2 DEF RootDenied, TypeOK, RootKnown, Honest, AnonymousIsMeasured, StoresKnown,
                  JobsKnown, Ask, Tolerable, DeniedNotBroken
    <2>4. Counted'
      BY <1>2 DEF RootDenied, Counted, Ask, Reads
    <2> QED
      BY <2>1, <2>2, <2>3, <2>4
  <1>3. CASE RootFailed
    <2>1. TypeOK'
      BY <1>3 DEF RootFailed, TypeOK, Request!TypeOK, Request!Outcomes, Cut, Reads
    <2>2. Late'
      BY <1>3 DEF RootFailed, TypeOK, Late, Cut, Reads, Optional
    <2>3. RootKnown' /\ Honest' /\ StoresKnown' /\ JobsKnown'
      BY <1>3 DEF RootFailed, RootKnown, Honest, AnonymousIsMeasured, StoresKnown, JobsKnown
    <2>4. Counted'
      BY <1>3 DEF RootFailed, Counted, Reads, Optional
    <2> QED
      BY <2>1, <2>2, <2>3, <2>4
  <1> QED
    BY <1>1, <1>2, <1>3

LEMMA DegradingInv ==
  IInv /\ (Probe \/ (\E k \in Optional : OptionalRead(k)) \/ Credentials) => IInv'
  <1> SUFFICES ASSUME IInv
               PROVE  Probe \/ (\E k \in Optional : OptionalRead(k)) \/ Credentials => IInv'
    OBVIOUS
  <1> USE DEF IInv, given, jobs, get, Answered
  <1>1. CASE Probe
    <2>1. TypeOK'
      BY <1>1 DEF Probe, Verdict, TypeOK, Request!TypeOK, Ask, Cut, Reads, Optional
    <2>2. Late'
      <3>1. cut' = cut \/ Cut("probe")
        BY <1>1 DEF Probe
      <3> QED
        BY <1>1, <3>1, AskInv DEF Probe, Reads, Optional
    <2>3. Honest'
      BY <1>1 DEF Probe, Verdict, Honest, AnonymousIsMeasured, Ask
    <2>4. RootKnown' /\ StoresKnown' /\ JobsKnown'
      BY <1>1 DEF Probe, RootKnown, StoresKnown, JobsKnown, Ask
    <2>5. Counted'
      BY <1>1 DEF Probe, Counted, Ask, Reads
    <2> QED
      BY <2>1, <2>2, <2>3, <2>4, <2>5
  <1>2. ASSUME NEW k \in Optional, OptionalRead(k) PROVE IInv'
    <2> USE <1>2
    <2>1. k \in {"agents", "plugins", "updateSite"} /\ After[k] \in {"plugins", "updateSite", "credentials"}
      BY DEF OptionalRead, After
    <2>2. TypeOK'
      <3>1. available' \in [Keys -> BOOLEAN]
        BY <2>1 DEF OptionalRead, TypeOK
      <3>2. cut' \subseteq Reads \cup {"configs"}
        BY <2>1 DEF OptionalRead, TypeOK, Cut, Reads
      <3> QED
        BY <2>1, <3>1, <3>2 DEF OptionalRead, TypeOK, Request!TypeOK, Ask, Reads, Optional
    <2>3. Late'
      <3>1. cut' = cut \/ Cut(at)
        BY DEF OptionalRead
      <3> QED
        BY <2>1, <3>1, AskInv DEF OptionalRead, Reads, Optional
    <2>4. RootKnown' /\ StoresKnown' /\ JobsKnown'
      <3>1. available'["root"] = available["root"] /\ available'["credentials"] = available["credentials"]
        BY <2>1 DEF OptionalRead, TypeOK, Keys, Optional
      <3> QED
        BY <2>1, <3>1 DEF OptionalRead, RootKnown, StoresKnown, JobsKnown, Ask
    <2>5. Honest' /\ Counted'
      BY <2>1 DEF OptionalRead, Honest, AnonymousIsMeasured, Counted, Ask, Reads, Optional
    <2> QED
      BY <2>2, <2>3, <2>4, <2>5
  <1>3. CASE Credentials
    <2>1. TypeOK'
      <3>1. available' \in [Keys -> BOOLEAN]
        BY <1>3 DEF Credentials, Earned, TypeOK
      <3>2. cut' \subseteq Reads \cup {"configs"}
        BY <1>3 DEF Credentials, TypeOK, Cut, Reads, Optional
      <3> QED
        BY <1>3, <3>1, <3>2 DEF Credentials, TypeOK, Request!TypeOK, Ask, Reads
    <2>2. Late'
      <3>1. cut' = cut \/ Cut(at)
        BY <1>3 DEF Credentials
      <3> QED
        BY <1>3, <3>1, AskInv DEF Credentials, Reads, Optional
    <2>3. StoresKnown'
      BY <1>3 DEF Credentials, StoresKnown, Earned, TypeOK, Keys, Optional
    <2>4. RootKnown' /\ JobsKnown'
      <3>1. available'["root"] = available["root"]
        BY <1>3 DEF Credentials, TypeOK, Keys, Optional
      <3> QED
        BY <1>3, <3>1 DEF Credentials, RootKnown, JobsKnown, Ask
    <2>5. Honest' /\ Counted'
      BY <1>3 DEF Credentials, Honest, AnonymousIsMeasured, Counted, Ask, Reads, Optional
    <2> QED
      BY <2>1, <2>2, <2>3, <2>4, <2>5
  <1> QED
    BY <1>1, <1>2, <1>3

(* The walk comes to the jobs only from an answered request, on which      *)
(* nothing has been lost.                                                  *)
LEMMA MoreOrConfigsInv ==
  ASSUME IInv, NEW failures \in {unlisted, unlisted + 1},
         Answered("listing"), ~late, MoreOrConfigs(failures),
         listings' = listings + 1, unlisted' = failures,
         UNCHANGED <<ctx, given, rootAnswer, anonymous, storesSeen, ctxErr, cut, snapshot>>
  PROVE  IInv'
  <1> USE DEF IInv, given, get, Answered
  <1>1. cut = {} /\ listings < MaxListings /\ unlisted <= listings /\ unlisted \in Nat
        /\ listings \in Nat /\ MaxListings \in Nat
    BY BoundAssumption DEF Late, Reads, Counted, TypeOK
  <1>2. at' \in {"listing", "configs"} /\ available' \in [Keys -> BOOLEAN]
        /\ available'["root"] = available["root"]
        /\ available'["credentials"] = available["credentials"]
    BY DEF MoreOrConfigs, Ask, TypeOK, Keys, Optional
  <1>3. TypeOK'
    <2>1. listings' \in 0 .. MaxListings /\ unlisted' \in 0 .. MaxListings
      BY <1>1
    <2>2. pending' \in 0 .. MaxJobs /\ Request!TypeOK'
      BY DEF MoreOrConfigs, Ask, TypeOK, Request!TypeOK
    <2>3. at' \in Reads
          \/ at' = "configs"
      BY <1>2 DEF Reads
    <2> QED
      BY <1>2, <2>1, <2>2, <2>3 DEF TypeOK
  <1>4. Late'
    BY <1>1, <1>2 DEF MoreOrConfigs, Ask, Late, TypeOK, Request!TypeOK
  <1>5. RootKnown' /\ StoresKnown' /\ Honest'
    BY <1>2 DEF RootKnown, StoresKnown, Honest, AnonymousIsMeasured
  <1>6. JobsKnown'
    BY <1>2 DEF MoreOrConfigs, Ask, JobsKnown, TypeOK, Keys
  <1>7. Counted'
    <2>1. unlisted' <= listings'
      BY <1>1
    <2>2. at' \in Reads => listings' < MaxListings
      BY <1>1 DEF MoreOrConfigs, Ask, Reads, Optional
    <2> QED
      BY <2>1, <2>2 DEF Counted
  <1> QED
    BY <1>3, <1>4, <1>5, <1>6, <1>7

LEMMA WalkInv == IInv /\ (Listed \/ Unlisted \/ LookupRefused \/ ListingCut) => IInv'
  <1> SUFFICES ASSUME IInv PROVE Listed \/ Unlisted \/ LookupRefused \/ ListingCut => IInv'
    OBVIOUS
  <1>1. CASE Listed
    <2>1. ~late
      BY <1>1 DEF Listed, Answered, Decoded, IInv, Late
    <2> QED
      BY <1>1, <2>1, MoreOrConfigsInv DEF Listed
  <1>2. CASE Unlisted
    <2>1. ~late
      BY <1>2 DEF Unlisted, Answered, Decoded, IInv, Late
    <2> QED
      BY <1>2, <2>1, MoreOrConfigsInv DEF Unlisted
  <1>3. CASE LookupRefused \/ ListingCut
    <2> USE <1>3 DEF IInv, LookupRefused, ListingCut, Answered, given, known, jobs, get
    <2>1. TypeOK'
      BY DEF TypeOK, Cut, Reads, Request!TypeOK
    <2>l. Late'
      BY DEF TypeOK, Late, Cut, Reads, Optional, Request!TypeOK
    <2>2. RootKnown' /\ StoresKnown' /\ Honest' /\ JobsKnown' /\ Counted'
      BY DEF RootKnown, StoresKnown, Honest, AnonymousIsMeasured, JobsKnown, Counted, Reads, Optional
    <2> QED
      BY <2>1, <2>l, <2>2
  <1> QED
    BY <1>1, <1>2, <1>3

LEMMA PoolInv == IInv /\ (JobRead \/ JobCut \/ ExpireInPool \/ Return) => IInv'
  <1> SUFFICES ASSUME IInv, JobRead \/ JobCut \/ ExpireInPool \/ Return PROVE IInv'
    OBVIOUS
  <1> USE DEF IInv, JobRead, JobCut, ExpireInPool, Return, given, known, jobs, get
  <1>1. TypeOK'
    <2>1. pending' \in 0 .. MaxJobs
      BY BoundAssumption DEF TypeOK
    <2>2. cut' \subseteq Reads \cup {"configs"}
      BY DEF TypeOK, Cut
    <2> QED
      BY <2>1, <2>2 DEF TypeOK, Request!TypeOK
  <1>2. Late'
    <2>1. CASE JobRead \/ ExpireInPool
      BY <2>1 DEF TypeOK, Request!TypeOK, Late, Reads, Optional
    <2>2. CASE JobCut
      BY <2>2 DEF TypeOK, Late, Cut, Reads, Optional
    <2>3. CASE Return
      BY <2>3 DEF TypeOK, Late, Reads, Optional
    <2> QED
      BY <2>1, <2>2, <2>3
  <1>3. RootKnown' /\ StoresKnown' /\ Honest' /\ JobsKnown'
    BY DEF RootKnown, StoresKnown, Honest, AnonymousIsMeasured, JobsKnown
  <1>4. Counted'
    BY DEF Counted, Reads, Optional
  <1> QED
    BY <1>1, <1>2, <1>3, <1>4

LEMMA NextInv == IInv /\ [Next]_vars => IInv'
  <1> SUFFICES ASSUME IInv, [Next]_vars PROVE IInv'
    OBVIOUS
  <1>1. CASE UNCHANGED vars
    BY <1>1 DEF vars, given, known, jobs, get, IInv, TypeOK, Request!TypeOK, Late, RootKnown,
                Honest, AnonymousIsMeasured, StoresKnown, JobsKnown, Counted
  <1>2. CASE Next
    BY <1>2, RequestStepInv, RootInv, DegradingInv, WalkInv, PoolInv DEF Next, Step
  <1> QED
    BY <1>1, <1>2

(* Every reachable state of a fetch satisfies the invariant above.         *)
THEOREM Invariance == Spec => []IInv
  <1> QED
    BY InitInv, NextInv, PTL DEF Spec

-----------------------------------------------------------------------------
(* Every variable of a fetch keeps its type.                               *)
THEOREM TypeCorrect == Spec => []TypeOK
  <1>1. IInv => TypeOK
    BY DEF IInv
  <1> QED
    BY <1>1, Invariance, PTL

(* For any number of listings and jobs, no read that the deadline cut off  *)
(* is behind a snapshot that Fetch returned.                               *)
THEOREM NothingCutOff == Spec => []DeadlineFails
  <1>1. IInv => DeadlineFails
    BY DEF IInv, Late, DeadlineFails
  <1> QED
    BY <1>1, Invariance, PTL

(* Every snapshot rests on a root that answered or denied itself.          *)
THEOREM RootBehindSnapshot == Spec => []SomethingWasRead
  <1>1. IInv => SomethingWasRead
    BY DEF IInv, RootKnown, SomethingWasRead
  <1> QED
    BY <1>1, Invariance, PTL

(* What the anonymous probe concludes is so.                               *)
THEOREM ProbeIsHonest == Spec => []AnonymousIsMeasured
  <1>1. IInv => AnonymousIsMeasured
    BY DEF IInv, Honest
  <1> QED
    BY <1>1, Invariance, PTL

(* The snapshot calls the root, the credentials and the job list available *)
(* exactly when they were read whole.                                      *)
THEOREM AvailableIsRead == Spec => []AvailabilityIsEarned
  <1>1. IInv => AvailabilityIsEarned
    BY DEF IInv, RootKnown, StoresKnown, JobsKnown, AvailabilityIsEarned
  <1> QED
    BY <1>1, Invariance, PTL

-----------------------------------------------------------------------------
(* The terminal's row *)

(* Who holds the lock, and what the rotor and the workers may still do     *)
(* while the caller is where it is.                                        *)
LockHeld ==
  /\ mu = Main <=> shown /\ pc[Main] \in {"erase", "print", "redraw"}
  /\ mu = Rotor <=> pc[Rotor] = "turn"
  /\ pc[Main] \in {"lock", "erase", "redraw"} => shown

RotorOver ==
  /\ ~shown \/ done \/ pc[Main] \in {"new", "wipe", "account", "ended"} => pc[Rotor] = "ended"
  /\ ~up /\ pc[Main] \notin {"close", "wait"} => pc[Rotor] = "ended"
  /\ pc[Main] = "new" => ~done
  /\ pc[Rotor] \in {"select", "tick", "turn", "ended"}

(* The writer knows what the row shows, and nothing is left on it when     *)
(* another line is printed.                                                *)
RowKnown ==
  /\ row = last /\ ~spoiled
  /\ ~shown \/ pc[Main] \in {"print", "redraw", "account", "ended"} => last = 0

LineInv == LineTypeOK /\ total <= work /\ LockHeld /\ RotorOver /\ RowKnown

LEMMA LineInitInv == LineInit => LineInv
  <1> SUFFICES ASSUME LineInit PROVE LineInv
    OBVIOUS
  <1>1. pc \in [Thread -> Places]
    BY DEF LineInit, Places
  <1>2. LineTypeOK
    <2>1. /\ shown \in BOOLEAN /\ mu \in Thread \cup {Nobody}
          /\ up \in BOOLEAN /\ stop \in BOOLEAN /\ done \in BOOLEAN /\ spoiled \in BOOLEAN
      BY DEF LineInit
    <2>2. last \in 0 .. MaxWidth /\ row \in 0 .. MaxWidth /\ total \in 0 .. MaxWork /\ work \in 0 .. MaxWork
      BY ProgressAssumption DEF LineInit
    <2> QED
      BY <1>1, <2>1, <2>2 DEF LineTypeOK
  <1>3. /\ pc[Main] = "new" /\ pc[Rotor] = "ended"
        /\ mu # Main /\ mu # Rotor
    BY ProgressAssumption DEF LineInit, Thread
  <1>4. LockHeld /\ RotorOver
    BY <1>3 DEF LineInit, LockHeld, RotorOver
  <1> QED
    BY <1>2, <1>4 DEF LineInit, LineInv, RowKnown

(* Drawing keeps the row known, and erasing a known row leaves it empty.   *)
LEMMA RowStays ==
  ASSUME LineTypeOK, row = last, ~spoiled,
         Redraw \/ Erase \/ Quiet \/ (last = 0 /\ PrintLine)
  PROVE  /\ row' = last' /\ ~spoiled' /\ row' \in 0 .. MaxWidth /\ spoiled' \in BOOLEAN
         /\ Erase \/ (last = 0 /\ ~Redraw) => last' = 0
  BY ProgressAssumption DEF LineTypeOK, Redraw, Erase, Quiet, PrintLine

(* A thread's step changes where it is and nothing else of the kind.       *)
LEMMA GoneTo ==
  ASSUME LineTypeOK, NEW t \in Thread, NEW from, NEW to \in Places, Go(t, from, to)
  PROVE  /\ pc[t] = from /\ pc'[t] = to /\ \A u \in Thread : u # t => pc'[u] = pc[u]
         /\ pc' \in [Thread -> Places]
  BY DEF Go, LineTypeOK

(* What is left to see of a step once it is known where it goes.           *)
LEMMA StepTyped ==
  ASSUME LineTypeOK, total <= work, pc' \in [Thread -> Places], mu' \in Thread \cup {Nobody},
         row' = last', row' \in 0 .. MaxWidth, spoiled' \in BOOLEAN, shown' = shown,
         up' \in BOOLEAN, stop' \in BOOLEAN, done' \in BOOLEAN,
         \/ work' = work /\ total' = total
         \/ work < MaxWork /\ work' = work + 1 /\ total' \in {total, total + 1}
  PROVE  LineTypeOK' /\ total' <= work'
  <1>1. work' \in 0 .. MaxWork /\ total' \in 0 .. MaxWork /\ total' <= work'
    BY ProgressAssumption DEF LineTypeOK
  <1>2. shown' \in BOOLEAN
    BY DEF LineTypeOK
  <1> QED
    BY <1>1, <1>2 DEF LineTypeOK

LEMMA WorkersInv ==
  ASSUME LineInv, NEW t \in Worker \cup {Main},
         Record(t) \/ Tick(t) \/ (t \in Worker /\ (JobsRead(t) \/ JobsShown(t)))
  PROVE  LineInv'
  <1> USE ProgressAssumption DEF LineInv
  <1>0. t \in Thread /\ Main \in Thread /\ Rotor \in Thread /\ t # Rotor
    BY DEF Thread
  <1>1. /\ UNCHANGED <<shown, up, stop, done>>
        /\ up' \in BOOLEAN /\ stop' \in BOOLEAN /\ done' \in BOOLEAN
    BY DEF Record, Tick, JobsRead, JobsShown, LineTypeOK
  <1>2. /\ pc' \in [Thread -> Places] /\ pc'[Rotor] = pc[Rotor]
        /\ t # Main => pc'[Main] = pc[Main]
        /\ pc[t] \in {"fetch", "counted", "idle", "jobs"}
        /\ pc'[t] \in {"fetch", "counted", "idle", "jobs"}
    <2>1. \E from, to \in {"fetch", "counted", "idle", "jobs"} : Go(t, from, to)
      BY DEF Record, Tick, JobsRead, JobsShown, Fetching
    <2>2. PICK from \in {"fetch", "counted", "idle", "jobs"},
               to \in {"fetch", "counted", "idle", "jobs"} : Go(t, from, to)
      BY <2>1
    <2>3. to \in Places
      BY DEF Places
    <2> QED
      BY <1>0, <2>2, <2>3, GoneTo
  <1>3. /\ row' = last' /\ ~spoiled' /\ row' \in 0 .. MaxWidth /\ spoiled' \in BOOLEAN
        /\ last' # last => shown /\ pc[Main] = "fetch" /\ t # Main
    <2>1. CASE Record(t)
      BY <2>1, RowStays DEF Record, RowKnown, Quiet, PrintLine
    <2>2. CASE Tick(t) \/ JobsShown(t)
      BY <2>2, RowStays DEF Tick, JobsShown, RowKnown, Quiet
    <2>3. CASE t \in Worker /\ JobsRead(t)
      BY <2>3, RowStays DEF JobsRead, RowKnown, Tell
    <2> QED
      BY <2>1, <2>2, <2>3
  <1>4. /\ mu' \in Thread \cup {Nobody}
        /\ mu' = mu \/ (mu \notin {Main, Rotor} /\ mu' \notin {Main, Rotor})
    <2>1. CASE Record(t) \/ Tick(t)
      BY <2>1 DEF Record, Tick, LineTypeOK
    <2>2. CASE t \in Worker /\ (JobsRead(t) \/ JobsShown(t))
      BY <1>0, <2>2 DEF JobsRead, JobsShown, Acquire, Release, LineTypeOK, Thread
    <2> QED
      BY <2>1, <2>2
  <1>5. LineTypeOK' /\ total' <= work'
    <2>1. \/ work' = work /\ total' = total
          \/ work < MaxWork /\ work' = work + 1 /\ total' \in {total, total + 1}
      BY DEF Record, Tick, JobsRead, JobsShown, Tell
    <2> QED
      BY <1>1, <1>2, <1>3, <1>4, <2>1, StepTyped
  <1>6. LockHeld'
    BY <1>1, <1>2, <1>4 DEF LockHeld
  <1>7. RotorOver'
    BY <1>1, <1>2 DEF RotorOver
  <1>8. RowKnown'
    BY <1>1, <1>2, <1>3 DEF RowKnown
  <1> QED
    BY <1>5, <1>6, <1>7, <1>8

LEMMA RotorInv ==
  ASSUME LineInv, Due \/ TakeTurn \/ Turned \/ Stopped
  PROVE  LineInv'
  <1> USE ProgressAssumption DEF LineInv
  <1>0. Main \in Thread /\ Rotor \in Thread /\ Main # Rotor
    BY DEF Thread
  <1>1. /\ UNCHANGED <<shown, up, stop, total, work>>
        /\ up' \in BOOLEAN /\ stop' \in BOOLEAN /\ done' \in BOOLEAN
    BY DEF Due, TakeTurn, Turned, Stopped, LineTypeOK
  <1>2. /\ pc' \in [Thread -> Places] /\ pc'[Main] = pc[Main]
        /\ <<pc[Rotor], pc'[Rotor]>> \in {<<"select", "tick">>, <<"tick", "turn">>,
                                         <<"turn", "select">>, <<"select", "ended">>}
    <2>1. PICK step \in {<<"select", "tick">>, <<"tick", "turn">>,
                        <<"turn", "select">>, <<"select", "ended">>} : Go(Rotor, step[1], step[2])
      BY DEF Due, TakeTurn, Turned, Stopped
    <2>2. step[2] \in Places
      BY DEF Places
    <2> QED
      BY <1>0, <2>1, <2>2, GoneTo
  <1>3. /\ row' = last' /\ ~spoiled' /\ row' \in 0 .. MaxWidth /\ spoiled' \in BOOLEAN
        /\ last' # last => pc[Rotor] = "tick" /\ mu = Nobody
    <2>1. CASE Due \/ Turned \/ Stopped
      BY <2>1, RowStays DEF Due, Turned, Stopped, RowKnown, Quiet
    <2>2. CASE TakeTurn
      BY <2>2, RowStays DEF TakeTurn, RowKnown, Go, Acquire
    <2> QED
      BY <2>1, <2>2
  <1>4. /\ mu' \in Thread \cup {Nobody}
        /\ \/ mu' = mu /\ pc[Rotor] = "select"
           \/ mu = Nobody /\ mu' = Rotor /\ pc'[Rotor] = "turn"
           \/ mu = Rotor /\ mu' = Nobody /\ pc'[Rotor] = "select"
    <2>1. CASE Due \/ Stopped
      BY <2>1 DEF Due, Stopped, LineTypeOK, Go
    <2>2. CASE TakeTurn
      BY <1>0, <1>2, <2>2 DEF TakeTurn, Acquire, Go
    <2>3. CASE Turned
      BY <1>0, <1>2, <2>3 DEF Turned, Release, Go
    <2> QED
      BY <2>1, <2>2, <2>3
  <1>5. LineTypeOK' /\ total' <= work'
    BY <1>1, <1>2, <1>3, <1>4, StepTyped
  <1>6. LockHeld'
    BY <1>0, <1>1, <1>2, <1>4 DEF LockHeld, Thread
  <1>7. RotorOver'
    <2>1. done' # done => pc'[Rotor] = "ended"
      BY <1>0, <1>2 DEF Due, TakeTurn, Turned, Stopped, Go, LineTypeOK
    <2>2. pc[Rotor] # "ended"
      BY <1>2
    <2>3. ~done
      BY <2>2 DEF RotorOver
    <2> QED
      BY <1>1, <1>2, <2>1, <2>2, <2>3 DEF RotorOver
  <1>8. RowKnown'
    <2>1. pc[Rotor] # "ended" => shown /\ pc[Main] \notin {"account", "ended"}
      BY DEF RotorOver
    <2>2. mu = Nobody => ~(shown /\ pc[Main] \in {"print", "redraw"})
      BY DEF LockHeld, Thread
    <2> QED
      BY <1>1, <1>2, <1>3, <2>1, <2>2 DEF RowKnown
  <1> QED
    BY <1>5, <1>6, <1>7, <1>8

LEMMA WarningInv ==
  ASSUME LineInv, Warn \/ Interrupt \/ Warning
  PROVE  LineInv'
  <1> USE ProgressAssumption DEF LineInv
  <1> DEFINE Steps == {<<"fetch", "lock">>, <<"fetch", "print">>, <<"lock", "erase">>,
                       <<"erase", "print">>, <<"print", "redraw">>, <<"print", "fetch">>,
                       <<"redraw", "fetch">>}
  <1>0. Main \in Thread /\ Rotor \in Thread /\ Main # Rotor
    BY DEF Thread
  <1>1. /\ UNCHANGED <<shown, up, stop, done, total>>
        /\ up' \in BOOLEAN /\ stop' \in BOOLEAN /\ done' \in BOOLEAN
    BY DEF Warn, Interrupt, Warning, StepAside, PrintWarning, ComeBack, LineTypeOK
  <1>2. /\ pc' \in [Thread -> Places] /\ pc'[Rotor] = pc[Rotor]
        /\ <<pc[Main], pc'[Main]>> \in Steps
        /\ <<pc[Main], pc'[Main]>> \in {<<"fetch", "lock">>, <<"print", "redraw">>} => shown
        /\ <<pc[Main], pc'[Main]>> \in {<<"fetch", "print">>, <<"print", "fetch">>} => ~shown
    <2>1. PICK step \in Steps :
            /\ Go(Main, step[1], step[2])
            /\ step \in {<<"fetch", "lock">>, <<"print", "redraw">>} => shown
            /\ step \in {<<"fetch", "print">>, <<"print", "fetch">>} => ~shown
      BY DEF Warn, Interrupt, Warning, StepAside, PrintWarning, ComeBack
    <2>2. step[2] \in Places /\ step = <<step[1], step[2]>>
      BY DEF Places
    <2> QED
      BY <1>0, <2>1, <2>2, GoneTo
  <1>3. /\ row' = last' /\ ~spoiled' /\ row' \in 0 .. MaxWidth /\ spoiled' \in BOOLEAN
        /\ last' # last => shown
        /\ pc'[Main] \in {"print", "redraw"} => last' = 0
    <2>1. CASE Warn \/ Interrupt
      BY <1>2, <2>1, RowStays DEF Warn, Interrupt, RowKnown, Quiet, Go
    <2>2. CASE StepAside
      <3>1. pc[Main] = "erase" /\ shown
        BY <2>2 DEF StepAside, Go, LockHeld
      <3>2. last \in Nat
        BY DEF LineTypeOK
      <3> QED
        BY <2>2, <3>1, <3>2, RowStays DEF StepAside, RowKnown, Quiet
    <2>3. CASE PrintWarning
      <3>1. last = 0 /\ last' = 0 /\ PrintLine
        BY <2>3 DEF PrintWarning, PrintLine, Go, RowKnown
      <3> QED
        BY <3>1, RowStays DEF RowKnown
    <2>4. CASE ComeBack
      <3>1. shown /\ pc'[Main] = "fetch"
        BY <1>0, <2>4, GoneTo DEF ComeBack, Go, LockHeld, LineTypeOK
      <3> QED
        BY <2>4, <3>1, RowStays DEF ComeBack, RowKnown
    <2> QED
      BY <2>1, <2>2, <2>3, <2>4 DEF Warning
  <1>4. /\ mu' \in Thread \cup {Nobody}
        /\ \/ mu' = mu /\ pc[Main] \in {"fetch", "erase", "print"}
           \/ mu = Nobody /\ mu' = Main /\ pc[Main] = "lock"
           \/ mu = Main /\ mu' = Nobody /\ pc[Main] = "redraw"
    <2>1. CASE Warn \/ StepAside \/ PrintWarning
      BY <2>1 DEF Warn, StepAside, PrintWarning, LineTypeOK, Go
    <2>2. CASE Interrupt
      BY <1>0, <2>2 DEF Interrupt, Acquire, Go
    <2>3. CASE ComeBack
      BY <1>0, <2>3 DEF ComeBack, Go, LockHeld, LineTypeOK
    <2> QED
      BY <2>1, <2>2, <2>3 DEF Warning
  <1>5. LineTypeOK' /\ total' <= work'
    <2>1. \/ work' = work /\ total' = total
          \/ work < MaxWork /\ work' = work + 1 /\ total' \in {total, total + 1}
      BY DEF Warn, Interrupt, Warning, StepAside, PrintWarning, ComeBack, Tell
    <2> QED
      BY <1>1, <1>2, <1>3, <1>4, <2>1, StepTyped
  <1>6. LockHeld'
    BY <1>0, <1>1, <1>2, <1>4 DEF LockHeld, Thread
  <1>7. RotorOver'
    BY <1>1, <1>2 DEF RotorOver
  <1>8. RowKnown'
    BY <1>1, <1>2, <1>3 DEF RowKnown
  <1> QED
    BY <1>5, <1>6, <1>7, <1>8

LEMMA CallerInv ==
  ASSUME LineInv, Clearing \/ Calling
  PROVE  LineInv'
  <1> USE ProgressAssumption DEF LineInv
  <1> DEFINE Steps == {<<"new", "take">>, <<"new", "account">>, <<"new", "fetch">>,
                       <<"fetch", "take">>, <<"fetch", "account">>, <<"take", "close">>,
                       <<"take", "wipe">>, <<"close", "wait">>, <<"wait", "wipe">>,
                       <<"wipe", "account">>, <<"account", "ended">>}
  <1>0. Main \in Thread /\ Rotor \in Thread /\ Main # Rotor
    BY DEF Thread
  <1>1. /\ UNCHANGED <<shown, mu, done, total, work>>
        /\ up' \in BOOLEAN /\ stop' \in BOOLEAN /\ done' \in BOOLEAN /\ mu' \in Thread \cup {Nobody}
    BY DEF Clearing, Calling, TakeChannels, Wipe, Skip, Start, Fetched, CloseStop, AwaitRotor,
           Account, LineTypeOK
  <1>2. /\ pc' \in [Thread -> Places]
        /\ <<pc[Main], pc'[Main]>> \in Steps
        /\ \/ pc'[Rotor] = pc[Rotor] /\ pc'[Main] # "fetch" /\ up' \in {up, FALSE}
           \/ pc'[Rotor] = (IF shown THEN "select" ELSE pc[Rotor]) /\ pc'[Main] = "fetch" /\ up' = shown
    <2>1. CASE Start
      <3>1. pc[Main] = "new" /\ pc'[Main] = "fetch" /\ up' = shown
            /\ pc'[Rotor] = IF shown THEN "select" ELSE pc[Rotor]
        BY <1>0, <2>1 DEF Start, LineTypeOK
      <3>2. "fetch" \in Places /\ "select" \in Places
        BY DEF Places
      <3>3. pc' \in [Thread -> Places]
        BY <2>1, <3>2 DEF Start, LineTypeOK
      <3> QED
        BY <3>1, <3>3
    <2>2. CASE ~Start
      <3>1. PICK step \in Steps : Go(Main, step[1], step[2]) /\ step[2] # "fetch"
        BY <2>2 DEF Clearing, Calling, TakeChannels, Wipe, Skip, Fetched, CloseStop, AwaitRotor, Account
      <3>2. step[2] \in Places /\ step = <<step[1], step[2]>>
        BY DEF Places
      <3>3. up' \in {up, FALSE}
        BY <2>2 DEF Clearing, Calling, TakeChannels, Wipe, Skip, Fetched, CloseStop, AwaitRotor, Account
      <3> QED
        BY <1>0, <3>1, <3>2, <3>3, GoneTo
    <2> QED
      BY <2>1, <2>2
  <1>3. /\ <<pc[Main], pc'[Main]>> \in {<<"new", "account">>, <<"fetch", "account">>} => ~shown
        /\ pc[Main] = "take" => (pc'[Main] = "close" /\ up) \/ (pc'[Main] = "wipe" /\ ~up)
        /\ pc[Main] = "wait" => done
        /\ pc[Main] \notin {"new", "take"} => up' = up
        /\ pc[Main] = "new" /\ pc'[Main] # "fetch" => up' = up
    <2>1. CASE Skip \/ Fetched
      BY <1>0, <2>1 DEF Skip, Fetched, Go, LineTypeOK
    <2>2. CASE Start
      BY <1>0, <1>2, <2>2 DEF Start
    <2>3. CASE Clearing
      BY <1>0, <2>3 DEF Clearing, TakeChannels, Wipe, Go, LineTypeOK
    <2>4. CASE CloseStop \/ AwaitRotor \/ Account
      BY <1>0, <2>4 DEF CloseStop, AwaitRotor, Account, Go, LineTypeOK
    <2> QED
      BY <2>1, <2>2, <2>3, <2>4 DEF Calling
  <1>4. /\ row' = last' /\ ~spoiled' /\ row' \in 0 .. MaxWidth /\ spoiled' \in BOOLEAN
        /\ last' # last => shown
        /\ pc'[Main] \in {"account", "ended"} => last' = 0
    <2>1. CASE Start
      <3>1. pc'[Main] = "fetch"
        BY <1>0, <2>1 DEF Start, LineTypeOK
      <3> QED
        BY <2>1, <3>1, RowStays DEF Start, RowKnown, Quiet
    <2>2. CASE Wipe
      <3>1. last \in Nat
        BY DEF LineTypeOK
      <3>2. last > 0 => shown
        BY DEF RowKnown
      <3> QED
        BY <2>2, <3>1, <3>2, RowStays DEF Wipe, RowKnown, Quiet
    <2>3. CASE Account
      <3>1. last = 0 /\ last' = 0 /\ (PrintLine \/ Quiet)
        BY <2>3 DEF Account, PrintLine, Quiet, Go, RowKnown
      <3> QED
        BY <3>1, RowStays DEF RowKnown
    <2>4. CASE Skip \/ Fetched \/ TakeChannels \/ CloseStop \/ AwaitRotor
      <3>1. Quiet /\ pc[Main] \notin {"wipe", "account"}
        BY <2>4 DEF Skip, Fetched, TakeChannels, CloseStop, AwaitRotor, Go
      <3>2. last' = last
        BY <3>1 DEF Quiet
      <3>3. pc'[Main] \in {"account", "ended"} => ~shown
        BY <1>2, <1>3, <3>1
      <3> QED
        BY <3>1, <3>2, <3>3, RowStays DEF RowKnown
    <2> QED
      BY <2>1, <2>2, <2>3, <2>4 DEF Clearing, Calling
  <1>5. LineTypeOK' /\ total' <= work'
    BY <1>1, <1>2, <1>4, StepTyped
  <1>6. LockHeld'
    BY <1>0, <1>1, <1>2 DEF LockHeld, RotorOver
  <1>7. RotorOver'
    <2>1. shown' = shown /\ done' = done
      BY <1>1
    <2>2. CASE pc'[Main] = "fetch"
      BY <1>2, <2>1, <2>2 DEF RotorOver
    <2>3. CASE pc'[Main] # "fetch"
      <3>1. pc'[Rotor] = pc[Rotor]
        BY <1>2, <2>3
      <3> QED
        BY <1>2, <1>3, <2>1, <2>3, <3>1 DEF RotorOver
    <2> QED
      BY <2>2, <2>3
  <1>8. RowKnown'
    BY <1>1, <1>2, <1>4 DEF RowKnown
  <1> QED
    BY <1>5, <1>6, <1>7, <1>8

LEMMA LineNextInv == LineInv /\ [LineNext]_lineVars => LineInv'
  <1> SUFFICES ASSUME LineInv, [LineNext]_lineVars PROVE LineInv'
    OBVIOUS
  <1>1. CASE UNCHANGED lineVars
    BY <1>1 DEF lineVars, LineInv, LineTypeOK, LockHeld, RotorOver, RowKnown
  <1>2. CASE LineNext
    BY <1>2, WorkersInv, RotorInv, WarningInv, CallerInv DEF LineNext
  <1> QED
    BY <1>1, <1>2

(* Any number of fetch goroutines, a line of any width: the variables of   *)
(* the progress line keep their types, and no more was counted than told.  *)
THEOREM LineTypeCorrect == LineSpec => []LineTypeOK
  <1>1. LineInv => LineTypeOK
    BY DEF LineInv
  <1> QED
    BY <1>1, LineInitInv, LineNextInv, PTL DEF LineSpec

(* Nothing is printed on the progress line, what it shows is always known, *)
(* and the report begins on an empty row with the rotor gone.              *)
THEOREM RowStaysClean == LineSpec => []RowIsClean
  <1>1. LineInv => RowIsClean
    BY DEF LineInv, RowKnown, RotorOver, RowIsClean
  <1> QED
    BY <1>1, LineInitInv, LineNextInv, PTL DEF LineSpec

=============================================================================
