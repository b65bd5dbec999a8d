---------------------------- MODULE ReportProofs ----------------------------
(***************************************************************************)
(* From the findings to the page, for every set of controls, every number  *)
(* of jobs and every cap: the order enumerates what it sorts, nothing that *)
(* needs doing is hidden, a clean page is clean, a cap keeps the worst and *)
(* the advice fits what was found.                                         *)
(***************************************************************************)
EXTENDS Report, FiniteSetTheorems, TLAPS

-----------------------------------------------------------------------------
(* Orders                                                                  *)

(* A set of numbers that is not empty has a least: of the intervals that   *)
(* end in it, one strictly contains no other.                              *)
LEMMA Least ==
  ASSUME NEW T \in SUBSET Nat, T # {}
  PROVE  \E m \in T : \A k \in T : m <= k
  <1> DEFINE UpTo == {0 .. m : m \in T}
  <1>1. UpTo \subseteq FiniteSubsetsOf(Nat) /\ UpTo # {}
    <2>1. \A m \in T : 0 .. m \in SUBSET Nat /\ IsFiniteSet(0 .. m)
      BY FS_Interval
    <2> QED
      BY <2>1 DEF FiniteSubsetsOf
  <1>2. PICK s \in UpTo : \A t \in UpTo : ~(<<t, s>> \in StrictSubsetOrdering(Nat))
    <2>1. IsWellFoundedOn(StrictSubsetOrdering(Nat), FiniteSubsetsOf(Nat))
      BY FS_StrictSubsetOrderingWellFounded
    <2> QED
      BY <1>1, <2>1, WFMin
  <1>3. PICK m \in T : s = 0 .. m
    OBVIOUS
  <1>4. ASSUME NEW k \in T, ~(m <= k) PROVE FALSE
    <2>1. 0 .. k \in UpTo /\ 0 .. k \in SUBSET Nat /\ 0 .. m \in SUBSET Nat
      OBVIOUS
    <2>2. 0 .. k \subseteq 0 .. m /\ m \in 0 .. m /\ m \notin 0 .. k
      BY <1>4
    <2> HIDE DEF UpTo
    <2>3. <<0 .. k, 0 .. m>> \in StrictSubsetOrdering(Nat)
      BY <2>1, <2>2 DEF StrictSubsetOrdering
    <2> QED
      BY <1>2, <1>3, <2>1, <2>3
  <1> QED
    BY <1>4

Keys(n) == [1 .. n -> Int]

LEMMA KeysAreOrdered ==
  ASSUME NEW n \in Nat, NEW a \in Keys(n), NEW b \in Keys(n), NEW c \in Keys(n)
  PROVE  /\ ~LessKey(a, a)
         /\ LessKey(a, b) /\ LessKey(b, c) => LessKey(a, c)
         /\ a # b => LessKey(a, b) \/ LessKey(b, a)
  <1> USE DEF Keys
  <1>0. /\ DOMAIN a = 1 .. n /\ DOMAIN b = 1 .. n /\ DOMAIN c = 1 .. n
        /\ \A i \in 1 .. n : a[i] \in Int /\ b[i] \in Int /\ c[i] \in Int
    OBVIOUS
  <1>1. ~LessKey(a, a)
    BY DEF LessKey
  <1>2. ASSUME LessKey(a, b), LessKey(b, c) PROVE LessKey(a, c)
    <2>1. PICK i \in 1 .. n : a[i] < b[i] /\ \A k \in 1 .. i - 1 : a[k] = b[k]
      BY <1>2 DEF LessKey
    <2>2. PICK j \in 1 .. n : b[j] < c[j] /\ \A k \in 1 .. j - 1 : b[k] = c[k]
      BY <1>2 DEF LessKey
    <2>3. CASE i <= j
      <3>1. \A k \in 1 .. i - 1 : k \in 1 .. j - 1
        BY <2>3
      <3>2. \A k \in 1 .. i - 1 : a[k] = c[k]
        BY <2>1, <2>2, <3>1
      <3>3. i < j => b[i] = c[i]
        BY <2>2
      <3>4. a[i] < c[i]
        BY <1>0, <2>1, <2>2, <2>3, <3>3
      <3> QED
        BY <1>0, <3>2, <3>4 DEF LessKey
    <2>4. CASE j < i
      <3>1. \A k \in 1 .. j - 1 : k \in 1 .. i - 1
        BY <2>4
      <3>2. \A k \in 1 .. j - 1 : a[k] = c[k]
        BY <2>1, <2>2, <3>1
      <3>3. a[j] = b[j]
        BY <2>1, <2>4
      <3> QED
        BY <1>0, <2>2, <3>2, <3>3 DEF LessKey
    <2> QED
      BY <2>1, <2>2, <2>3, <2>4
  <1>3. ASSUME a # b PROVE LessKey(a, b) \/ LessKey(b, a)
    <2> DEFINE Differ == {i \in 1 .. n : a[i] # b[i]}
    <2>1. Differ \in SUBSET Nat /\ Differ # {}
      <3>1. (\A i \in 1 .. n : a[i] = b[i]) => a = b
        OBVIOUS
      <3>2. PICK i \in 1 .. n : a[i] # b[i]
        BY <1>3, <3>1
      <3>3. i \in Differ
        BY <3>2
      <3>4. Differ \in SUBSET Nat
        OBVIOUS
      <3> QED
        BY <3>3, <3>4
    <2>2. PICK i \in Differ : \A k \in Differ : i <= k
      BY <2>1, Least
    <2>3. \A k \in 1 .. i - 1 : a[k] = b[k]
      BY <2>2
    <2>4. i \in 1 .. n /\ (a[i] < b[i] \/ b[i] < a[i])
      BY <1>0, <2>2
    <2> QED
      BY <1>0, <2>3, <2>4 DEF LessKey
  <1> QED
    BY <1>1, <1>2, <1>3

(* The members of a finite set, by keys that all differ: sorted, it is a   *)
(* sequence in which each of them occurs, in the order of the keys.        *)
LEMMA Enumerates ==
  ASSUME NEW S, IsFiniteSet(S), NEW n \in Nat, NEW key \in [S -> Keys(n)],
         \A x, y \in S : key[x] = key[y] => x = y
  PROVE  LET s == Sorted(S, key) IN
         /\ Cardinality(S) \in Nat
         /\ s \in Seq(S)
         /\ Len(s) = Cardinality(S)
         /\ DOMAIN s = 1 .. Cardinality(S)
         /\ \A x \in S : \E i \in DOMAIN s : s[i] = x
         /\ \A i, j \in DOMAIN s : i < j <=> LessKey(key[s[i]], key[s[j]])
  <1> DEFINE N == Cardinality(S)
             Before(x) == {y \in S : LessKey(key[y], key[x])}
             rank == [x \in S |-> Cardinality(Before(x))]
             s == Sorted(S, key)
  <1>1. /\ \A x \in S : ~LessKey(key[x], key[x])
        /\ \A x, y, z \in S :
             LessKey(key[x], key[y]) /\ LessKey(key[y], key[z]) => LessKey(key[x], key[z])
        /\ \A x, y \in S : x # y => LessKey(key[x], key[y]) \/ LessKey(key[y], key[x])
    <2>1. \A x \in S : key[x] \in Keys(n)
      OBVIOUS
    <2>2. \A x \in S : ~LessKey(key[x], key[x])
      BY <2>1, KeysAreOrdered
    <2>3. ASSUME NEW x \in S, NEW y \in S, NEW z \in S
          PROVE  /\ LessKey(key[x], key[y]) /\ LessKey(key[y], key[z]) => LessKey(key[x], key[z])
                 /\ x # y => LessKey(key[x], key[y]) \/ LessKey(key[y], key[x])
      <3>1. x # y => key[x] # key[y]
        OBVIOUS
      <3> QED
        BY <2>1, <3>1, KeysAreOrdered
    <2> QED
      BY <2>2, <2>3
  <1>2. N \in Nat
    BY FS_CardinalityType
  <1>3. \A x \in S : Before(x) \in SUBSET S /\ IsFiniteSet(Before(x)) /\ rank[x] \in Nat
    <2> TAKE x \in S
    <2>1. Before(x) \in SUBSET S
      OBVIOUS
    <2>2. IsFiniteSet(Before(x))
      BY <2>1, FS_Subset
    <2>3. Cardinality(Before(x)) \in Nat
      BY <2>2, FS_CardinalityType
    <2> QED
      BY <2>1, <2>2, <2>3
  <1>4. \A x \in S : rank[x] \in 0 .. N - 1
    <2> TAKE x \in S
    <2>1. x \notin Before(x)
      BY <1>1
    <2>2. Cardinality(Before(x)) <= N /\ Cardinality(Before(x)) # N
      BY <1>3, <2>1, FS_Subset
    <2>3. rank[x] = Cardinality(Before(x))
      OBVIOUS
    <2> HIDE DEF N, Before, rank
    <2> QED
      BY <1>2, <1>3, <2>2, <2>3
  <1>5. \A x, y \in S : LessKey(key[x], key[y]) => rank[x] < rank[y]
    <2> TAKE x \in S, y \in S
    <2> SUFFICES ASSUME LessKey(key[x], key[y]) PROVE rank[x] < rank[y]
      OBVIOUS
    <2>1. Before(x) \in SUBSET Before(y) /\ x \in Before(y) /\ x \notin Before(x)
      BY <1>1
    <2>2. /\ Cardinality(Before(x)) <= Cardinality(Before(y))
          /\ Cardinality(Before(x)) # Cardinality(Before(y))
      BY <1>3, <2>1, FS_Subset
    <2>3. rank[x] = Cardinality(Before(x)) /\ rank[y] = Cardinality(Before(y))
      OBVIOUS
    <2> HIDE DEF Before, rank
    <2> QED
      BY <1>3, <2>2, <2>3
  <1>6. ASSUME NEW x \in S, NEW y \in S
        PROVE  /\ rank[x] < rank[y] <=> LessKey(key[x], key[y])
               /\ rank[x] = rank[y] => x = y
    <2>1. /\ LessKey(key[x], key[y]) => rank[x] < rank[y]
          /\ LessKey(key[y], key[x]) => rank[y] < rank[x]
          /\ x # y => LessKey(key[x], key[y]) \/ LessKey(key[y], key[x])
          /\ rank[x] \in Nat /\ rank[y] \in Nat
      BY <1>1, <1>3, <1>5
    <2> HIDE DEF rank
    <2> QED
      BY <2>1
  <1>7. ASSUME NEW x \in S, NEW y \in S, rank[x] = rank[y] PROVE x = y
    BY <1>6, <1>7
  <1>8. \A i \in 1 .. N : \E x \in S : rank[x] = i - 1
    <2>1. IsFiniteSet(0 .. N - 1) /\ Cardinality(0 .. N - 1) = N
      <3> HIDE DEF N
      <3>1. N - 1 \in Int
        BY <1>2
      <3> QED
        BY <1>2, <3>1, FS_Interval
    <2>2. rank \in [S -> 0 .. N - 1]
      BY <1>4
    <2> HIDE DEF rank
    <2>3. rank \in Injection(S, 0 .. N - 1)
      BY <1>7, <2>2 DEF Injection, IsInjective
    <2>4. rank \in Surjection(S, 0 .. N - 1)
      BY <2>1, <2>3, FS_Injection
    <2> HIDE DEF N
    <2>5. \A k \in 0 .. N - 1 : \E x \in S : rank[x] = k
      BY <2>4 DEF Surjection
    <2> QED
      BY <1>2, <2>5
  <1>9. \A i \in 1 .. N : s[i] \in S /\ rank[s[i]] = i - 1
    <2> TAKE i \in 1 .. N
    <2>1. s[i] = CHOOSE x \in S : Cardinality(Before(x)) = i - 1
      BY DEF Sorted
    <2>2. \E x \in S : Cardinality(Before(x)) = i - 1
      BY <1>8
    <2>3. s[i] \in S /\ Cardinality(Before(s[i])) = i - 1
      BY <2>1, <2>2
    <2> QED
      BY <2>3
  <1>10. DOMAIN s = 1 .. N
    BY DEF Sorted
  <1>11. s \in [1 .. N -> S]
    BY <1>9 DEF Sorted
  <1> HIDE DEF N, rank, s, Before
  <1>12. s \in Seq(S) /\ Len(s) = N
    BY <1>2, <1>11
  <1>13. ASSUME NEW x \in S PROVE \E i \in 1 .. N : s[i] = x
    <2>1. rank[x] \in 0 .. N - 1
      BY <1>4
    <2>2. PICK i \in 1 .. N : rank[x] = i - 1
      <3>1. \A k \in 0 .. N - 1 : \E i \in 1 .. N : k = i - 1
        <4> TAKE k \in 0 .. N - 1
        <4>1. k + 1 \in 1 .. N /\ k = (k + 1) - 1
          BY <1>2
        <4> QED
          BY <4>1
      <3> QED
        BY <2>1, <3>1
    <2>3. s[i] \in S /\ rank[s[i]] = i - 1
      BY <1>9
    <2> QED
      <3>1. s[i] = x
        BY <1>7, <2>2, <2>3
      <3> QED
        BY <3>1
  <1>14. ASSUME NEW i \in 1 .. N, NEW j \in 1 .. N
         PROVE  i < j <=> LessKey(key[s[i]], key[s[j]])
    <2>1. s[i] \in S /\ s[j] \in S /\ rank[s[i]] = i - 1 /\ rank[s[j]] = j - 1
      BY <1>9
    <2>2. rank[s[i]] < rank[s[j]] <=> LessKey(key[s[i]], key[s[j]])
      BY <1>6, <2>1
    <2> QED
      BY <2>1, <2>2
  <1> QED
    BY <1>2, <1>10, <1>12, <1>13, <1>14 DEF N, s

(* The first of a finite set that is not empty.                            *)
LEMMA First ==
  ASSUME NEW S, IsFiniteSet(S), S # {}, NEW n \in Nat, NEW key \in [S -> Keys(n)],
         \A x, y \in S : key[x] = key[y] => x = y
  PROVE  \E m \in S : \A y \in S : ~LessKey(key[y], key[m])
  <1> DEFINE s == Sorted(S, key)
  <1>1. /\ Cardinality(S) \in Nat
        /\ s \in Seq(S)
        /\ DOMAIN s = 1 .. Cardinality(S)
        /\ \A x \in S : \E i \in DOMAIN s : s[i] = x
        /\ \A i, j \in DOMAIN s : i < j <=> LessKey(key[s[i]], key[s[j]])
    BY Enumerates
  <1> HIDE DEF s
  <1>2. 1 \in DOMAIN s
    BY <1>1
  <1>3. s[1] \in S
    BY <1>1, <1>2
  <1>4. ASSUME NEW y \in S PROVE ~LessKey(key[y], key[s[1]])
    <2>1. PICK i \in DOMAIN s : s[i] = y
      BY <1>1
    <2>2. ~(i < 1)
      BY <1>1
    <2> QED
      BY <1>1, <1>2, <2>1, <2>2
  <1> QED
    BY <1>3, <1>4

(* The first ones by their keys, as many as a cap allows: what is withheld *)
(* comes after all that is kept, and is as much as is counted.             *)
Kept(s, cap) == {s[i] : i \in DOMAIN s \cap 1 .. cap}

LEMMA Capped ==
  ASSUME NEW S, IsFiniteSet(S), NEW n \in Nat, NEW key \in [S -> Keys(n)],
         \A x, y \in S : key[x] = key[y] => x = y, NEW cap \in Nat
  PROVE  LET s == Sorted(S, key)
             kept == Kept(s, cap)
         IN  /\ kept \subseteq S
             /\ IsFiniteSet(S \ kept)
             /\ Cardinality(S \ kept) = Len(s) - Cardinality(kept)
             /\ \A x \in kept, y \in S \ kept : LessKey(key[x], key[y])
  <1> DEFINE s == Sorted(S, key)
             kept == Kept(s, cap)
  <1> USE DEF Kept
  <1>1. /\ Cardinality(S) \in Nat
        /\ s \in Seq(S)
        /\ Len(s) = Cardinality(S)
        /\ DOMAIN s = 1 .. Cardinality(S)
        /\ \A x \in S : \E i \in DOMAIN s : s[i] = x
        /\ \A i, j \in DOMAIN s : i < j <=> LessKey(key[s[i]], key[s[j]])
    BY Enumerates
  <1> HIDE DEF s
  <1>2. kept \subseteq S
    BY <1>1
  <1>3. /\ IsFiniteSet(S \ kept)
        /\ Cardinality(S \ kept) = Cardinality(S) - Cardinality(S \cap kept)
    BY FS_Difference
  <1>4. S \cap kept = kept
    BY <1>2
  <1>5. ASSUME NEW x \in kept, NEW y \in S \ kept PROVE LessKey(key[x], key[y])
    <2>1. PICK i \in DOMAIN s : s[i] = x /\ i <= cap
      OBVIOUS
    <2>2. PICK j \in DOMAIN s : s[j] = y
      BY <1>1
    <2>3. j \notin 1 .. cap
      BY <2>2
    <2>4. i < j
      BY <1>1, <2>1, <2>3
    <2> QED
      BY <1>1, <2>1, <2>2, <2>4
  <1> QED
    BY <1>1, <1>2, <1>3, <1>4, <1>5 DEF s

(* No more values than places they come from.                              *)
LEMMA NoMoreThan ==
  ASSUME NEW S, IsFiniteSet(S), NEW f, NEW T, T \subseteq {f[x] : x \in S}
  PROVE  IsFiniteSet(T) /\ Cardinality(T) <= Cardinality(S)
  <1> DEFINE U == {f[x] : x \in S}
             g == [x \in S |-> f[x]]
  <1>1. g \in Surjection(S, U)
    BY DEF Surjection
  <1>2. IsFiniteSet(U) /\ Cardinality(U) <= Cardinality(S)
    BY <1>1, FS_Surjection
  <1>3. T \in SUBSET U
    OBVIOUS
  <1>4. IsFiniteSet(T) /\ Cardinality(T) <= Cardinality(U)
    BY <1>2, <1>3, FS_Subset
  <1>5. Cardinality(S) \in Nat /\ Cardinality(T) \in Nat /\ Cardinality(U) \in Nat
    BY <1>2, <1>4, FS_CardinalityType
  <1> QED
    BY <1>2, <1>4, <1>5

-----------------------------------------------------------------------------
(* Findings                                                                *)

(* A finding is about a control and a resource it applies to, its status   *)
(* one the control can give; there is one for each such pair.              *)
IsFinding(f) ==
  /\ f.control \in Control
  /\ f.resource \in Nat
  /\ f.status \in {"FAIL", "MANUAL", "PASS", "NA"}
  /\ f.waived \in BOOLEAN
  /\ Checks[f.control].scope # "job" => f.resource = InstanceResourceName
  /\ ~Checks[f.control].automated => f.status \in {"MANUAL", "NA"}

Judged(fs) ==
  /\ IsFiniteSet(fs)
  /\ \A f \in fs : IsFinding(f)
  /\ \A f, g \in fs : f.control = g.control /\ f.resource = g.resource => f = g

LEMMA SomeAreJudged ==
  ASSUME NEW fs, NEW gs, gs \subseteq fs, Judged(fs)
  PROVE  Judged(gs)
  BY FS_Subset DEF Judged

LEMMA ChecksType ==
  ASSUME NEW c \in Control
  PROVE  /\ c \in Nat
         /\ Checks[c].cis \in Nat
         /\ Checks[c].automated \in BOOLEAN
         /\ Checks[c].scope \in {"controller", "job"}
         /\ Checks[c].severity \in {"LOW", "MEDIUM", "HIGH"}
  <1> DEFINE R == [cis: Nat, severity: {"LOW", "MEDIUM", "HIGH"}, automated: BOOLEAN,
                   scope: {"controller", "job"}, folder: BOOLEAN]
  <1>1. Checks \in Seq(R)
    BY ReportAssumption
  <1>2. Checks[c] \in R
    <2> HIDE DEF R
    <2> QED
      BY <1>1 DEF Control
  <1>3. c \in Nat
    <2> HIDE DEF R
    <2> QED
      BY <1>1 DEF Control
  <1> QED
    BY <1>2, <1>3

LEMMA RanksType ==
  ASSUME NEW f, IsFinding(f)
  PROVE  /\ StatusRank(f) \in 0 .. 3
         /\ Weight(f) \in 1 .. 3
         /\ f.status = "FAIL" => StatusRank(f) = 0
         /\ f.status = "MANUAL" => StatusRank(f) = 1
         /\ f.status \notin {"FAIL", "MANUAL"} => StatusRank(f) > 1
  <1>1. Weight(f) \in 1 .. 3
    BY ChecksType DEF Weight, IsFinding
  <1>2. /\ StatusRank(f) \in 0 .. 3
        /\ f.status = "FAIL" => StatusRank(f) = 0
        /\ f.status = "MANUAL" => StatusRank(f) = 1
        /\ f.status \notin {"FAIL", "MANUAL"} => StatusRank(f) > 1
    BY DEF StatusRank, IsFinding
  <1> QED
    BY <1>1, <1>2

(* Two findings of a report never compare as equal.                        *)
LEMMA FindingsCompare ==
  ASSUME NEW fs, Judged(fs)
  PROVE  /\ [f \in fs |-> FindingKey(f)] \in [fs -> Keys(6)]
         /\ \A f, g \in fs : FindingKey(f) = FindingKey(g) => f = g
  <1>1. ASSUME NEW f \in fs PROVE FindingKey(f) \in Keys(6)
    <2>1. /\ StatusRank(f) \in Int /\ -Weight(f) \in Int /\ Checks[f.control].cis \in Int
          /\ f.resource \in Int /\ f.control \in Int
      BY RanksType, ChecksType DEF Judged, IsFinding
    <2> HIDE DEF StatusRank, Weight
    <2> QED
      BY <2>1 DEF FindingKey, Keys
  <1>2. ASSUME NEW f \in fs, NEW g \in fs, FindingKey(f) = FindingKey(g) PROVE f = g
    <2>1. f.resource = g.resource /\ f.control = g.control
      BY <1>2 DEF FindingKey
    <2> QED
      BY <2>1 DEF Judged
  <1> QED
    BY <1>1, <1>2

(* Each control of a set of findings has a first one in it.                *)
LEMMA FirstFinding ==
  ASSUME NEW fs, Judged(fs), fs # {}
  PROVE  \E f \in fs : \A g \in fs : ~LessKey(FindingKey(g), FindingKey(f))
  <1> DEFINE key == [f \in fs |-> FindingKey(f)]
  <1>1. key \in [fs -> Keys(6)] /\ \A f, g \in fs : key[f] = key[g] => f = g
    BY FindingsCompare
  <1>2. \A f \in fs : key[f] = FindingKey(f)
    OBVIOUS
  <1>3. IsFiniteSet(fs)
    BY DEF Judged
  <1> HIDE DEF key
  <1>4. PICK m \in fs : \A g \in fs : ~LessKey(key[g], key[m])
    BY <1>1, <1>3, First
  <1> QED
    BY <1>2, <1>4

-----------------------------------------------------------------------------
(* What is in a report                                                     *)

Cells == Control \X (Job \cup {InstanceResourceName})

ReportInv ==
  /\ toJudge \subseteq Cells
  /\ \A cell \in toJudge : Checks[cell[1]].scope # "job" => cell[2] = InstanceResourceName
  /\ Judged(found)
  /\ \A f \in found : <<f.control, f.resource>> \notin toJudge
  /\ coverage.jobs \in Nat /\ coverage.errors \in Nat /\ coverage.unlisted \in Nat
  /\ phase \in {"judging", "evaluated", "rendered", "refused"}
  /\ phase # "judging" => findings = Sorted(found, [f \in found |-> FindingKey(f)])
  /\ phase = "rendered" => options \in Options /\ page = Page(options)

LEMMA ReportInitInv == Init => ReportInv
  <1> SUFFICES ASSUME Init PROVE ReportInv
    OBVIOUS
  <1>1. PICK jobs \in SUBSET Job :
          /\ toJudge = {cell \in Cells : IF Checks[cell[1]].scope = "job" THEN cell[2] \in jobs
                                                        ELSE cell[2] = InstanceResourceName}
          /\ coverage \in [complete: {TRUE}, unlisted: {0}, jobs: {Cardinality(jobs)}, errors: {0, 1}]
               \cup [complete: {FALSE}, unlisted: {0, 2}, jobs: {Cardinality(jobs)}, errors: {0}]
    BY DEF Init, Cells
  <1>2. Cardinality(jobs) \in Nat
    BY ReportAssumption, FS_Subset, FS_CardinalityType
  <1>3. coverage.jobs \in Nat /\ coverage.errors \in Nat /\ coverage.unlisted \in Nat
    <2> DEFINE k == Cardinality(jobs)
    <2>1. \/ coverage \in [complete: {TRUE}, unlisted: {0}, jobs: {k}, errors: {0, 1}]
          \/ coverage \in [complete: {FALSE}, unlisted: {0, 2}, jobs: {k}, errors: {0}]
      BY <1>1
    <2>2. k \in Nat
      BY <1>2
    <2> HIDE DEF k
    <2>3. coverage.jobs = k /\ coverage.errors \in {0, 1} /\ coverage.unlisted \in {0, 2}
      <3>1. CASE coverage \in [complete: {TRUE}, unlisted: {0}, jobs: {k}, errors: {0, 1}]
        BY <3>1
      <3>2. CASE coverage \in [complete: {FALSE}, unlisted: {0, 2}, jobs: {k}, errors: {0}]
        BY <3>2
      <3> QED
        BY <2>1, <3>1, <3>2
    <2> QED
      BY <2>2, <2>3
  <1>4. toJudge \subseteq Cells
        /\ \A cell \in toJudge : Checks[cell[1]].scope # "job" => cell[2] = InstanceResourceName
    BY <1>1
  <1>5. Judged(found)
    BY FS_EmptySet DEF Init, Judged
  <1> QED
    BY <1>3, <1>4, <1>5 DEF Init, ReportInv

LEMMA JudgeInv == ReportInv /\ Judge => ReportInv'
  <1> SUFFICES ASSUME ReportInv, Judge PROVE ReportInv'
    OBVIOUS
  <1> USE DEF ReportInv
  <1>1. PICK cell \in toJudge : /\ \E result \in Results(cell[1]) :
                                     found' = found \cup {Finding(cell[1], cell[2], result)}
                                /\ toJudge' = toJudge \ {cell}
    BY DEF Judge
  <1>2. PICK result \in Results(cell[1]) : found' = found \cup {Finding(cell[1], cell[2], result)}
    BY <1>1
  <1> DEFINE new == Finding(cell[1], cell[2], result)
  <1>3. /\ cell = <<cell[1], cell[2]>> /\ cell[1] \in Control
        /\ cell[2] \in Job \cup {InstanceResourceName}
    BY DEF Cells
  <1>4. cell[2] \in Nat
    BY <1>3, ReportAssumption
  <1>5. /\ result.status \in {"FAIL", "MANUAL", "PASS", "NA"}
        /\ result.waived \in BOOLEAN
        /\ ~Checks[cell[1]].automated => result.status \in {"MANUAL", "NA"}
    BY DEF Results
  <1>6. /\ new.control = cell[1] /\ new.resource = cell[2] /\ new.status = result.status
        /\ new.waived = result.waived
    BY DEF Finding
  <1> HIDE DEF new
  <1>7. IsFinding(new)
    BY <1>3, <1>4, <1>5, <1>6 DEF IsFinding
  <1>8. Judged(found')
    <2>1. IsFiniteSet(found')
      BY <1>2, FS_AddElement DEF Judged, new
    <2>2. \A f \in found' : IsFinding(f)
      BY <1>2, <1>7 DEF Judged, new
    <2>3. \A f \in found : <<f.control, f.resource>> # <<cell[1], cell[2]>>
      BY <1>3
    <2>4. \A f, g \in found' : f.control = g.control /\ f.resource = g.resource => f = g
      BY <1>2, <1>6, <2>3 DEF Judged, new
    <2> QED
      BY <2>1, <2>2, <2>4 DEF Judged
  <1>9. \A f \in found' : <<f.control, f.resource>> \notin toJudge'
    BY <1>1, <1>2, <1>3, <1>6 DEF new
  <1>10. /\ phase' = "judging" /\ coverage' = coverage
    BY DEF Judge
  <1> QED
    BY <1>1, <1>8, <1>9, <1>10

LEMMA SamePage ==
  ASSUME UNCHANGED <<findings, coverage>>
  PROVE  \A o : Page(o)' = Page(o)
  <1>1. All' = All
    BY DEF All
  <1>2. Caveats' = Caveats /\ ScanCases' = ScanCases
    BY DEF Caveats, ScanCases, ListCases, NoJobsAudited
  <1> QED
    BY <1>1, <1>2 DEF Page

LEMMA ReportNextInv == ReportInv /\ [Next]_vars => ReportInv'
  <1> SUFFICES ASSUME ReportInv, [Next]_vars PROVE ReportInv'
    OBVIOUS
  <1>1. CASE Judge
    BY <1>1, JudgeInv
  <1>2. CASE SortFindings
    BY <1>2 DEF SortFindings, ReportInv
  <1>3. ASSUME NEW o \in Options, Write(o) PROVE ReportInv'
    <2>1. /\ phase = "evaluated" /\ options' = o
          /\ UNCHANGED <<toJudge, found, findings, coverage>>
          /\ \/ phase' = "refused"
             \/ phase' = "rendered" /\ page' = Page(o)
      BY <1>3 DEF Write
    <2>2. phase' = "rendered" => page' = Page(o)'
      BY <2>1, SamePage
    <2> QED
      BY <1>3, <2>1, <2>2 DEF ReportInv
  <1>4. CASE UNCHANGED vars
    BY <1>4, SamePage DEF vars, ReportInv
  <1> QED
    BY <1>1, <1>2, <1>3, <1>4 DEF Next

(* Every reachable state of a report: one finding per cell that was        *)
(* judged, in one order, and a page that was made of them.                 *)
THEOREM ReportInvariance == Spec => []ReportInv
  <1> QED
    BY ReportInitInv, ReportNextInv, PTL DEF Spec

(* The sort loses no finding.                                              *)
LEMMA AllAreFound ==
  ASSUME ReportInv, phase # "judging"
  PROVE  Judged(All) /\ All = found
  <1> DEFINE key == [f \in found |-> FindingKey(f)]
             s == Sorted(found, key)
  <1>1. key \in [found -> Keys(6)] /\ \A f, g \in found : key[f] = key[g] => f = g
    BY FindingsCompare DEF ReportInv
  <1>2. IsFiniteSet(found)
    BY DEF ReportInv, Judged
  <1>3. findings = s
    BY DEF ReportInv
  <1> HIDE DEF key
  <1>4. s \in Seq(found) /\ \A x \in found : \E i \in DOMAIN s : s[i] = x
    BY <1>1, <1>2, Enumerates
  <1> HIDE DEF s
  <1>5. All = found
    BY <1>3, <1>4 DEF All
  <1> QED
    BY <1>5 DEF ReportInv

(* What a page is, by the format.                                          *)
LEMMA BodyIs ==
  ASSUME NEW fs, NEW o
  PROVE  /\ o.format = "table" /\ o.details => Body(fs, o) = DetailedTable(fs, o)
         /\ o.format = "table" /\ ~o.details => Body(fs, o) = Overview(fs, o)
         /\ o.format = "sarif" => Body(fs, o) = Sarif(fs)
         /\ o.format \notin {"table", "sarif"} => Body(fs, o) = Rendering(Singly(fs), 0)
  BY DEF Body

Fields == {"entries", "leftOut", "caveats", "fails", "manuals", "sweeps"}

LEMMA RenderingIs ==
  ASSUME NEW entries, NEW leftOut
  PROVE  LET r == Rendering(entries, leftOut) IN
         /\ DOMAIN r = Fields
         /\ r.entries = entries /\ r.leftOut = leftOut
         /\ r.fails = {} /\ r.manuals = {} /\ r.sweeps = {}
  BY DEF Rendering, Fields

LEMMA PageIs ==
  ASSUME ReportInv, phase = "rendered", DOMAIN Body(All, options) = Fields
  PROVE  LET body == Body(All, options) IN
         /\ page.entries = body.entries /\ page.leftOut = body.leftOut
         /\ page.fails = body.fails /\ page.manuals = body.manuals /\ page.sweeps = body.sweeps
         /\ page.caveats = IF options.format = "junit" THEN ScanCases ELSE Caveats
  <1> DEFINE body == Body(All, options)
             said == IF options.format = "junit" THEN ScanCases ELSE Caveats
  <1>1. page = [body EXCEPT !.caveats = said]
    BY DEF ReportInv, Page
  <1> HIDE DEF body, said
  <1>2. /\ page.entries = body.entries /\ page.leftOut = body.leftOut
        /\ page.fails = body.fails /\ page.manuals = body.manuals /\ page.sweeps = body.sweeps
        /\ page.caveats = said
    BY <1>1 DEF body, Fields
  <1> QED
    BY <1>2 DEF body, said

LEMMA EntryIs ==
  ASSUME NEW fs, NEW accepted
  PROVE  Entry(fs, accepted).stands = fs /\ Entry(fs, accepted).accepted = accepted
  BY DEF Entry

LEMMA SinglyIs ==
  ASSUME NEW fs
  PROVE  /\ \A f \in fs : Entry({f}, f.waived) \in Singly(fs)
         /\ \A e \in Singly(fs) : \E f \in fs : e.stands = {f} /\ e.accepted = f.waived
         /\ IsFiniteSet(fs) => IsFiniteSet(Singly(fs))
  <1>1. \A f \in fs : Entry({f}, f.waived) \in Singly(fs)
    BY DEF Singly
  <1>2. ASSUME NEW e \in Singly(fs) PROVE \E f \in fs : e.stands = {f} /\ e.accepted = f.waived
    <2>1. PICK f \in fs : e = Entry({f}, f.waived)
      BY DEF Singly
    <2>2. e.stands = {f} /\ e.accepted = f.waived
      BY <2>1, EntryIs
    <2> QED
      BY <2>2
  <1>3. ASSUME IsFiniteSet(fs) PROVE IsFiniteSet(Singly(fs))
    <2> DEFINE g == [f \in fs |-> Entry({f}, f.waived)]
    <2>1. Singly(fs) \subseteq {g[f] : f \in fs}
      BY DEF Singly
    <2> HIDE DEF g
    <2> QED
      BY <1>3, <2>1, NoMoreThan
  <1> QED
    BY <1>1, <1>2, <1>3

LEMMA ControlsAre ==
  ASSUME NEW fs
  PROVE  /\ \A f \in fs : f.control \in ControlsOf(fs) /\ f \in Of(f.control, fs)
         /\ \A c \in ControlsOf(fs) : \E f \in fs : f.control = c
         /\ \A c : \A f \in Of(c, fs) : f \in fs /\ f.control = c
         /\ IsFiniteSet(fs) => IsFiniteSet(ControlsOf(fs))
  <1>1. /\ \A f \in fs : f.control \in ControlsOf(fs) /\ f \in Of(f.control, fs)
        /\ \A c \in ControlsOf(fs) : \E f \in fs : f.control = c
        /\ \A c : \A f \in Of(c, fs) : f \in fs /\ f.control = c
    BY DEF ControlsOf, Of
  <1>2. ASSUME IsFiniteSet(fs) PROVE IsFiniteSet(ControlsOf(fs))
    <2> DEFINE g == [f \in fs |-> f.control]
    <2>1. ControlsOf(fs) \subseteq {g[f] : f \in fs}
      BY DEF ControlsOf
    <2> HIDE DEF g
    <2> QED
      BY <1>2, <2>1, NoMoreThan
  <1> QED
    BY <1>1, <1>2

-----------------------------------------------------------------------------
(* SARIF                                                                   *)

Some(e) == CHOOSE f \in e.stands : TRUE
Designed(fs) == {f \in fs : ByDesign(f)}

(* A result is a failure, a finding that was not read, or a control that   *)
(* no API answers.                                                         *)
LEMMA ResultsAre ==
  ASSUME NEW fs, Judged(fs), NEW e \in SarifResults(fs)
  PROVE  LET f == Some(e) IN
         /\ f \in e.stands /\ f \in fs /\ f.status \in {"FAIL", "MANUAL"}
         /\ e.stands \subseteq fs
         /\ \A h \in e.stands : h.control = f.control /\ h.status = f.status
         /\ ByDesign(f) => e = Aggregate(Of(f.control, Designed(fs)))
         /\ ~ByDesign(f) => e = Entry({f}, f.waived)
  <1> DEFINE f == Some(e)
  <1>1. \/ e \in Singly({g \in fs : g.status = "FAIL" \/ Unread(g)})
        \/ e \in {Aggregate(Of(c, Designed(fs))) : c \in ControlsOf(Designed(fs))}
    BY DEF SarifResults, Designed
  <1>2. CASE e \in Singly({g \in fs : g.status = "FAIL" \/ Unread(g)})
    <2>1. PICK g \in fs : (g.status = "FAIL" \/ Unread(g)) /\ e = Entry({g}, g.waived)
      BY <1>2 DEF Singly
    <2>2. e.stands = {g} /\ f = g
      BY <2>1, EntryIs DEF Some
    <2>3. g.status \in {"FAIL", "MANUAL"} /\ ~ByDesign(g)
      BY <2>1 DEF Unread, ByDesign
    <2> QED
      BY <2>1, <2>2, <2>3
  <1>3. CASE e \in {Aggregate(Of(c, Designed(fs))) : c \in ControlsOf(Designed(fs))}
    <2>1. PICK c \in ControlsOf(Designed(fs)) : e = Aggregate(Of(c, Designed(fs)))
      BY <1>3
    <2>2. e.stands = Of(c, Designed(fs))
      BY <2>1, EntryIs DEF Aggregate
    <2>3. e.stands # {}
      BY <2>2, ControlsAre
    <2>4. f \in e.stands
      BY <2>3 DEF Some
    <2>5. \A h \in e.stands : h \in fs /\ h.control = c /\ h.status = "MANUAL" /\ ByDesign(h)
      BY <2>2, ControlsAre DEF Designed, ByDesign
    <2> QED
      BY <2>1, <2>4, <2>5
  <1> QED
    BY <1>1, <1>2, <1>3

LEMMA ResultsCompare ==
  ASSUME NEW fs, Judged(fs)
  PROVE  LET S == SarifResults(fs)
             key == [e \in S |-> ResultKey(e)]
         IN  /\ IsFiniteSet(S)
             /\ key \in [S -> Keys(3)]
             /\ \A d, e \in S : key[d] = key[e] => d = e
  <1> DEFINE S == SarifResults(fs)
             listed == {g \in fs : g.status = "FAIL" \/ Unread(g)}
             designed == Designed(fs)
  <1>1. IsFiniteSet(S)
    <2>1. listed \in SUBSET fs /\ designed \in SUBSET fs /\ IsFiniteSet(fs)
      BY DEF Judged, Designed
    <2>2. IsFiniteSet(listed) /\ IsFiniteSet(designed)
      BY <2>1, FS_Subset
    <2>3. IsFiniteSet(Singly(listed)) /\ IsFiniteSet(ControlsOf(designed))
      BY <2>2, SinglyIs, ControlsAre
    <2> DEFINE A == {Aggregate(Of(c, designed)) : c \in ControlsOf(designed)}
               g == [c \in ControlsOf(designed) |-> Aggregate(Of(c, designed))]
    <2>4. A \subseteq {g[c] : c \in ControlsOf(designed)}
      OBVIOUS
    <2>5. S = Singly(listed) \cup A
      BY DEF SarifResults, Designed
    <2> HIDE DEF A, g, S, listed, designed
    <2>6. IsFiniteSet(A)
      BY <2>3, <2>4, NoMoreThan
    <2> QED
      BY <2>3, <2>5, <2>6, FS_Union
  <1>2. ASSUME NEW e \in S
        PROVE  LET f == Some(e) IN
               /\ ResultKey(e) = <<IF f.status = "MANUAL" THEN 0 ELSE -Weight(f), f.control,
                                   IF ByDesign(f) THEN InstanceResourceName ELSE f.resource>>
               /\ ResultKey(e) \in Keys(3)
    <2> DEFINE f == Some(e)
    <2>1. f \in fs
      BY ResultsAre
    <2>2. Weight(f) \in 1 .. 3 /\ f.control \in Nat /\ f.resource \in Nat /\ InstanceResourceName \in Nat
      BY <2>1, RanksType, ChecksType, ReportAssumption DEF Judged, IsFinding
    <2>3. ResultKey(e) = <<-(IF f.status = "MANUAL" THEN 0 ELSE Weight(f)), f.control,
                           IF ByDesign(f) THEN InstanceResourceName ELSE f.resource>>
      BY DEF ResultKey, ResultRank, Some
    <2> HIDE DEF f
    <2>4. -(IF f.status = "MANUAL" THEN 0 ELSE Weight(f)) = IF f.status = "MANUAL" THEN 0 ELSE -Weight(f)
      BY <2>2
    <2>5. <<IF f.status = "MANUAL" THEN 0 ELSE -Weight(f), f.control,
            IF ByDesign(f) THEN InstanceResourceName ELSE f.resource>> \in Keys(3)
      BY <2>2 DEF Keys
    <2> QED
      BY <2>3, <2>4, <2>5 DEF f
  <1>3. ASSUME NEW d \in S, NEW e \in S, ResultKey(d) = ResultKey(e) PROVE d = e
    <2> DEFINE f == Some(d)
               g == Some(e)
    <2>1. /\ f \in fs /\ f.status \in {"FAIL", "MANUAL"}
          /\ ByDesign(f) => d = Aggregate(Of(f.control, Designed(fs)))
          /\ ~ByDesign(f) => d = Entry({f}, f.waived)
      BY ResultsAre
    <2>2. /\ g \in fs /\ g.status \in {"FAIL", "MANUAL"}
          /\ ByDesign(g) => e = Aggregate(Of(g.control, Designed(fs)))
          /\ ~ByDesign(g) => e = Entry({g}, g.waived)
      BY ResultsAre
    <2>3. /\ f.control = g.control
          /\ (IF ByDesign(f) THEN InstanceResourceName ELSE f.resource)
               = (IF ByDesign(g) THEN InstanceResourceName ELSE g.resource)
      BY <1>2, <1>3
    <2> HIDE DEF f, g
    <2>4. ByDesign(f) <=> ByDesign(g)
      BY <2>1, <2>2, <2>3 DEF ByDesign, Judged, IsFinding
    <2>5. CASE ByDesign(f)
      BY <2>1, <2>2, <2>3, <2>4, <2>5
    <2>6. CASE ~ByDesign(f)
      <3>1. f = g
        BY <2>1, <2>2, <2>3, <2>4, <2>6 DEF Judged
      <3> QED
        BY <2>1, <2>2, <2>4, <2>6, <3>1
    <2> QED
      BY <2>5, <2>6
  <1> HIDE DEF S
  <1>4. [e \in S |-> ResultKey(e)] \in [S -> Keys(3)]
    BY <1>2
  <1> QED
    BY <1>1, <1>3, <1>4 DEF S

(* What the cap withholds is counted and comes last.                       *)
LEMMA SarifIs ==
  ASSUME NEW fs, Judged(fs)
  PROVE  LET S == SarifResults(fs)
             r == Sarif(fs)
         IN  /\ DOMAIN r = Fields
             /\ r.sweeps = {}
             /\ r.entries \subseteq S
             /\ IsFiniteSet(S \ r.entries)
             /\ r.leftOut = Cardinality(S \ r.entries)
             /\ \A e \in r.entries, d \in S \ r.entries : LessKey(ResultKey(e), ResultKey(d))
  <1> DEFINE S == SarifResults(fs)
             key == [e \in S |-> ResultKey(e)]
             s == Sorted(S, key)
             kept == Kept(s, MaxResults)
  <1>1. IsFiniteSet(S) /\ key \in [S -> Keys(3)] /\ \A d, e \in S : key[d] = key[e] => d = e
    BY ResultsCompare
  <1>2. \A e \in S : key[e] = ResultKey(e)
    OBVIOUS
  <1>3. Sarif(fs) = Rendering(kept, Len(s) - Cardinality(kept))
    BY DEF Sarif, Kept
  <1>4. MaxResults \in Nat
    BY ReportAssumption
  <1> HIDE DEF S, key
  <1>5. /\ kept \subseteq S
        /\ IsFiniteSet(S \ kept)
        /\ Cardinality(S \ kept) = Len(s) - Cardinality(kept)
        /\ \A x \in kept, y \in S \ kept : LessKey(key[x], key[y])
    BY <1>1, <1>4, Capped
  <1> HIDE DEF s, kept
  <1>6. \A x \in kept, y \in S \ kept : LessKey(ResultKey(x), ResultKey(y))
    BY <1>2, <1>5
  <1> QED
    <2> DEFINE r == Sarif(fs)
    <2>1. DOMAIN r = Fields /\ r.sweeps = {} /\ r.entries = kept /\ r.leftOut = Len(s) - Cardinality(kept)
      BY <1>3, RenderingIs
    <2> HIDE DEF r
    <2> QED
      BY <1>5, <1>6, <2>1 DEF S, r

LEMMA FirstPlace ==
  ASSUME NEW n \in Nat \ {0}, NEW a \in Keys(n), NEW b \in Keys(n), LessKey(a, b)
  PROVE  a[1] <= b[1]
  <1>1. PICK i \in 1 .. n : a[i] < b[i] /\ \A k \in 1 .. i - 1 : a[k] = b[k]
    BY DEF LessKey, Keys
  <1>2. a[1] \in Int /\ b[1] \in Int
    BY DEF Keys
  <1>3. i # 1 => a[1] = b[1]
    BY <1>1
  <1> QED
    BY <1>1, <1>2, <1>3

(* What of some findings needs doing and is not listed as such.            *)
Missing(fs, entries) ==
  {f \in fs : Open(f) /\ ~ \E e \in entries : f \in e.stands /\ ~e.accepted}

(* A result's findings share what it is counted as.                        *)
Place(f) == <<f.control, IF ByDesign(f) THEN InstanceResourceName ELSE f.resource>>

LEMMA ResultOf ==
  ASSUME NEW fs, Judged(fs), NEW f \in fs, f.status \in {"FAIL", "MANUAL"}
  PROVE  \E e \in SarifResults(fs) :
            /\ f \in e.stands
            /\ ~f.waived => ~e.accepted
            /\ Place(Some(e)) = Place(f)
            /\ f.status = "FAIL" => e = Entry({f}, f.waived)
  <1>1. CASE f.status = "FAIL" \/ Unread(f)
    <2> DEFINE e == Entry({f}, f.waived)
    <2>1. e \in SarifResults(fs)
      BY <1>1, SinglyIs DEF SarifResults
    <2>2. e.stands = {f} /\ e.accepted = f.waived /\ Some(e) = f
      BY EntryIs DEF Some
    <2> QED
      BY <2>1, <2>2
  <1>2. CASE ~(f.status = "FAIL" \/ Unread(f))
    <2>1. ByDesign(f) /\ f.status # "FAIL"
      BY <1>2 DEF ByDesign, Unread
    <2> DEFINE c == f.control
               e == Aggregate(Of(c, Designed(fs)))
    <2>2. f \in Designed(fs) /\ c \in ControlsOf(Designed(fs)) /\ f \in Of(c, Designed(fs))
      BY <2>1, ControlsAre DEF Designed
    <2>3. e \in SarifResults(fs)
      BY <2>2 DEF SarifResults, Designed
    <2>4. e.stands = Of(c, Designed(fs)) /\ e.accepted = (\A g \in Of(c, Designed(fs)) : g.waived)
      BY EntryIs DEF Aggregate
    <2>5. Some(e) \in Of(c, Designed(fs))
      BY <2>2, <2>4 DEF Some
    <2> HIDE DEF e
    <2>6. Some(e).control = c /\ ByDesign(Some(e))
      <3>1. \A h \in Of(c, Designed(fs)) : h.control = c /\ ByDesign(h)
        BY DEF Of, Designed
      <3> QED
        BY <2>5, <3>1
    <2>7. Place(Some(e)) = Place(f)
      BY <2>1, <2>6 DEF Place
    <2>8. ~f.waived => ~e.accepted
      BY <2>2, <2>4
    <2> QED
      BY <2>1, <2>2, <2>3, <2>4, <2>7, <2>8
  <1> QED
    BY <1>1, <1>2

LEMMA SarifHidesNothing ==
  ASSUME NEW fs, Judged(fs)
  PROVE  LET r == Sarif(fs) IN
         Cardinality({Place(f) : f \in Missing(fs, r.entries)}) <= r.leftOut
  <1> DEFINE S == SarifResults(fs)
             kept == Sarif(fs).entries
             places == {Place(f) : f \in Missing(fs, kept)}
             g == [e \in S \ kept |-> Place(Some(e))]
  <1>1. IsFiniteSet(S \ kept) /\ Sarif(fs).leftOut = Cardinality(S \ kept)
    BY SarifIs
  <1>2. places \subseteq {g[e] : e \in S \ kept}
    <2> SUFFICES ASSUME NEW f \in Missing(fs, kept)
                 PROVE  \E e \in S \ kept : g[e] = Place(f)
      OBVIOUS
    <2>1. /\ f \in fs /\ f.status \in {"FAIL", "MANUAL"} /\ ~f.waived
          /\ ~ \E e \in kept : f \in e.stands /\ ~e.accepted
      BY DEF Missing, Open
    <2>2. PICK e \in S : f \in e.stands /\ ~e.accepted /\ Place(Some(e)) = Place(f)
      BY <2>1, ResultOf
    <2> QED
      BY <2>1, <2>2
  <1> HIDE DEF S, kept, places, g
  <1>3. Cardinality(places) <= Cardinality(S \ kept)
    BY <1>1, <1>2, NoMoreThan
  <1> QED
    BY <1>1, <1>3 DEF places, kept

LEMMA SarifKeepsWorst ==
  ASSUME NEW fs, Judged(fs)
  PROVE  LET kept == UNION {e.stands : e \in Sarif(fs).entries} IN
         \A f \in fs \ kept : f.status = "FAIL" =>
           \A g \in kept : g.status = "FAIL" /\ Weight(g) >= Weight(f)
  <1> DEFINE S == SarifResults(fs)
             entries == Sarif(fs).entries
  <1> SUFFICES ASSUME NEW f \in fs, f.status = "FAIL", \A e \in entries : f \notin e.stands,
                      NEW d \in entries, NEW g \in d.stands
               PROVE  g.status = "FAIL" /\ Weight(g) >= Weight(f)
    OBVIOUS
  <1>1. PICK e \in S : f \in e.stands /\ e = Entry({f}, f.waived)
    BY ResultOf
  <1>2. d \in S /\ LessKey(ResultKey(d), ResultKey(e))
    BY <1>1, SarifIs
  <1>3. ResultKey(d) \in Keys(3) /\ ResultKey(e) \in Keys(3)
    BY <1>2, ResultsCompare
  <1>4. ResultKey(d)[1] <= ResultKey(e)[1]
    BY <1>2, <1>3, FirstPlace
  <1>5. ResultKey(d)[1] = -ResultRank(d) /\ ResultKey(e)[1] = -ResultRank(e)
    BY DEF ResultKey
  <1>6. Some(e) = f
    BY <1>1, EntryIs DEF Some
  <1>7. ResultRank(e) = Weight(f)
    BY <1>6 DEF ResultRank, Some
  <1>8. /\ Some(d) \in fs /\ Some(d).status \in {"FAIL", "MANUAL"}
        /\ g.control = Some(d).control /\ g.status = Some(d).status
    BY <1>2, ResultsAre
  <1>9. ResultRank(d) = IF g.status = "MANUAL" THEN 0 ELSE Weight(g)
    BY <1>8 DEF ResultRank, Some, Weight
  <1>10. Weight(f) \in 1 .. 3 /\ Weight(g) \in 1 .. 3
    <2>1. Weight(f) \in 1 .. 3 /\ Weight(Some(d)) \in 1 .. 3
      BY <1>8, RanksType DEF Judged
    <2>2. Weight(g) = Weight(Some(d))
      BY <1>8 DEF Weight
    <2> QED
      BY <2>1, <2>2
  <1> QED
    BY <1>4, <1>5, <1>7, <1>8, <1>9, <1>10

LEMMA SarifIsClean ==
  ASSUME NEW fs, Judged(fs), Sarif(fs).leftOut = 0,
         \A e \in Sarif(fs).entries : e.accepted \/ \A f \in e.stands : f.status # "FAIL"
  PROVE  \A f \in fs : f.status = "FAIL" => f.waived
  <1> DEFINE S == SarifResults(fs)
             kept == Sarif(fs).entries
  <1>1. S \ kept = {}
    <2>1. IsFiniteSet(S \ kept) /\ Cardinality(S \ kept) = 0
      BY SarifIs
    <2> HIDE DEF S, kept
    <2> QED
      BY <2>1, FS_EmptySet
  <1>2. ASSUME NEW f \in fs, f.status = "FAIL" PROVE f.waived
    <2>1. PICK e \in S : f \in e.stands /\ e = Entry({f}, f.waived)
      BY <1>2, ResultOf
    <2>2. e \in kept /\ e.accepted = f.waived
      BY <1>1, <2>1, EntryIs
    <2> QED
      BY <1>2, <2>1, <2>2
  <1> QED
    BY <1>2

-----------------------------------------------------------------------------
(* The detailed table                                                      *)

SectionOf(fs, g) == {f \in fs : f.resource = g.resource}
Groupings(fs, showPassed) == {SectionOf(fs, g) : g \in SelectForSection(fs, showPassed)}
Fails(fs) == Cardinality({f \in fs : f.status = "FAIL"})

LEMMA FiltersFindings ==
  ASSUME NEW fs, NEW words, Judged(fs)
  PROVE  FilterFindings(fs, words) \subseteq fs /\ Judged(FilterFindings(fs, words))
  <1>1. FilterFindings(fs, words) \subseteq fs
    BY DEF FilterFindings
  <1> QED
    BY <1>1, SomeAreJudged

LEMMA TallyType ==
  ASSUME NEW fs, Judged(fs), NEW group, group \subseteq fs, group # {}
  PROVE  TallyKey(group) \in Keys(4) /\ TallyKey(group)[1] = -Fails(group)
  <1> DEFINE a == Cardinality({f \in group : f.status = "FAIL"})
             b == Cardinality({f \in group : Unread(f)})
             c == Cardinality({f \in group : ByDesign(f)})
             r == (CHOOSE f \in group : TRUE).resource
  <1>1. IsFiniteSet(group)
    BY FS_Subset DEF Judged
  <1>2. a \in Nat
    <2>1. {f \in group : f.status = "FAIL"} \in SUBSET group
      OBVIOUS
    <2> QED
      BY <1>1, <2>1, FS_Subset, FS_CardinalityType
  <1>3. b \in Nat
    <2>1. {f \in group : Unread(f)} \in SUBSET group
      OBVIOUS
    <2> QED
      BY <1>1, <2>1, FS_Subset, FS_CardinalityType
  <1>4. c \in Nat
    <2>1. {f \in group : ByDesign(f)} \in SUBSET group
      OBVIOUS
    <2> QED
      BY <1>1, <2>1, FS_Subset, FS_CardinalityType
  <1>5. r \in Nat
    BY DEF Judged, IsFinding
  <1>6. TallyKey(group) = <<-a, -b, -c, r>>
    BY DEF TallyKey
  <1>7. Fails(group) = a
    BY DEF Fails
  <1> HIDE DEF a, b, c, r
  <1> QED
    BY <1>2, <1>3, <1>4, <1>5, <1>6, <1>7 DEF Keys

(* One section for each resource with something to list, the one with the  *)
(* most failures first.                                                    *)
LEMMA SectionsAre ==
  ASSUME NEW fs, Judged(fs), NEW showPassed
  PROVE  LET s == Sections(fs, showPassed)
             chosen == SelectForSection(fs, showPassed)
         IN  /\ Len(s) \in Nat /\ DOMAIN s = 1 .. Len(s)
             /\ \A g \in chosen : \E i \in DOMAIN s : s[i] = SectionOf(fs, g)
             /\ \A i \in DOMAIN s : \E g \in chosen : s[i] = SectionOf(fs, g)
             /\ \A i, j \in DOMAIN s : i < j => Fails(s[i]) >= Fails(s[j])
  <1> DEFINE chosen == SelectForSection(fs, showPassed)
             groups == Groupings(fs, showPassed)
             key == [group \in groups |-> TallyKey(group)]
             s == Sorted(groups, key)
  <1>1. chosen \subseteq fs
    BY DEF SelectForSection
  <1>2. \A group \in groups : \E g \in chosen : group = SectionOf(fs, g)
    BY DEF Groupings
  <1>3. \A g \in chosen : SectionOf(fs, g) \in groups
    BY DEF Groupings
  <1>4. \A g \in fs : SectionOf(fs, g) \subseteq fs /\ g \in SectionOf(fs, g)
    BY DEF SectionOf
  <1>5. IsFiniteSet(groups)
    <2> DEFINE at == [g \in chosen |-> SectionOf(fs, g)]
    <2>1. groups \subseteq {at[g] : g \in chosen}
      BY <1>2
    <2>2. chosen \in SUBSET fs /\ IsFiniteSet(fs)
      BY <1>1 DEF Judged
    <2> HIDE DEF at, groups, chosen
    <2>3. IsFiniteSet(chosen)
      BY <2>2, FS_Subset
    <2> QED
      BY <2>1, <2>3, NoMoreThan
  <1>6. Sections(fs, showPassed) = s
    BY DEF Sections, Groupings, SectionOf
  <1>7. \A group \in groups : key[group] = TallyKey(group)
    OBVIOUS
  <1>8. \A group \in groups : TallyKey(group) \in Keys(4) /\ TallyKey(group)[1] = -Fails(group)
    <2> TAKE group \in groups
    <2>1. group \subseteq fs /\ group # {}
      BY <1>1, <1>2, <1>4
    <2> QED
      BY <2>1, TallyType
  <1>9. key \in [groups -> Keys(4)]
    BY <1>8
  <1>10. ASSUME NEW p \in groups, NEW q \in groups, TallyKey(p) = TallyKey(q) PROVE p = q
    <2>1. PICK g \in chosen : p = SectionOf(fs, g)
      BY <1>2
    <2>2. PICK h \in chosen : q = SectionOf(fs, h)
      BY <1>2
    <2>3. p # {} /\ q # {}
      BY <1>1, <1>4, <2>1, <2>2
    <2>4. (CHOOSE f \in p : TRUE).resource = g.resource /\ (CHOOSE f \in q : TRUE).resource = h.resource
      BY <2>1, <2>2, <2>3 DEF SectionOf
    <2>5. (CHOOSE f \in p : TRUE).resource = (CHOOSE f \in q : TRUE).resource
      BY <1>10 DEF TallyKey
    <2> QED
      BY <2>1, <2>2, <2>4, <2>5 DEF SectionOf
  <1>11. \A p, q \in groups : key[p] = key[q] => p = q
    BY <1>10
  <1> HIDE DEF groups, key
  <1>12. /\ Cardinality(groups) \in Nat
         /\ s \in Seq(groups)
         /\ Len(s) = Cardinality(groups)
         /\ DOMAIN s = 1 .. Cardinality(groups)
         /\ \A x \in groups : \E i \in DOMAIN s : s[i] = x
         /\ \A i, j \in DOMAIN s : i < j <=> LessKey(key[s[i]], key[s[j]])
    BY <1>5, <1>9, <1>11, Enumerates
  <1> HIDE DEF s, chosen
  <1>13. ASSUME NEW i \in DOMAIN s, NEW j \in DOMAIN s, i < j PROVE Fails(s[i]) >= Fails(s[j])
    <2>1. s[i] \in groups /\ s[j] \in groups
      BY <1>12
    <2>2. LessKey(TallyKey(s[i]), TallyKey(s[j]))
      BY <1>7, <1>12, <1>13, <2>1
    <2>3. TallyKey(s[i])[1] <= TallyKey(s[j])[1]
      BY <1>8, <2>1, <2>2, FirstPlace
    <2>4. Fails(s[i]) \in Nat /\ Fails(s[j]) \in Nat
      <3>1. \A group \in groups : Fails(group) \in Nat
        <4> TAKE group \in groups
        <4>1. group \subseteq fs
          BY <1>1, <1>2, <1>4 DEF chosen
        <4>2. {f \in group : f.status = "FAIL"} \in SUBSET fs
          BY <4>1
        <4> QED
          BY <4>2, FS_Subset, FS_CardinalityType DEF Fails, Judged
      <3> QED
        BY <2>1, <3>1
    <2> QED
      BY <1>8, <2>1, <2>3, <2>4
  <1>14. \A i \in DOMAIN s : s[i] \in groups
    BY <1>12
  <1> QED
    BY <1>2, <1>3, <1>6, <1>12, <1>13, <1>14 DEF chosen

Shown(s, o) == {i \in DOMAIN s : o.maxResources = 0 \/ i <= o.maxResources}
Drawn(s, o) == UNION {Singly(SelectForSection(s[i], o.showPassed)) : i \in Shown(s, o)}

LEMMA DetailedIs ==
  ASSUME NEW fs, NEW o
  PROVE  LET r == DetailedTable(fs, o)
             filtered == FilterFindings(fs, o.words)
             s == Sections(filtered, o.showPassed)
             ordered == IF o.noRemediations THEN {} ELSE RemediationOrder(filtered)
         IN  /\ DOMAIN r = Fields
             /\ r.entries = Drawn(s, o)
             /\ r.leftOut = Len(s) - Cardinality(Shown(s, o))
             /\ r.fails = FailsOf(ordered) /\ r.manuals = ManualsOf(ordered)
             /\ r.sweeps = {}
  <1> DEFINE filtered == FilterFindings(fs, o.words)
             s == Sections(filtered, o.showPassed)
             ordered == IF o.noRemediations THEN {} ELSE RemediationOrder(filtered)
             r == Rendering(Drawn(s, o), Len(s) - Cardinality(Shown(s, o)))
  <1>1. DetailedTable(fs, o) = [r EXCEPT !.fails = FailsOf(ordered), !.manuals = ManualsOf(ordered)]
    BY DEF DetailedTable, Drawn, Shown
  <1>2. /\ DOMAIN r = Fields
        /\ r.entries = Drawn(s, o) /\ r.leftOut = Len(s) - Cardinality(Shown(s, o)) /\ r.sweeps = {}
    BY RenderingIs
  <1> HIDE DEF r, s, filtered, ordered
  <1>3. LET t == DetailedTable(fs, o) IN
        /\ DOMAIN t = Fields
        /\ t.entries = r.entries /\ t.leftOut = r.leftOut /\ t.sweeps = r.sweeps
        /\ t.fails = FailsOf(ordered) /\ t.manuals = ManualsOf(ordered)
    BY <1>1, <1>2 DEF Fields
  <1> QED
    BY <1>2, <1>3 DEF s, filtered, ordered

(* A finding that was chosen is drawn with its resource or its resource is *)
(* one of those that are only counted, after all that are shown.           *)
LEMMA DrawnOrCounted ==
  ASSUME NEW fs, Judged(fs), NEW o, o.maxResources \in Nat,
         NEW f \in SelectForSection(fs, o.showPassed)
  PROVE  LET s == Sections(fs, o.showPassed) IN
         \E i \in DOMAIN s :
           /\ s[i] = SectionOf(fs, f)
           /\ i \in Shown(s, o) => Entry({f}, f.waived) \in Drawn(s, o)
           /\ i \notin Shown(s, o) => \A j \in Shown(s, o) : j < i
  <1> DEFINE s == Sections(fs, o.showPassed)
  <1>1. /\ Len(s) \in Nat /\ DOMAIN s = 1 .. Len(s)
        /\ \A g \in SelectForSection(fs, o.showPassed) : \E i \in DOMAIN s : s[i] = SectionOf(fs, g)
    BY SectionsAre
  <1>2. PICK i \in DOMAIN s : s[i] = SectionOf(fs, f)
    BY <1>1
  <1>3. f \in SelectForSection(s[i], o.showPassed)
    BY <1>2 DEF SelectForSection, SectionOf
  <1>4. Entry({f}, f.waived) \in Singly(SelectForSection(s[i], o.showPassed))
    BY <1>3, SinglyIs
  <1>5. i \in Shown(s, o) => Entry({f}, f.waived) \in Drawn(s, o)
    BY <1>4 DEF Drawn
  <1>6. i \notin Shown(s, o) => \A j \in Shown(s, o) : j < i
    <2> HIDE DEF s
    <2> QED
      BY <1>1 DEF Shown
  <1> QED
    BY <1>2, <1>5, <1>6

LEMMA DrawnAre ==
  ASSUME NEW fs, Judged(fs), NEW o, NEW e \in Drawn(Sections(fs, o.showPassed), o)
  PROVE  \E i \in Shown(Sections(fs, o.showPassed), o), f \in fs :
           /\ e.stands = {f} /\ e.accepted = f.waived
           /\ Sections(fs, o.showPassed)[i] = SectionOf(fs, f)
  <1> DEFINE s == Sections(fs, o.showPassed)
  <1>1. PICK i \in Shown(s, o) : e \in Singly(SelectForSection(s[i], o.showPassed))
    BY DEF Drawn
  <1>2. PICK f \in SelectForSection(s[i], o.showPassed) : e.stands = {f} /\ e.accepted = f.waived
    BY <1>1, SinglyIs
  <1>3. i \in DOMAIN s
    BY DEF Shown
  <1>4. PICK g \in fs : s[i] = SectionOf(fs, g)
    BY <1>3, SectionsAre DEF SelectForSection
  <1>5. f \in s[i]
    BY DEF SelectForSection
  <1>6. f \in fs /\ SectionOf(fs, f) = SectionOf(fs, g)
    BY <1>4, <1>5 DEF SectionOf
  <1> QED
    BY <1>2, <1>4, <1>6

LEMMA DetailedHidesNothing ==
  ASSUME NEW fs, Judged(fs), NEW o, o.maxResources \in Nat
  PROVE  LET s == Sections(fs, o.showPassed) IN
         Cardinality({<<f.resource>> : f \in Missing(fs, Drawn(s, o))})
           <= Len(s) - Cardinality(Shown(s, o))
  <1> DEFINE s == Sections(fs, o.showPassed)
             withheld == DOMAIN s \ Shown(s, o)
             units == {<<f.resource>> : f \in Missing(fs, Drawn(s, o))}
             g == [i \in withheld |-> <<(CHOOSE h \in s[i] : TRUE).resource>>]
  <1>1. Len(s) \in Nat /\ DOMAIN s = 1 .. Len(s)
    BY SectionsAre
  <1>2. units \subseteq {g[i] : i \in withheld}
    <2> SUFFICES ASSUME NEW f \in Missing(fs, Drawn(s, o))
                 PROVE  \E i \in withheld : g[i] = <<f.resource>>
      OBVIOUS
    <2>1. /\ f \in fs /\ f.status \in {"FAIL", "MANUAL"} /\ ~f.waived
          /\ ~ \E e \in Drawn(s, o) : f \in e.stands /\ ~e.accepted
      BY DEF Missing, Open
    <2>2. f \in SelectForSection(fs, o.showPassed)
      BY <2>1 DEF SelectForSection
    <2>3. PICK i \in DOMAIN s : /\ s[i] = SectionOf(fs, f)
                                /\ i \in Shown(s, o) => Entry({f}, f.waived) \in Drawn(s, o)
      BY <2>2, DrawnOrCounted
    <2>4. i \in withheld
      BY <2>1, <2>3, EntryIs
    <2>5. f \in s[i] /\ \A h \in s[i] : h.resource = f.resource
      BY <2>1, <2>3 DEF SectionOf
    <2>6. (CHOOSE h \in s[i] : TRUE).resource = f.resource
      BY <2>5
    <2> QED
      BY <2>4, <2>6
  <1>3. IsFiniteSet(DOMAIN s) /\ Cardinality(DOMAIN s) = Len(s)
    <2> DEFINE k == Len(s)
    <2>1. k \in Nat
      BY <1>1
    <2> HIDE DEF k
    <2>2. IsFiniteSet(1 .. k) /\ Cardinality(1 .. k) = IF 1 > k THEN 0 ELSE k - 1 + 1
      BY <2>1, FS_Interval
    <2>3. IsFiniteSet(1 .. k) /\ Cardinality(1 .. k) = k
      BY <2>1, <2>2
    <2> QED
      BY <1>1, <2>3 DEF k
  <1>4. /\ IsFiniteSet(withheld)
        /\ Cardinality(withheld) = Cardinality(DOMAIN s) - Cardinality(DOMAIN s \cap Shown(s, o))
    BY <1>3, FS_Difference
  <1>5. DOMAIN s \cap Shown(s, o) = Shown(s, o)
    BY DEF Shown
  <1> HIDE DEF s, withheld, units, g
  <1>6. Cardinality(units) <= Cardinality(withheld)
    BY <1>2, <1>4, NoMoreThan
  <1> QED
    BY <1>3, <1>4, <1>5, <1>6 DEF units, s

LEMMA DetailedKeepsWorst ==
  ASSUME NEW fs, Judged(fs), NEW o, o.maxResources \in Nat
  PROVE  LET kept == UNION {e.stands : e \in Drawn(Sections(fs, o.showPassed), o)} IN
         \A f \in fs \ kept : f.status \in {"FAIL", "MANUAL"} =>
           \A g \in kept : Fails(SectionOf(fs, g)) >= Fails(SectionOf(fs, f))
  <1> DEFINE s == Sections(fs, o.showPassed)
  <1> SUFFICES ASSUME NEW f \in fs, f.status \in {"FAIL", "MANUAL"},
                      \A e \in Drawn(s, o) : f \notin e.stands,
                      NEW d \in Drawn(s, o), NEW g \in d.stands
               PROVE  Fails(SectionOf(fs, g)) >= Fails(SectionOf(fs, f))
    OBVIOUS
  <1>1. f \in SelectForSection(fs, o.showPassed)
    BY DEF SelectForSection
  <1>2. PICK i \in DOMAIN s : /\ s[i] = SectionOf(fs, f)
                              /\ i \in Shown(s, o) => Entry({f}, f.waived) \in Drawn(s, o)
                              /\ i \notin Shown(s, o) => \A j \in Shown(s, o) : j < i
    BY <1>1, DrawnOrCounted
  <1>3. i \notin Shown(s, o)
    BY <1>2, EntryIs
  <1>4. PICK j \in Shown(s, o) : s[j] = SectionOf(fs, g)
    BY DrawnAre
  <1>5. j < i /\ j \in DOMAIN s
    BY <1>2, <1>3, <1>4 DEF Shown
  <1>6. Fails(s[j]) >= Fails(s[i])
    BY <1>2, <1>5, SectionsAre
  <1> QED
    BY <1>2, <1>4, <1>6

LEMMA DetailedIsClean ==
  ASSUME NEW fs, Judged(fs), NEW o, o.maxResources \in Nat,
         Len(Sections(fs, o.showPassed)) - Cardinality(Shown(Sections(fs, o.showPassed), o)) = 0,
         \A e \in Drawn(Sections(fs, o.showPassed), o) :
           e.accepted \/ \A f \in e.stands : f.status # "FAIL"
  PROVE  \A f \in fs : f.status = "FAIL" => f.waived
  <1> DEFINE s == Sections(fs, o.showPassed)
             missing == Missing(fs, Drawn(s, o))
             units == {<<f.resource>> : f \in missing}
  <1>1. Cardinality(units) <= 0
    BY DetailedHidesNothing
  <1>2. IsFiniteSet(units)
    <2> DEFINE g == [f \in missing |-> <<f.resource>>]
    <2>1. missing \in SUBSET fs /\ IsFiniteSet(fs)
      BY DEF Missing, Judged
    <2>2. units \subseteq {g[f] : f \in missing}
      OBVIOUS
    <2> HIDE DEF units, g, missing
    <2>3. IsFiniteSet(missing)
      BY <2>1, FS_Subset
    <2> QED
      BY <2>2, <2>3, NoMoreThan
  <1>3. units = {}
    <2> HIDE DEF units
    <2>1. Cardinality(units) \in Nat
      BY <1>2, FS_CardinalityType
    <2>2. Cardinality(units) = 0
      BY <1>1, <2>1
    <2> QED
      BY <1>2, <2>2, FS_EmptySet
  <1>4. ASSUME NEW f \in fs, f.status = "FAIL", ~f.waived PROVE FALSE
    <2>1. f \notin missing
      BY <1>3
    <2>2. PICK e \in Drawn(s, o) : f \in e.stands /\ ~e.accepted
      BY <1>4, <2>1 DEF Missing, Open
    <2> QED
      BY <1>4, <2>2
  <1> QED
    BY <1>4 DEF Judged, IsFinding

(* A control that fails somewhere never needs a person by design, and the  *)
(* first of its findings decides under which heading it is.                *)
LEMMA RemediesFit ==
  ASSUME NEW fs, Judged(fs)
  PROVE  /\ FailsOf(RemediationOrder(fs)) = ControlsOf({f \in fs : f.status = "FAIL"})
         /\ ManualsOf(RemediationOrder(fs)) = ControlsOf({f \in fs : ByDesign(f)})
  <1> DEFINE Needs(f) == f.status \in {"FAIL", "MANUAL"} /\ ~Unread(f)
             ordered == RemediationOrder(fs)
  <1>1. \A f \in fs : /\ Needs(f) <=> f.status = "FAIL" \/ ByDesign(f)
                      /\ f.status = "FAIL" => Checks[f.control].automated
                      /\ ByDesign(f) => ~Checks[f.control].automated /\ f.status # "FAIL"
    BY DEF Unread, ByDesign, Judged, IsFinding
  <1>2. \A f \in ordered : f \in fs /\ Needs(f)
    BY DEF RemediationOrder
  <1>3. ASSUME NEW f \in fs, Needs(f) PROVE \E m \in ordered : m.control = f.control
    <2> DEFINE N == {g \in Of(f.control, fs) : Needs(g)}
    <2>1. N \subseteq fs /\ f \in N /\ \A g \in N : g.control = f.control
      BY <1>3 DEF Of
    <2>2. PICK m \in N : \A g \in N : ~LessKey(FindingKey(g), FindingKey(m))
      <3> HIDE DEF N
      <3>1. Judged(N) /\ N # {}
        BY <2>1, SomeAreJudged
      <3> QED
        BY <3>1, FirstFinding
    <2>3. m.control = f.control /\ Of(m.control, fs) = Of(f.control, fs)
      BY <2>1
    <2>4. m \in ordered
      BY <2>1, <2>2, <2>3 DEF RemediationOrder
    <2> QED
      BY <2>3, <2>4
  <1> HIDE DEF Needs, ordered
  <1>4. FailsOf(ordered) = ControlsOf({f \in fs : f.status = "FAIL"})
    <2>1. ASSUME NEW f \in ordered, f.status = "FAIL"
          PROVE  f.control \in ControlsOf({g \in fs : g.status = "FAIL"})
      BY <1>2, <2>1 DEF ControlsOf
    <2>2. ASSUME NEW f \in fs, f.status = "FAIL" PROVE f.control \in FailsOf(ordered)
      <3>1. PICK m \in ordered : m.control = f.control
        BY <1>1, <1>3, <2>2
      <3>2. m.status = "FAIL"
        BY <1>1, <1>2, <2>2, <3>1
      <3> QED
        BY <3>1, <3>2 DEF FailsOf, ControlsOf
    <2> QED
      BY <2>1, <2>2 DEF FailsOf, ControlsOf
  <1>5. ManualsOf(ordered) = ControlsOf({f \in fs : ByDesign(f)})
    <2>1. ASSUME NEW f \in ordered, f.status # "FAIL"
          PROVE  f.control \in ControlsOf({g \in fs : ByDesign(g)})
      <3>1. f \in fs /\ ByDesign(f)
        BY <1>1, <1>2, <2>1
      <3> QED
        BY <3>1 DEF ControlsOf
    <2>2. ASSUME NEW f \in fs, ByDesign(f) PROVE f.control \in ManualsOf(ordered)
      <3>1. PICK m \in ordered : m.control = f.control
        BY <1>1, <1>3, <2>2
      <3>2. m.status # "FAIL"
        BY <1>1, <1>2, <2>2, <3>1
      <3> QED
        BY <3>1, <3>2 DEF ManualsOf, ControlsOf
    <2>3. \A c \in ManualsOf(ordered) : \E f \in ordered : f.status # "FAIL" /\ f.control = c
      BY DEF ManualsOf, ControlsOf
    <2>4. \A c \in ControlsOf({f \in fs : ByDesign(f)}) : \E f \in fs : ByDesign(f) /\ f.control = c
      BY DEF ControlsOf
    <2> QED
      BY <2>1, <2>2, <2>3, <2>4
  <1> QED
    BY <1>4, <1>5 DEF ordered

LEMMA SweepsFit ==
  ASSUME NEW fs, Judged(fs), NEW c \in SweepsShown(fs)
  PROVE  LET jobs == {f \in fs : f.control = c /\ f.status # "NA"} IN
         Cardinality(jobs) > 1 /\ \A f \in jobs : f.status = "FAIL" /\ Checks[c].scope = "job"
  <1> DEFINE jobs == {f \in fs : f.control = c /\ f.status # "NA"}
  <1>1. {f \in Of(c, fs) : f.status # "NA"} = jobs
    BY DEF Of
  <1>2. /\ Cardinality({f \in Of(c, fs) : f.status # "NA"}) > 1
        /\ \A f \in {g \in Of(c, fs) : g.status # "NA"} :
             f.status = "FAIL" /\ f.resource # InstanceResourceName
    BY DEF SweepsShown, FullSweeps
  <1>3. Cardinality(jobs) > 1 /\ \A f \in jobs : f.status = "FAIL" /\ f.resource # InstanceResourceName
    BY <1>1, <1>2
  <1>4. \A f \in jobs : Checks[c].scope = "job"
    BY <1>3 DEF Judged, IsFinding
  <1> QED
    BY <1>3, <1>4

-----------------------------------------------------------------------------
(* The overview                                                            *)

UnreadOf(fs) == {f \in fs : Unread(f)}
Unnamed(fs) == ControlsOf(UnreadOf(fs)) \ UnreadSummary(UnreadOf(fs))

LEMMA OverviewIs ==
  ASSUME NEW fs, NEW o
  PROVE  LET r == Overview(fs, o) IN
         /\ DOMAIN r = Fields
         /\ r.leftOut = Cardinality(Unnamed(fs))
         /\ r.sweeps = IF o.noRemediations THEN {} ELSE SweepsShown(fs)
         /\ \A f \in fs : f.status = "FAIL" /\ ~f.waived => Entry({f}, f.waived) \in r.entries
         /\ \A f \in fs : ByDesign(f) /\ ~f.waived =>
              \E e \in r.entries : f \in e.stands /\ ~e.accepted
         /\ \A c \in UnreadSummary(UnreadOf(fs)) : Entry(Of(c, UnreadOf(fs)), FALSE) \in r.entries
  <1> DEFINE open == {f \in fs : ~f.waived}
             asked == {f \in fs : o.showPassed /\ f.status \in {"PASS", "NA"}}
             named == UnreadSummary(UnreadOf(fs))
             failed == Singly({f \in open : f.status = "FAIL"})
             designed == Groups({f \in open : ByDesign(f)})
             sentence == {Entry(Of(c, UnreadOf(fs)), FALSE) : c \in named}
             entries == failed \cup Singly({f \in asked : f.status = "PASS"})
                          \cup designed \cup Groups({f \in asked : f.status = "NA"})
                          \cup Singly({f \in fs : f.waived}) \cup sentence
             r == Rendering(entries, Cardinality(Unnamed(fs)))
             sweeps == IF o.noRemediations THEN {} ELSE SweepsShown(fs)
  <1>1. Overview(fs, o) = [r EXCEPT !.sweeps = sweeps]
    BY DEF Overview, UnreadOf, Unnamed
  <1>2. DOMAIN r = Fields /\ r.entries = entries /\ r.leftOut = Cardinality(Unnamed(fs))
    BY RenderingIs
  <1>3. failed \subseteq entries /\ designed \subseteq entries /\ sentence \subseteq entries
    OBVIOUS
  <1>4. \A f \in fs : f.status = "FAIL" /\ ~f.waived => Entry({f}, f.waived) \in failed
    BY SinglyIs
  <1>5. ASSUME NEW f \in fs, ByDesign(f), ~f.waived
        PROVE  \E e \in designed : f \in e.stands /\ ~e.accepted
    <2> DEFINE D == {g \in open : ByDesign(g)}
               e == Entry({g \in D : g.control = f.control /\ g.details = f.details}, FALSE)
    <2>1. f \in D
      BY <1>5
    <2>2. e \in Groups(D)
      BY <2>1 DEF Groups
    <2>3. e.stands = {g \in D : g.control = f.control /\ g.details = f.details} /\ e.accepted = FALSE
      BY EntryIs
    <2>4. f \in e.stands /\ ~e.accepted
      <3> HIDE DEF e, D
      <3> QED
        BY <2>1, <2>3
    <2> QED
      BY <2>2, <2>4
  <1>6. \A c \in named : Entry(Of(c, UnreadOf(fs)), FALSE) \in sentence
    OBVIOUS
  <1> HIDE DEF r, entries, failed, designed, sentence, named, sweeps
  <1>7. LET t == Overview(fs, o) IN
        DOMAIN t = Fields /\ t.entries = entries /\ t.leftOut = Cardinality(Unnamed(fs)) /\ t.sweeps = sweeps
    BY <1>1, <1>2 DEF Fields
  <1>8. \A f \in fs : ByDesign(f) /\ ~f.waived => \E e \in entries : f \in e.stands /\ ~e.accepted
    BY <1>3, <1>5
  <1>9. /\ \A f \in fs : f.status = "FAIL" /\ ~f.waived => Entry({f}, f.waived) \in entries
        /\ \A c \in named : Entry(Of(c, UnreadOf(fs)), FALSE) \in entries
    BY <1>3, <1>4, <1>6
  <1> QED
    BY <1>7, <1>8, <1>9 DEF named, sweeps

LEMMA OverviewHidesNothing ==
  ASSUME NEW fs, Judged(fs), NEW o
  PROVE  LET missing == Missing(fs, Overview(fs, o).entries) IN
         /\ Cardinality({<<f.control>> : f \in missing}) <= Overview(fs, o).leftOut
         /\ \A f \in missing : Unread(f)
  <1> DEFINE entries == Overview(fs, o).entries
             missing == Missing(fs, entries)
             units == {<<f.control>> : f \in missing}
             g == [c \in Unnamed(fs) |-> <<c>>]
  <1>1. ASSUME NEW f \in missing PROVE Unread(f) /\ f.control \in Unnamed(fs)
    <2>1. /\ f \in fs /\ f.status \in {"FAIL", "MANUAL"} /\ ~f.waived
          /\ ~ \E e \in entries : f \in e.stands /\ ~e.accepted
      BY DEF Missing, Open
    <2>2. f.status # "FAIL"
      <3> SUFFICES ASSUME f.status = "FAIL" PROVE FALSE
        OBVIOUS
      <3> DEFINE e == Entry({f}, f.waived)
      <3>1. e \in entries
        BY <2>1, OverviewIs
      <3>2. e.stands = {f} /\ e.accepted = f.waived
        BY EntryIs
      <3> HIDE DEF e, entries
      <3> QED
        BY <2>1, <3>1, <3>2
    <2>3. ~ByDesign(f)
      BY <2>1, OverviewIs
    <2>4. Unread(f)
      BY <2>1, <2>2, <2>3 DEF Unread, ByDesign
    <2>5. f \in UnreadOf(fs)
      BY <2>1, <2>4 DEF UnreadOf
    <2>6. f.control \in ControlsOf(UnreadOf(fs)) /\ f \in Of(f.control, UnreadOf(fs))
      BY <2>5, ControlsAre
    <2>7. f.control \notin UnreadSummary(UnreadOf(fs))
      <3> SUFFICES ASSUME f.control \in UnreadSummary(UnreadOf(fs)) PROVE FALSE
        OBVIOUS
      <3> DEFINE e == Entry(Of(f.control, UnreadOf(fs)), FALSE)
      <3>1. e \in entries
        BY OverviewIs
      <3>2. e.stands = Of(f.control, UnreadOf(fs)) /\ e.accepted = FALSE
        BY EntryIs
      <3> HIDE DEF e, entries
      <3> QED
        BY <2>1, <2>6, <3>1, <3>2
    <2> QED
      BY <2>4, <2>6, <2>7 DEF Unnamed
  <1>2. IsFiniteSet(Unnamed(fs))
    <2>1. UnreadOf(fs) \in SUBSET fs /\ IsFiniteSet(fs)
      BY DEF UnreadOf, Judged
    <2>2. IsFiniteSet(ControlsOf(UnreadOf(fs)))
      BY <2>1, FS_Subset, ControlsAre
    <2> QED
      BY <2>2, FS_Difference DEF Unnamed
  <1>3. units \subseteq {g[c] : c \in Unnamed(fs)}
    BY <1>1
  <1>4. Overview(fs, o).leftOut = Cardinality(Unnamed(fs))
    BY OverviewIs
  <1> HIDE DEF units, g
  <1>5. Cardinality(units) <= Cardinality(Unnamed(fs))
    BY <1>2, <1>3, NoMoreThan
  <1> QED
    BY <1>1, <1>4, <1>5 DEF units

LEMMA OverviewIsClean ==
  ASSUME NEW fs, Judged(fs), NEW o,
         \A e \in Overview(fs, o).entries : e.accepted \/ \A f \in e.stands : f.status # "FAIL"
  PROVE  \A f \in fs : f.status = "FAIL" => f.waived
  <1> SUFFICES ASSUME NEW f \in fs, f.status = "FAIL", ~f.waived PROVE FALSE
    BY DEF Judged, IsFinding
  <1> DEFINE e == Entry({f}, f.waived)
  <1>1. e \in Overview(fs, o).entries
    BY OverviewIs
  <1>2. e.stands = {f} /\ e.accepted = f.waived
    BY EntryIs
  <1> HIDE DEF e
  <1> QED
    BY <1>1, <1>2

-----------------------------------------------------------------------------
(* The page, whatever its format                                           *)

LEMMA RenderedPage ==
  ASSUME ReportInv, phase = "rendered"
  PROVE  /\ Judged(All) /\ Judged(Asked) /\ options \in Options
         /\ Detailed => options.maxResources \in Nat
         /\ Detailed =>
              LET s == Sections(Asked, options.showPassed) IN
              /\ Asked = FilterFindings(All, options.words)
              /\ page.entries = Drawn(s, options)
              /\ page.leftOut = Len(s) - Cardinality(Shown(s, options))
              /\ page.sweeps = {}
              /\ ~options.noRemediations =>
                   /\ page.fails = FailsOf(RemediationOrder(Asked))
                   /\ page.manuals = ManualsOf(RemediationOrder(Asked))
         /\ InOverview =>
              /\ Asked = All
              /\ page.entries = Overview(All, options).entries
              /\ page.leftOut = Overview(All, options).leftOut
              /\ page.sweeps \subseteq SweepsShown(All)
         /\ options.format = "sarif" =>
              /\ Asked = All
              /\ page.entries = Sarif(All).entries
              /\ page.leftOut = Sarif(All).leftOut
              /\ page.sweeps = {}
         /\ options.format \notin {"table", "sarif"} =>
              /\ Asked = All
              /\ page.entries = Singly(All)
              /\ page.leftOut = 0
              /\ page.sweeps = {}
         /\ page.caveats = Caveats
  <1> DEFINE body == Body(All, options)
  <1>1. Judged(All)
    BY AllAreFound
  <1>2. options \in Options
    BY DEF ReportInv
  <1>3. Detailed => options.maxResources \in Nat
    BY <1>2, ReportAssumption DEF Detailed
  <1>4. Judged(Asked)
    BY <1>1, FiltersFindings DEF Asked
  <1>5. Caveats = ScanCases
    <2>1. coverage.unlisted \in Nat
      BY DEF ReportInv
    <2>2. ListCases > 0 <=> ~coverage.complete
      BY <2>1 DEF ListCases
    <2> QED
      BY <2>2 DEF Caveats, ScanCases
  <1>6. DOMAIN body = Fields =>
          /\ page.entries = body.entries /\ page.leftOut = body.leftOut
          /\ page.fails = body.fails /\ page.manuals = body.manuals /\ page.sweeps = body.sweeps
          /\ page.caveats = Caveats
    BY <1>5, PageIs
  <1>7. CASE Detailed
    <2>1. body = DetailedTable(All, options) /\ Asked = FilterFindings(All, options.words)
      BY <1>7, BodyIs DEF Detailed, Asked
    <2>2. ~InOverview /\ options.format = "table"
      BY <1>7 DEF Detailed, InOverview
    <2> HIDE DEF body
    <2>3. DOMAIN body = Fields
      BY <2>1, DetailedIs
    <2>4. LET s == Sections(Asked, options.showPassed) IN
          /\ body.entries = Drawn(s, options)
          /\ body.leftOut = Len(s) - Cardinality(Shown(s, options))
          /\ body.sweeps = {}
          /\ ~options.noRemediations =>
               /\ body.fails = FailsOf(RemediationOrder(Asked))
               /\ body.manuals = ManualsOf(RemediationOrder(Asked))
      BY <2>1, DetailedIs
    <2> QED
      BY <1>1, <1>2, <1>3, <1>4, <1>6, <2>1, <2>2, <2>3, <2>4
  <1>8. CASE InOverview
    <2>1. body = Overview(All, options) /\ Asked = All /\ ~Detailed /\ options.format = "table"
      BY <1>8, BodyIs DEF Detailed, InOverview, Asked
    <2> HIDE DEF body
    <2>2. DOMAIN body = Fields /\ body.sweeps \subseteq SweepsShown(All)
      BY <2>1, OverviewIs
    <2> QED
      BY <1>1, <1>2, <1>4, <1>6, <1>8, <2>1, <2>2
  <1>9. CASE options.format = "sarif"
    <2>1. body = Sarif(All) /\ Asked = All /\ ~Detailed /\ ~InOverview
      BY <1>9, BodyIs DEF Detailed, InOverview, Asked
    <2> HIDE DEF body
    <2>2. DOMAIN body = Fields /\ body.sweeps = {}
      BY <1>1, <2>1, SarifIs
    <2> QED
      BY <1>1, <1>2, <1>4, <1>6, <1>9, <2>1, <2>2
  <1>10. CASE options.format \notin {"table", "sarif"}
    <2>1. body = Rendering(Singly(All), 0) /\ Asked = All /\ ~Detailed /\ ~InOverview
      BY <1>10, BodyIs DEF Detailed, InOverview, Asked
    <2> HIDE DEF body
    <2>2. DOMAIN body = Fields /\ body.sweeps = {} /\ body.entries = Singly(All) /\ body.leftOut = 0
      BY <2>1, RenderingIs
    <2> QED
      BY <1>1, <1>2, <1>4, <1>6, <1>10, <2>1, <2>2
  <1>11. Detailed \/ InOverview \/ options.format = "sarif" \/ options.format \notin {"table", "sarif"}
    BY DEF Detailed, InOverview
  <1> QED
    BY <1>7, <1>8, <1>9, <1>10, <1>11

(* A page of one entry per finding leaves nothing out.                     *)
LEMMA SinglyHidesNothing ==
  ASSUME NEW fs
  PROVE  Missing(fs, Singly(fs)) = {}
  <1> SUFFICES ASSUME NEW f \in Missing(fs, Singly(fs)) PROVE FALSE
    OBVIOUS
  <1>1. f \in fs /\ ~f.waived /\ ~ \E e \in Singly(fs) : f \in e.stands /\ ~e.accepted
    BY DEF Missing, Open
  <1> DEFINE e == Entry({f}, f.waived)
  <1>2. e \in Singly(fs) /\ e.stands = {f} /\ e.accepted = f.waived
    BY <1>1, SinglyIs, EntryIs
  <1> HIDE DEF e
  <1> QED
    BY <1>1, <1>2

(* Whatever the format, the filter and the caps, what needs doing and was  *)
(* asked about is on the page as such, or counted as left out: sections,   *)
(* results and unread controls are counted where the code breaks off.      *)
THEOREM NothingIsHidden == Spec => []NothingHidden
  <1>1. ReportInv => NothingHidden
    <2> SUFFICES ASSUME ReportInv, phase = "rendered" PROVE NothingHidden
      BY DEF NothingHidden, Rendered
    <2> DEFINE missing == {f \in Asked : Open(f) /\ ~Listed(f)}
               units == {Unit(f) : f \in missing}
    <2>1. missing = Missing(Asked, page.entries)
      BY DEF Missing, Listed
    <2> SUFFICES /\ Cardinality(units) <= page.leftOut
                 /\ InOverview => \A f \in missing : Unread(f)
      BY DEF NothingHidden
    <2>2. CASE Detailed
      <3>1. ~InOverview
        BY <2>2 DEF Detailed, InOverview
      <3>2. units = {<<f.resource>> : f \in Missing(Asked, page.entries)}
        <4>1. \A f : Unit(f) = <<f.resource>>
          BY <2>2, <3>1 DEF Unit
        <4> HIDE DEF missing
        <4> QED
          BY <2>1, <4>1
      <3> HIDE DEF units, missing
      <3> QED
        BY <2>2, <3>1, <3>2, RenderedPage, DetailedHidesNothing
    <2>3. CASE InOverview
      <3>1. ~Detailed
        BY <2>3 DEF Detailed, InOverview
      <3>2. units = {<<f.control>> : f \in Missing(Asked, page.entries)}
        BY <2>1, <2>3, <3>1 DEF Unit
      <3> HIDE DEF units, missing
      <3> QED
        BY <2>1, <2>3, <3>2, RenderedPage, OverviewHidesNothing
    <2>4. CASE options.format = "sarif"
      <3>1. ~Detailed /\ ~InOverview
        BY <2>4 DEF Detailed, InOverview
      <3>2. units = {Place(f) : f \in Missing(Asked, page.entries)}
        BY <2>1, <3>1 DEF Unit, Place
      <3> HIDE DEF units, missing
      <3> QED
        BY <2>4, <3>1, <3>2, RenderedPage, SarifHidesNothing
    <2>5. CASE options.format \notin {"table", "sarif"}
      <3>1. ~InOverview
        BY <2>5 DEF InOverview
      <3>2. missing = {}
        BY <2>1, <2>5, RenderedPage, SinglyHidesNothing
      <3>3. units = {}
        BY <3>2
      <3> HIDE DEF units, missing
      <3>4. Cardinality(units) = 0 /\ page.leftOut = 0
        BY <2>5, <3>3, FS_EmptySet, RenderedPage
      <3> QED
        BY <3>1, <3>4
    <2> QED
      BY <2>2, <2>3, <2>4, <2>5 DEF Detailed, InOverview
  <1> QED
    BY <1>1, ReportInvariance, PTL

(* A page without a caveat, a count of what it leaves out or an open       *)
(* failure comes of a scan that was whole and found none.                  *)
THEOREM CleanMeansClean == Spec => []CleanIsClean
  <1>1. ReportInv => CleanIsClean
    <2> SUFFICES ASSUME ReportInv, phase = "rendered", page.caveats = {}, page.leftOut = 0,
                        \A e \in page.entries : e.accepted \/ \A f \in e.stands : f.status # "FAIL"
                 PROVE  /\ coverage.complete /\ coverage.errors = 0
                        /\ coverage.jobs > 0 \/ \A c \in Control : Checks[c].scope # "job"
                        /\ \A f \in Asked : f.status = "FAIL" => f.waived
      BY DEF CleanIsClean, Rendered
    <2>1. Caveats = {}
      BY RenderedPage
    <2>2. coverage.complete /\ ~(coverage.errors > 0) /\ ~NoJobsAudited
      BY <2>1 DEF Caveats
    <2>3. coverage.jobs \in Nat /\ coverage.errors \in Nat
      BY DEF ReportInv
    <2>4. coverage.errors = 0
      BY <2>2, <2>3
    <2>5. coverage.jobs > 0 \/ \A c \in Control : Checks[c].scope # "job"
      BY <2>2, <2>3 DEF NoJobsAudited
    <2>6. \A f \in Asked : f.status = "FAIL" => f.waived
      <3>1. CASE Detailed
        BY <3>1, RenderedPage, DetailedIsClean
      <3>2. CASE InOverview
        BY <3>2, RenderedPage, OverviewIsClean
      <3>3. CASE options.format = "sarif"
        BY <3>3, RenderedPage, SarifIsClean
      <3>4. CASE options.format \notin {"table", "sarif"}
        <4> SUFFICES ASSUME NEW f \in All, f.status = "FAIL" PROVE f.waived
          BY <3>4, RenderedPage
        <4> DEFINE e == Entry({f}, f.waived)
        <4>1. e \in page.entries
          <5>1. page.entries = Singly(All)
            BY <3>4, RenderedPage
          <5>2. e \in Singly(All)
            BY SinglyIs
          <5> QED
            BY <5>1, <5>2
        <4>2. e.stands = {f} /\ e.accepted = f.waived
          BY EntryIs
        <4> HIDE DEF e
        <4> QED
          BY <4>1, <4>2
      <3> QED
        BY <3>1, <3>2, <3>3, <3>4 DEF Detailed, InOverview
    <2> QED
      BY <2>2, <2>4, <2>5, <2>6
  <1> QED
    BY <1>1, ReportInvariance, PTL

(* maxSARIFResults withholds no open failure while it keeps something less *)
(* severe, and --max-resources no resource with more failures than one     *)
(* that has a table.                                                       *)
THEOREM CapsKeepWorst == Spec => []CapKeepsWorst
  <1>1. ReportInv => CapKeepsWorst
    <2> SUFFICES ASSUME ReportInv, phase = "rendered" PROVE CapKeepsWorst
      BY DEF CapKeepsWorst, Rendered
    <2> DEFINE kept == UNION {e.stands : e \in page.entries}
               failures(r) == Cardinality({f \in Asked : f.resource = r /\ f.status = "FAIL"})
    <2>1. options.format = "sarif" =>
            \A f \in All \ kept : f.status = "FAIL" =>
              \A g \in kept : g.status = "FAIL" /\ Weight(g) >= Weight(f)
      BY RenderedPage, SarifKeepsWorst
    <2>2. \A g : Fails(SectionOf(Asked, g)) = failures(g.resource)
      <3> TAKE g
      <3>1. {f \in SectionOf(Asked, g) : f.status = "FAIL"}
              = {f \in Asked : f.resource = g.resource /\ f.status = "FAIL"}
        BY DEF SectionOf
      <3> QED
        BY <3>1 DEF Fails
    <2>3. Detailed =>
            \A f \in Asked \ kept : Open(f) =>
              \A g \in kept : failures(g.resource) >= failures(f.resource)
      <3> SUFFICES ASSUME Detailed, NEW f \in Asked \ kept, Open(f), NEW g \in kept
                   PROVE  failures(g.resource) >= failures(f.resource)
        OBVIOUS
      <3>1. f.status \in {"FAIL", "MANUAL"}
        BY DEF Open
      <3>2. Fails(SectionOf(Asked, g)) >= Fails(SectionOf(Asked, f))
        BY <3>1, RenderedPage, DetailedKeepsWorst
      <3> HIDE DEF failures
      <3> QED
        BY <2>2, <3>2
    <2> QED
      BY <2>1, <2>3 DEF CapKeepsWorst
  <1> QED
    BY <1>1, ReportInvariance, PTL

(* The table's headings name what failed somewhere and what only needs a   *)
(* person, and a sweep is a control that failed on each of several jobs    *)
(* (remediationOrder, splitRemediations, fullSweeps).                      *)
THEOREM RemediesMatch == Spec => []RemedyMatchesNeed
  <1>1. ReportInv => RemedyMatchesNeed
    <2> SUFFICES ASSUME ReportInv, phase = "rendered" PROVE RemedyMatchesNeed
      BY DEF RemedyMatchesNeed, Rendered
    <2>1. Detailed /\ ~options.noRemediations =>
            /\ page.fails = ControlsOf({f \in Asked : f.status = "FAIL"})
            /\ page.manuals = ControlsOf({f \in Asked : ByDesign(f)})
      BY RenderedPage, RemediesFit
    <2>2. page.sweeps \subseteq SweepsShown(All)
      BY RenderedPage DEF Detailed, InOverview
    <2>3. \A c \in page.sweeps :
            LET jobs == {f \in All : f.control = c /\ f.status # "NA"} IN
            Cardinality(jobs) > 1 /\ \A f \in jobs : f.status = "FAIL" /\ Checks[c].scope = "job"
      BY <2>2, RenderedPage, SweepsFit
    <2> QED
      BY <2>1, <2>3 DEF RemedyMatchesNeed
  <1> QED
    BY <1>1, ReportInvariance, PTL

=============================================================================
