--------------------------- MODULE RollupsProofs ---------------------------
(***************************************************************************)
(* Theorems about the two derived figures of the roster, for any roster,   *)
(* calendar, number of requests and history: about Attendance under its    *)
(* own names, and about ServiceHours under those of the instance Service.  *)
(*                                                                         *)
(* The share of the code is the one that rounds (PercentChosen), so that   *)
(* RatioInv, which speaks of the code's formula, gives RatioTrue.          *)
(***************************************************************************)
EXTENDS MCRollups, FiniteSetTheorems, WellFoundedInduction, TLAPS

-----------------------------------------------------------------------------
(* Sums *)

\* A set of numbers has a least one, and a set of finite sets one that contains no other.
LEMMA LeastNumber ==
  ASSUME NEW T, T \subseteq Nat, T # {}
  PROVE  \E n \in T : \A k \in T : n <= k
<1>1. PICK n \in T : \A k \in T : <<k, n>> \notin OpToRel(<, Nat)
  BY NatLessThanWellFounded, WFMin
<1>2. \A k \in T : ~(k < n)
  BY <1>1 DEF OpToRel
<1> QED
  BY <1>2

LEMMA LeastSubset ==
  ASSUME NEW S, IsFiniteSet(S), NEW T, T \subseteq SUBSET S, T # {}
  PROVE  \E A \in T : \A B \in T : B \subseteq A => B = A
<1>1. T \subseteq FiniteSubsetsOf(S)
  BY FS_FiniteSubsetsOfFinite
<1>2. PICK A \in T : \A B \in T : <<B, A>> \notin StrictSubsetOrdering(S)
  BY <1>1, FS_StrictSubsetOrderingWellFounded, WFMin
<1> QED
  BY <1>2 DEF StrictSubsetOrdering

Pick(s) == CHOOSE x \in s : TRUE

\* g adds up F over the subsets of S in D.
Adds(F, D, g) ==
  g = [s \in D |-> IF s = {} THEN 0 ELSE F[Pick(s)] + g[s \ {Pick(s)}]]

LEMMA Picked ==
  ASSUME NEW S, IsFiniteSet(S), NEW s \in SUBSET S, s # {}
  PROVE  /\ Pick(s) \in s /\ s \ {Pick(s)} \in SUBSET S
         /\ IsFiniteSet(s) /\ Cardinality(s) \in Nat \ {0}
         /\ Cardinality(s \ {Pick(s)}) = Cardinality(s) - 1
<1>1. Pick(s) \in s
  BY DEF Pick
<1>2. IsFiniteSet(s)
  BY FS_Subset
<1> QED
  BY <1>1, <1>2, FS_RemoveElement, FS_CardinalityType, FS_EmptySet

\* There is such a g: by induction over the size of the subsets.
LEMMA AddsExists ==
  ASSUME NEW S, IsFiniteSet(S), NEW F
  PROVE  \E g : Adds(F, SUBSET S, g)
<1> DEFINE D(n) == {s \in SUBSET S : Cardinality(s) <= n}
           T == {n \in Nat : ~\E g : Adds(F, D(n), g)}
<1>1. \A s \in SUBSET S : Cardinality(s) \in Nat /\ Cardinality(s) <= Cardinality(S)
  BY FS_Subset, FS_CardinalityType
<1>2. T = {}
  <2> SUFFICES ASSUME T # {} PROVE FALSE
    OBVIOUS
  <2>0. T \subseteq Nat
    OBVIOUS
  <2>1. PICK n \in T : \A k \in T : n <= k
    <3> HIDE DEF T
    <3> QED
      BY <2>0, LeastNumber
  <2>2. n \in Nat /\ ~\E g : Adds(F, D(n), g)
    OBVIOUS
  <2>3. CASE n = 0
    <3>1. ASSUME NEW s \in D(0) PROVE s = {}
      <4>1. s \in SUBSET S /\ Cardinality(s) <= 0
        OBVIOUS
      <4> HIDE DEF D
      <4>2. s # {} => Cardinality(s) \in Nat \ {0}
        BY <4>1, Picked
      <4>3. ~(s # {})
        BY <4>1, <4>2
      <4> QED
        BY <4>3
    <3> HIDE DEF D
    <3>2. PICK g : g = [s \in D(0) |-> 0]
      OBVIOUS
    <3>3. Adds(F, D(0), g)
      BY <3>1, <3>2 DEF Adds
    <3> QED
      BY <2>2, <2>3, <3>3
  <2>4. CASE n # 0
    <3>1. n - 1 \in Nat /\ n - 1 \notin T
      <4>1. n - 1 \in Nat /\ ~(n <= n - 1)
        BY <2>2, <2>4
      <4> HIDE DEF T
      <4> QED
        BY <2>1, <4>1
    <3>2. PICK g : Adds(F, D(n - 1), g)
      BY <3>1
    <3>3. PICK h : h = [s \in D(n) |-> IF s = {} THEN 0 ELSE F[Pick(s)] + g[s \ {Pick(s)}]]
      OBVIOUS
    <3>4. ASSUME NEW s \in D(n - 1) PROVE h[s] = g[s]
      <4>1. s \in D(n)
        BY <1>1, <2>2
      <4>2. h[s] = IF s = {} THEN 0 ELSE F[Pick(s)] + g[s \ {Pick(s)}]
        BY <3>3, <4>1
      <4> HIDE DEF D
      <4>3. g[s] = IF s = {} THEN 0 ELSE F[Pick(s)] + g[s \ {Pick(s)}]
        BY <3>2 DEF Adds
      <4> QED
        BY <4>2, <4>3
    <3>5. ASSUME NEW s \in D(n), s # {} PROVE s \ {Pick(s)} \in D(n - 1)
      BY <1>1, <2>2, <3>5, Picked
    <3> HIDE DEF D
    <3>6. \A s \in D(n) : (IF s = {} THEN 0 ELSE F[Pick(s)] + g[s \ {Pick(s)}])
                          = (IF s = {} THEN 0 ELSE F[Pick(s)] + h[s \ {Pick(s)}])
      BY <3>4, <3>5
    <3>7. Adds(F, D(n), h)
      BY <3>3, <3>6 DEF Adds
    <3> QED
      BY <2>2, <3>7
  <2> QED
    BY <2>3, <2>4
<1>3. Cardinality(S) \in Nat /\ D(Cardinality(S)) = SUBSET S
  BY <1>1, FS_CardinalityType
<1> QED
  BY <1>2, <1>3

Adding(F, S) == CHOOSE g : Adds(F, SUBSET S, g)

LEMMA AddingStep ==
  ASSUME NEW S, IsFiniteSet(S), NEW F, NEW s \in SUBSET S
  PROVE  Adding(F, S)[s] = IF s = {} THEN 0 ELSE F[Pick(s)] + Adding(F, S)[s \ {Pick(s)}]
<1>1. PICK g : g = Adding(F, S)
  OBVIOUS
<1>2. Adds(F, SUBSET S, g)
  BY <1>1, AddsExists DEF Adding
<1>3. g[s] = IF s = {} THEN 0 ELSE F[Pick(s)] + g[s \ {Pick(s)}]
  BY <1>2 DEF Adds
<1> QED
  BY <1>1, <1>3

\* A sum of numbers up to B is at most as many times B.
LEMMA AddingRange ==
  ASSUME NEW S, IsFiniteSet(S), NEW B \in Nat, NEW F \in [S -> 0..B]
  PROVE  Adding(F, S)[S] \in 0..B * Cardinality(S)
<1> DEFINE T == {s \in SUBSET S : Adding(F, S)[s] \notin 0..B * Cardinality(s)}
<1>1. T = {}
  <2> SUFFICES ASSUME T # {} PROVE FALSE
    OBVIOUS
  <2>0. T \subseteq SUBSET S
    OBVIOUS
  <2>1. PICK s \in T : \A t \in T : t \subseteq s => t = s
    <3> HIDE DEF T
    <3> QED
      BY <2>0, LeastSubset
  <2>2. CASE s = {}
    <3>1. Adding(F, S)[s] = 0 /\ Cardinality(s) = 0
      BY <2>2, AddingStep, FS_EmptySet
    <3> QED
      BY <3>1
  <2>3. CASE s # {}
    <3> DEFINE t == s \ {Pick(s)}
    <3>1. Pick(s) \in S /\ t \in SUBSET S /\ t # s /\ t \subseteq s
          /\ Cardinality(s) \in Nat \ {0} /\ Cardinality(t) = Cardinality(s) - 1
      BY <2>3, Picked
    <3>2. Adding(F, S)[t] \in 0..B * Cardinality(t)
      BY <2>1, <3>1
    <3>3. Adding(F, S)[s] = F[Pick(s)] + Adding(F, S)[t]
      BY <2>3, AddingStep
    <3>4. F[Pick(s)] \in 0..B
      BY <3>1
    <3>5. B * Cardinality(s) = B * Cardinality(t) + B
      <4>1. PICK c \in Nat : c = Cardinality(t) /\ Cardinality(s) = c + 1
        BY <3>1
      <4>2. B * (c + 1) = B * c + B
        OBVIOUS
      <4> QED
        BY <4>1, <4>2
    <3>6. B * Cardinality(t) \in Nat
      BY <3>1
    <3> HIDE DEF t
    <3> QED
      BY <3>2, <3>3, <3>4, <3>5, <3>6
  <2> QED
    BY <2>2, <2>3
<1> QED
  BY <1>1

LEMMA SumIsAdding ==
  ASSUME NEW A, NEW m, IsFiniteSet(A)
  PROVE  Service!SumOver(m, A) = Adding([e \in A |-> hours[e][m]], A)[A]
<1> DEFINE F == [e \in A |-> hours[e][m]]
<1>1. Service!SumOver(m, A) = (CHOOSE g : g = [s \in SUBSET A |-> IF s = {} THEN 0
                     ELSE hours[CHOOSE x \in s : TRUE][m] + g[s \ {CHOOSE x \in s : TRUE}]])[A]
  BY DEF Service!SumOver, Service!MapThenSumSet, Service!MapThenFoldSet
<1>2. \A g : [s \in SUBSET A |-> IF s = {} THEN 0
                ELSE hours[CHOOSE x \in s : TRUE][m] + g[s \ {CHOOSE x \in s : TRUE}]]
             = [s \in SUBSET A |-> IF s = {} THEN 0 ELSE F[Pick(s)] + g[s \ {Pick(s)}]]
  <2>1. \A s \in SUBSET A : s # {} => hours[CHOOSE x \in s : TRUE][m] = F[Pick(s)]
    BY DEF Pick
  <2> QED
    BY <2>1 DEF Pick
<1> HIDE DEF F
<1>3. \A g : Adds(F, SUBSET A, g) <=>
             g = [s \in SUBSET A |-> IF s = {} THEN 0
                ELSE hours[CHOOSE x \in s : TRUE][m] + g[s \ {CHOOSE x \in s : TRUE}]]
  <2> TAKE g
  <2>1. [s \in SUBSET A |-> IF s = {} THEN 0
                ELSE hours[CHOOSE x \in s : TRUE][m] + g[s \ {CHOOSE x \in s : TRUE}]]
             = [s \in SUBSET A |-> IF s = {} THEN 0 ELSE F[Pick(s)] + g[s \ {Pick(s)}]]
    BY <1>2
  <2> QED
    BY <2>1, Zenon DEF Adds
<1>4. Adding(F, A) = (CHOOSE g : g = [s \in SUBSET A |-> IF s = {} THEN 0
                     ELSE hours[CHOOSE x \in s : TRUE][m] + g[s \ {CHOOSE x \in s : TRUE}]])
  BY <1>3 DEF Adding
<1> QED
  BY <1>1, <1>4 DEF F

LEMMA SumIsAddingNext ==
  ASSUME NEW A, NEW m, IsFiniteSet(A), A = {e \in Events : hours'[e][m] # None}
  PROVE  Service!Sum(m)' = Adding([e \in A |-> hours'[e][m]], A)[A]
<1> DEFINE F == [e \in A |-> hours'[e][m]]
<1>1. Service!Sum(m)' = (CHOOSE g : g = [s \in SUBSET A |-> IF s = {} THEN 0
                     ELSE hours'[CHOOSE x \in s : TRUE][m] + g[s \ {CHOOSE x \in s : TRUE}]])[A]
  BY DEF Service!Sum, Service!MapThenSumSet, Service!MapThenFoldSet
<1>2. \A g : [s \in SUBSET A |-> IF s = {} THEN 0
                ELSE hours'[CHOOSE x \in s : TRUE][m] + g[s \ {CHOOSE x \in s : TRUE}]]
             = [s \in SUBSET A |-> IF s = {} THEN 0 ELSE F[Pick(s)] + g[s \ {Pick(s)}]]
  <2>1. \A s \in SUBSET A : s # {} => hours'[CHOOSE x \in s : TRUE][m] = F[Pick(s)]
    BY DEF Pick
  <2> QED
    BY <2>1 DEF Pick
<1> HIDE DEF F
<1>3. \A g : Adds(F, SUBSET A, g) <=>
             g = [s \in SUBSET A |-> IF s = {} THEN 0
                ELSE hours'[CHOOSE x \in s : TRUE][m] + g[s \ {CHOOSE x \in s : TRUE}]]
  <2> TAKE g
  <2>1. [s \in SUBSET A |-> IF s = {} THEN 0
                ELSE hours'[CHOOSE x \in s : TRUE][m] + g[s \ {CHOOSE x \in s : TRUE}]]
             = [s \in SUBSET A |-> IF s = {} THEN 0 ELSE F[Pick(s)] + g[s \ {Pick(s)}]]
    BY <1>2
  <2> QED
    BY <2>1, Zenon DEF Adds
<1>4. Adding(F, A) = (CHOOSE g : g = [s \in SUBSET A |-> IF s = {} THEN 0
                     ELSE hours'[CHOOSE x \in s : TRUE][m] + g[s \ {CHOOSE x \in s : TRUE}]])
  BY <1>3 DEF Adding
<1> QED
  BY <1>1, <1>4 DEF F

USE BoundsAssumption

-----------------------------------------------------------------------------
(* Rounding *)

\* Integer division.
LEMMA Division ==
  ASSUME NEW a \in Nat, NEW b \in Nat \ {0}
  PROVE  a \div b \in Nat /\ b * (a \div b) <= a /\ a < b * (a \div b) + b
OBVIOUS

\* The percentage is rounded to the nearest whole number.
LEMMA PercentRounds ==
  ASSUME NEW n \in Nat, NEW d \in Nat \ {0}
  PROVE  /\ Percent(n, d) \in Nat
         /\ 2 * d * Percent(n, d) <= 200 * n + d
         /\ 200 * n + d < 2 * d * Percent(n, d) + 2 * d
<1> DEFINE a == 200 * n + d
           b == 2 * d
<1>1. a \in Nat /\ b \in Nat \ {0} /\ Percent(n, d) = a \div b
  BY DEF Percent
<1> HIDE DEF a, b
<1>2. Percent(n, d) \in Nat /\ b * Percent(n, d) <= a /\ a < b * Percent(n, d) + b
  BY <1>1, Division
<1> QED
  BY <1>2 DEF a, b

LEMMA Scale ==
  ASSUME NEW k \in Nat, NEW p \in Int, NEW q \in Int, p < q
  PROVE  k * p + k <= k * q
<1>1. q - p - 1 \in Nat
  OBVIOUS
<1>2. k * (q - p - 1) >= 0
  BY <1>1
<1>3. k * (q - p - 1) = k * q - k * p - k
  OBVIOUS
<1>4. k * p \in Int /\ k * q \in Int
  OBVIOUS
<1> QED
  BY <1>2, <1>3, <1>4

LEMMA PercentRange ==
  ASSUME NEW n \in Nat, NEW d \in Nat, n <= d
  PROVE  Percent(n, d) \in 0..100
<1>1. CASE d = 0
  BY <1>1 DEF Percent
<1>2. CASE d # 0
  <2> DEFINE p == Percent(n, d)
  <2>1. p \in Nat /\ 2 * d * p <= 200 * n + d
    BY <1>2, PercentRounds
  <2> HIDE DEF p
  <2>2. CASE 100 < p
    <3>1. 2 * d * 100 + 2 * d <= 2 * d * p
      BY <2>1, <2>2, Scale
    <3>2. 2 * d * p \in Nat
      BY <2>1
    <3> QED
      BY <1>2, <2>1, <3>1, <3>2
  <2> QED
    BY <2>1, <2>2 DEF p
<1> QED
  BY <1>1, <1>2

LEMMA PercentOfNone ==
  ASSUME NEW d \in Nat
  PROVE  Percent(0, d) = 0
<1>1. CASE d = 0
  BY <1>1 DEF Percent
<1>2. CASE d # 0
  <2>1. PICK p \in Nat : p = Percent(0, d) /\ 2 * d * p <= d
    BY <1>2, PercentRounds
  <2>2. CASE 0 < p
    <3>1. 2 * d * 0 + 2 * d <= 2 * d * p
      BY <2>2, Scale
    <3>2. 2 * d * p \in Nat
      OBVIOUS
    <3> QED
      BY <1>2, <2>1, <3>1, <3>2
  <2> QED
    BY <2>1, <2>2
<1> QED
  BY <1>1, <1>2

\* No other whole number is as near.
LEMMA PercentChosen ==
  ASSUME NEW n \in Nat, NEW d \in Nat \ {0}, n <= d
  PROVE  Percent(n, d) = CHOOSE p \in 0..100 : 2 * p * d - 200 * n \in -d + 1..d
<1> DEFINE p == Percent(n, d)
           Fits(q) == 2 * q * d - 200 * n \in -d + 1..d
<1>1. p \in 0..100 /\ 2 * d * p <= 200 * n + d /\ 200 * n + d < 2 * d * p + 2 * d
  BY PercentRange, PercentRounds
<1> HIDE DEF p
<1>2. Fits(p)
  <2>1. 2 * d * p \in Nat /\ 2 * p * d = 2 * d * p
    BY <1>1
  <2> QED
    BY <1>1, <2>1
<1>3. ASSUME NEW q \in 0..100, Fits(q) PROVE q = p
  <2>1. 2 * d * p \in Nat /\ 2 * d * q \in Nat /\ 2 * q * d = 2 * d * q /\ 2 * d \in Nat
    BY <1>1
  <2>2. CASE q < p
    <3>1. 2 * d * q + 2 * d <= 2 * d * p
      BY <1>1, <2>1, <2>2, Scale
    <3> QED
      BY <1>1, <1>3, <2>1, <3>1
  <2>3. CASE p < q
    <3>1. 2 * d * p + 2 * d <= 2 * d * q
      BY <1>1, <2>1, <2>3, Scale
    <3> QED
      BY <1>1, <1>3, <2>1, <3>1
  <2> QED
    BY <1>1, <2>2, <2>3
<1> HIDE DEF Fits
<1>4. p = CHOOSE q \in 0..100 : Fits(q)
  BY <1>1, <1>2, <1>3
<1> QED
  BY <1>4 DEF p, Fits
-----------------------------------------------------------------------------
(* The percentage of a member *)

LEMMA Shares ==
  ASSUME mandatory \subseteq Events, NEW m, NEW t
  PROVE  /\ Cardinality(Attended(m, t)) \in Nat /\ Cardinality(Eligible(m, t)) \in Nat
         /\ Cardinality(Attended(m, t)) <= Cardinality(Eligible(m, t))
         /\ Cardinality(Eligible(m, t)) = 0 => Attended(m, t) = {}
         /\ Attended(m, t) = {} => Cardinality(Attended(m, t)) = 0
<1>1. Eligible(m, t) \subseteq Events /\ Attended(m, t) \subseteq Eligible(m, t)
  BY DEF Eligible, Attended
<1>2. IsFiniteSet(Eligible(m, t)) /\ IsFiniteSet(Attended(m, t))
  BY <1>1, FS_Subset
<1>3. Cardinality(Attended(m, t)) <= Cardinality(Eligible(m, t))
  BY <1>1, <1>2, FS_Subset
<1>4. Cardinality(Eligible(m, t)) = 0 => Eligible(m, t) = {}
  BY <1>2, FS_EmptySet
<1> QED
  BY <1>1, <1>2, <1>3, <1>4, FS_CardinalityType, FS_EmptySet

LEMMA RatioRange ==
  ASSUME mandatory \subseteq Events, NEW m, NEW t
  PROVE  RatioOf(m, t) \in Exempt..100
<1>1. Percent(Cardinality(Attended(m, t)), Cardinality(Eligible(m, t))) \in 0..100
  BY Shares, PercentRange
<1> QED
  BY <1>1 DEF RatioOf, Exempt

\* What the code computes is the rounded share of the events that count.
LEMMA RatioIsTruth ==
  ASSUME mandatory \subseteq Events, NEW m, NEW t
  PROVE  RatioOf(m, t) = Truth(m, t)
<1> DEFINE due == Eligible(m, t)
           came == Attended(m, t)
           Share == IF came = {} THEN 0
                    ELSE CHOOSE p \in 0..100 : 2 * p * Cardinality(due) - 200 * Cardinality(came)
                                                  \in -Cardinality(due) + 1..Cardinality(due)
<1>1. Truth(m, t) = IF <<t, m>> \in exempt THEN Exempt ELSE Share
  <2>1. due = {e \in mandatory :
                 /\ records[e][m] # None
                 /\ records[e][m].term = t
                 /\ excuses[e][m] # None /\ excuses[e][m].term = t
                      => excuses[e][m].status # "approved"}
    BY DEF Eligible, Excused
  <2>2. came = {e \in due : records[e][m].attended}
    BY DEF Attended
  <2> QED
    BY <2>1, <2>2 DEF Truth
<1>2. Percent(Cardinality(came), Cardinality(due)) = Share
  <2>1. CASE came = {}
    <3>1. Cardinality(came) = 0 /\ Cardinality(due) \in Nat
      BY <2>1, Shares
    <3> HIDE DEF due, came
    <3> QED
      BY <2>1, <3>1, PercentOfNone
  <2>2. CASE came # {}
    <3>1. /\ Cardinality(came) \in Nat /\ Cardinality(due) \in Nat \ {0}
          /\ Cardinality(came) <= Cardinality(due)
      BY <2>2, Shares
    <3> HIDE DEF due, came
    <3> QED
      BY <2>2, <3>1, PercentChosen
  <2> QED
    BY <2>1, <2>2
<1> QED
  BY <1>1, <1>2 DEF RatioOf

LEMMA SameSources ==
  ASSUME UNCHANGED <<mandatory, records, excuses, exempt>>, NEW m, NEW t
  PROVE  RatioOf(m, t)' = RatioOf(m, t)
BY DEF RatioOf, Attended, Eligible, Excused

-----------------------------------------------------------------------------
(* The requests *)

JobsType == pc \in [Workers -> Steps] /\ job \in [Workers -> Job]

\* The type without the requests.
TablesOK ==
  /\ terms \in Terms /\ active \subseteq 1..terms
  /\ mandatory \subseteq Events
  /\ records \in [Events -> [Members -> Record \cup {None}]]
  /\ excuses \in [Events -> [Members -> Excuse \cup {None}]]
  /\ exempt \subseteq (1..terms) \X Members
  /\ ratio \in [Members -> Exempt..100]
  /\ requests \in 0..MaxRequests
  /\ doubt \subseteq Members
  /\ mishaps \subseteq Mishaps

LEMMA Parts ==
  ASSUME IInv
  PROVE  TypeOK /\ TablesOK /\ JobsType /\ JobsInv /\ SwitchInv /\ RatioInv
BY DEF IInv, TypeOK, TablesOK, JobsType

LEMMA Whole ==
  ASSUME TablesOK', JobsType', JobsInv', SwitchInv', RatioInv'
  PROVE  IInv'
BY DEF IInv, TypeOK, TablesOK, JobsType

LEMMA NullJobType ==
  /\ NoJob \in Job
  /\ NoJob.who = {} /\ ~NoJob.overtaken
BY DEF NoJob, Job, Exempt

\* A step of w alone.
LEMMA Moves ==
  ASSUME JobsType, NEW w \in Workers, NEW step \in Steps, NEW j \in Job,
         Goto(w, step), job' = [job EXCEPT ![w] = j]
  PROVE  /\ JobsType' /\ pc'[w] = step /\ job'[w] = j
         /\ \A x \in Workers \ {w} : pc'[x] = pc[x] /\ job'[x] = job[x]
BY DEF JobsType, Goto

\* A step of w that overtakes others.
LEMMA MovesOver ==
  ASSUME JobsType, NEW w \in Workers, NEW step \in Steps, NEW j \in Job, NEW S,
         Goto(w, step), Overtake(w, S, j)
  PROVE  /\ JobsType' /\ pc'[w] = step /\ job'[w] = j
         /\ \A x \in Workers \ {w} :
              /\ pc'[x] = pc[x]
              /\ job'[x] = [job[x] EXCEPT !.overtaken =
                               @ \/ (pc[x] = "read" /\ job[x].who \cap S # {})]
<1>1. pc' \in [Workers -> Steps] /\ pc'[w] = step
      /\ \A x \in Workers \ {w} : pc'[x] = pc[x]
  BY DEF JobsType, Goto
<1>2. \A x \in Workers \ {w} :
        /\ job'[x] = [job[x] EXCEPT !.overtaken =
                         @ \/ (pc[x] = "read" /\ job[x].who \cap S # {})]
        /\ job'[x] \in Job
  <2> SUFFICES ASSUME NEW x \in Workers \ {w}
               PROVE  LET k == [job[x] EXCEPT !.overtaken =
                                  @ \/ (pc[x] = "read" /\ job[x].who \cap S # {})]
                      IN  k \in Job /\ job'[x] = k
    OBVIOUS
  <2>1. job[x] \in Job
    BY DEF JobsType
  <2>2. \A b \in BOOLEAN : [job[x] EXCEPT !.overtaken = b] \in Job
    BY <2>1 DEF Job
  <2>3. (job[x].overtaken \/ (pc[x] = "read" /\ job[x].who \cap S # {})) \in BOOLEAN
    BY <2>1 DEF Job
  <2> QED
    BY <2>2, <2>3 DEF Overtake
<1>3. job'[w] = j /\ job' = [x \in Workers |-> job'[x]]
  BY DEF Overtake
<1>4. job' \in [Workers -> Job]
  BY <1>2, <1>3
<1> QED
  BY <1>1, <1>2, <1>3, <1>4 DEF JobsType

\* What another request has read and nobody has overtaken is still so.
LEMMA OthersKnow ==
  ASSUME JobsType, NEW x \in Workers, JobOK(x), NEW S, pc'[x] = pc[x],
         job'[x] = [job[x] EXCEPT !.overtaken =
                      @ \/ (pc[x] = "read" /\ job[x].who \cap S # {})],
         \A m \in Members \ S : \A t \in Terms : RatioOf(m, t)' = RatioOf(m, t)
  PROVE  JobOK(x)'
<1>1. PICK k \in Job : k = job[x]
  BY DEF JobsType
<1>2. PICK n : n = job'[x]
  OBVIOUS
<1>3. /\ n.who = k.who /\ n.term = k.term /\ n.event = k.event /\ n.officer = k.officer
      /\ n.prior = k.prior /\ n.ratios = k.ratios
      /\ pc[x] = "read" /\ ~n.overtaken => ~k.overtaken /\ k.who \cap S = {}
      /\ k.who \subseteq Members /\ k.term \in Terms \cup {None}
  BY <1>1, <1>2 DEF Job
<1>4. ASSUME pc[x] = "read", ~n.overtaken, NEW m \in n.who, NEW t \in Terms, n.term = t
      PROVE  n.ratios[m] = RatioOf(m, t)'
  <2>1. k.ratios[m] = RatioOf(m, t)
    BY <1>1, <1>3, <1>4 DEF JobOK
  <2>2. RatioOf(m, t)' = RatioOf(m, t)
    BY <1>3, <1>4
  <2> QED
    BY <1>3, <2>1, <2>2
<1>5. /\ pc'[x] \in {"recording", "excusing"} => n.event \in Events
      /\ pc'[x] # "idle" => n.term \in Terms
      /\ pc'[x] = "excusing" =>
           /\ \E m \in Members : n.who = {m}
           /\ ~n.officer => Open(n.prior)
  BY <1>1, <1>3 DEF JobOK
<1> QED
  BY <1>2, <1>4, <1>5 DEF JobOK, Open

LEMMA JobsStand ==
  ASSUME JobsType, JobsInv, NEW w \in Workers, NEW S, JobOK(w)',
         \A x \in Workers \ {w} :
           /\ pc'[x] = pc[x]
           /\ job'[x] = [job[x] EXCEPT !.overtaken =
                            @ \/ (pc[x] = "read" /\ job[x].who \cap S # {})],
         \A m \in Members \ S : \A t \in Terms : RatioOf(m, t)' = RatioOf(m, t)
  PROVE  JobsInv'
<1> SUFFICES ASSUME NEW x \in Workers PROVE JobOK(x)'
  BY DEF JobsInv
<1>1. CASE x = w
  BY <1>1
<1>2. CASE x # w
  BY <1>2, OthersKnow DEF JobsInv
<1> QED
  BY <1>1, <1>2

\* The same for a step of w alone.
LEMMA JobsStandStill ==
  ASSUME JobsType, JobsInv, NEW w \in Workers, JobOK(w)',
         \A x \in Workers \ {w} : pc'[x] = pc[x] /\ job'[x] = job[x],
         \A m \in Members : \A t \in Terms : RatioOf(m, t)' = RatioOf(m, t)
  PROVE  JobsInv'
<1>1. ASSUME NEW x \in Workers \ {w}
      PROVE  job'[x] = [job[x] EXCEPT !.overtaken =
                          @ \/ (pc[x] = "read" /\ job[x].who \cap {} # {})]
  BY <1>1 DEF JobsType, Job
<1>2. PICK S : S = {}
  OBVIOUS
<1>3. /\ \A x \in Workers \ {w} :
           /\ pc'[x] = pc[x]
           /\ job'[x] = [job[x] EXCEPT !.overtaken =
                            @ \/ (pc[x] = "read" /\ job[x].who \cap S # {})]
      /\ \A m \in Members \ S : \A t \in Terms : RatioOf(m, t)' = RatioOf(m, t)
  BY <1>1, <1>2
<1> QED
  BY <1>3, JobsStand

\* Nobody owes m a recalculation afterwards: then nobody but w did before.
LEMMA OwedBefore ==
  ASSUME NEW w \in Workers, NEW m, ~Owed(m)',
         \A x \in Workers \ {w} : pc'[x] = pc[x] /\ job'[x].who = job[x].who,
         ~(pc[w] \in {"emitted", "read"} /\ m \in job[w].who)
  PROVE  ~Owed(m)
BY DEF Owed

LEMMA SwitchStands ==
  ASSUME SwitchInv, mishaps \subseteq mishaps', active' = active,
         \A x \in Workers : pc'[x] = "switching" <=> pc[x] = "switching"
  PROVE  SwitchInv'
<1>1. Switching' = Switching
  BY DEF Switching
<1> QED
  BY <1>1 DEF SwitchInv, SwitchBound

\* What is known of the percentage of m stays known, unless a recalculation is owed or
\* nobody vouches for it any more.
LEMMA RatioStands ==
  ASSUME TablesOK, RatioInv, NEW w \in Workers, active' = active,
         \A x \in Workers \ {w} : pc'[x] = pc[x] /\ job'[x].who = job[x].who,
         \A m \in Members : m \notin doubt' /\ ~Owed(m)' =>
           /\ m \notin doubt /\ ratio'[m] = ratio[m]
           /\ ~(pc[w] \in {"emitted", "read"} /\ m \in job[w].who)
           /\ \A t \in Terms : RatioOf(m, t)' = RatioOf(m, t)
  PROVE  RatioInv'
<1> SUFFICES ASSUME NEW m \in Members \ doubt', NEW t \in active, active = {t}, ~Owed(m)'
             PROVE  ratio'[m] = RatioOf(m, t)'
  BY DEF RatioInv
<1>1. t \in Terms
  BY DEF TablesOK, Terms
<1>2. m \notin doubt /\ ~Owed(m)
  BY OwedBefore
<1>3. ratio[m] = RatioOf(m, t)
  BY <1>2 DEF RatioInv
<1> QED
  BY <1>1, <1>3

\* A request reads, or begins with reading.
LEMMA QuietIInv ==
  ASSUME IInv, NEW w \in Workers, NEW step \in Steps, NEW j \in Job,
         Goto(w, step), job' = [job EXCEPT ![w] = j],
         UNCHANGED <<sources, ratio, doubt, mishaps>>, requests' \in 0..MaxRequests,
         pc[w] # "switching", step # "switching", JobOK(w)',
         pc[w] \in {"emitted", "read"} => step \in {"emitted", "read"} /\ j.who = job[w].who
  PROVE  IInv'
<1>0. TablesOK /\ JobsType /\ JobsInv /\ SwitchInv /\ RatioInv
  BY Parts
<1>1. /\ JobsType' /\ pc'[w] = step /\ job'[w] = j
      /\ \A x \in Workers \ {w} : pc'[x] = pc[x] /\ job'[x] = job[x]
  BY <1>0, Moves
<1>2. \A m \in Members : \A t \in Terms : RatioOf(m, t)' = RatioOf(m, t)
  BY SameSources DEF sources
<1>3. JobsInv'
  BY <1>0, <1>1, <1>2, JobsStandStill
<1>4. RatioInv'
  <2>1. ASSUME NEW m \in Members, ~Owed(m)'
        PROVE  ~(pc[w] \in {"emitted", "read"} /\ m \in job[w].who)
    BY <1>1, <2>1 DEF Owed
  <2> QED
    BY <1>0, <1>1, <1>2, <2>1, RatioStands DEF sources
<1>5. SwitchInv'
  BY <1>0, <1>1, SwitchStands DEF sources
<1>6. TablesOK'
  BY <1>0 DEF TablesOK, sources
<1> QED
  BY <1>1, <1>3, <1>4, <1>5, <1>6, Whole

LEMMA StartRollIInv ==
  ASSUME IInv, NEW w \in Workers, NEW e \in Events, NEW present \in SUBSET Members,
         StartRoll(w, e, present)
  PROVE  IInv'
<1>0. TablesOK /\ JobsType
  BY Parts
<1>1. PICK t \in active :
        job' = [job EXCEPT ![w] =
                 [NoJob EXCEPT !.event = e, !.term = t, !.present = present,
                    !.who = {m \in Members : ~Excused(e, m, t) /\ <<t, m>> \notin exempt}]]
  BY DEF StartRoll
<1>2. PICK W : W = {m \in Members : ~Excused(e, m, t) /\ <<t, m>> \notin exempt}
  OBVIOUS
<1>3. PICK j : j = [NoJob EXCEPT !.event = e, !.term = t, !.present = present, !.who = W]
  OBVIOUS
<1>4. t \in Terms /\ W \subseteq Members
  BY <1>0, <1>2 DEF TablesOK, Terms
<1>5. j \in Job /\ j.event = e /\ j.term = t
  BY <1>3, <1>4, NullJobType DEF Job
<1>6. job' = [job EXCEPT ![w] = j] /\ Goto(w, "recording") /\ pc[w] = "idle"
      /\ UNCHANGED <<sources, ratio, doubt, mishaps>> /\ requests' \in 0..MaxRequests
  <2>1. job' = [job EXCEPT ![w] = j]
    BY <1>1, <1>2, <1>3
  <2>2. requests' \in 0..MaxRequests
    BY <1>0 DEF StartRoll, Begin, TablesOK
  <2> QED
    BY <2>1, <2>2 DEF StartRoll, Begin
<1>7. JobOK(w)'
  <2>1. pc'[w] = "recording" /\ job'[w] = j
    BY <1>0, <1>5, <1>6, Moves DEF Steps
  <2> QED
    BY <1>4, <1>5, <2>1 DEF JobOK
<1> QED
  BY <1>5, <1>6, <1>7, QuietIInv DEF Steps

LEMMA StartExcuseIInv ==
  ASSUME IInv, NEW w \in Workers, NEW e \in Events, NEW m \in Members, NEW officer \in BOOLEAN,
         StartExcuse(w, e, m, officer)
  PROVE  IInv'
<1>0. TablesOK /\ JobsType
  BY Parts
<1>1. PICK t \in active :
        job' = [job EXCEPT ![w] =
                 [NoJob EXCEPT !.event = e, !.term = t, !.who = {m}, !.officer = officer,
                    !.prior = excuses[e][m]]]
  BY DEF StartExcuse
<1>2. PICK x \in Excuse \cup {None} : x = excuses[e][m]
  BY <1>0 DEF TablesOK
<1>3. PICK j : j = [NoJob EXCEPT !.event = e, !.term = t, !.who = {m}, !.officer = officer,
                      !.prior = x]
  OBVIOUS
<1>4. t \in Terms
  BY <1>0 DEF TablesOK, Terms
<1>5. j \in Job /\ j.event = e /\ j.term = t /\ j.who = {m} /\ j.officer = officer /\ j.prior = x
  BY <1>3, <1>4, NullJobType DEF Job
<1>6. job' = [job EXCEPT ![w] = j] /\ Goto(w, "excusing") /\ pc[w] = "idle"
      /\ UNCHANGED <<sources, ratio, doubt, mishaps>> /\ requests' \in 0..MaxRequests
      /\ (~officer => Open(x))
  <2>1. job' = [job EXCEPT ![w] = j]
    BY <1>1, <1>2, <1>3
  <2>2. requests' \in 0..MaxRequests
    BY <1>0 DEF StartExcuse, Begin, TablesOK
  <2> QED
    BY <1>2, <2>1, <2>2 DEF StartExcuse, Begin
<1>7. JobOK(w)'
  <2>1. pc'[w] = "excusing" /\ job'[w] = j
    BY <1>0, <1>5, <1>6, Moves DEF Steps
  <2> QED
    BY <1>4, <1>5, <1>6, <2>1 DEF JobOK, Open
<1> QED
  BY <1>5, <1>6, <1>7, QuietIInv DEF Steps

\* The reads of a recalculation: at this moment they are right.
LEMMA ReadRatiosIInv ==
  ASSUME IInv, NEW w \in Workers, ReadRatios(w)
  PROVE  IInv'
<1>0. TablesOK /\ JobsType /\ JobsInv
  BY Parts
<1>1. PICK k \in Job : k = job[w]
  BY <1>0 DEF JobsType
<1>2. PICK r : r = [m \in Members |-> IF m \in k.who THEN RatioOf(m, k.term) ELSE 0]
  OBVIOUS
<1>3. PICK j : j = [k EXCEPT !.ratios = r]
  OBVIOUS
<1>4. r \in [Members -> Exempt..100]
  <2>1. \A m \in Members : RatioOf(m, k.term) \in Exempt..100
    BY <1>0, RatioRange DEF TablesOK
  <2>2. 0 \in Exempt..100
    BY DEF Exempt
  <2> QED
    BY <1>2, <2>1, <2>2
<1>5. j \in Job /\ j.who = k.who /\ j.term = k.term /\ j.ratios = r
  BY <1>3, <1>4 DEF Job
<1>6. job' = [job EXCEPT ![w] = j] /\ Goto(w, "read") /\ pc[w] = "emitted"
      /\ UNCHANGED <<sources, ratio, doubt, mishaps, requests>>
  BY <1>1, <1>2, <1>3 DEF ReadRatios
<1>7. JobOK(w)'
  <2>1. pc'[w] = "read" /\ job'[w] = j
    BY <1>0, <1>5, <1>6, Moves DEF Steps
  <2>2. k.term \in Terms /\ k.who \subseteq Members
    BY <1>0, <1>1, <1>6 DEF JobsInv, JobOK, Job
  <2>3. ASSUME NEW m \in j.who, NEW t \in Terms, j.term = t
        PROVE  j.ratios[m] = RatioOf(m, t)'
    <3>1. RatioOf(m, t)' = RatioOf(m, t)
      BY <1>6, SameSources DEF sources
    <3> QED
      BY <1>2, <1>5, <2>2, <2>3, <3>1
  <2> QED
    BY <1>5, <2>1, <2>2, <2>3 DEF JobOK
<1>8. requests' \in 0..MaxRequests
  BY <1>0, <1>6 DEF TablesOK
<1> QED
  BY <1>1, <1>5, <1>6, <1>7, <1>8, QuietIInv DEF Steps

-----------------------------------------------------------------------------
(* The commits *)

\* A change of what the percentages of S are derived from, and its event.
LEMMA EmitIInv ==
  ASSUME IInv, NEW w \in Workers, NEW S \in SUBSET Members, NEW t \in Terms, Emit(w, S, t),
         pc[w] \in {"idle", "recording", "excusing"}, TablesOK',
         UNCHANGED <<active, ratio>>, doubt \subseteq doubt', mishaps \subseteq mishaps',
         \A m \in Members \ S : \A u \in Terms : RatioOf(m, u)' = RatioOf(m, u)
  PROVE  IInv'
<1>0. TablesOK /\ JobsType /\ JobsInv /\ SwitchInv /\ RatioInv
  BY Parts
<1>1. PICK j : j = [NoJob EXCEPT !.who = S, !.term = t]
  OBVIOUS
<1>2. j \in Job /\ j.who = S /\ j.term = t
  BY <1>1, NullJobType DEF Job
<1>3. Goto(w, "emitted") /\ Overtake(w, S, j)
  BY <1>1 DEF Emit
<1>4. /\ JobsType' /\ pc'[w] = "emitted" /\ job'[w] = j
      /\ \A x \in Workers \ {w} :
           /\ pc'[x] = pc[x]
           /\ job'[x] = [job[x] EXCEPT !.overtaken =
                            @ \/ (pc[x] = "read" /\ job[x].who \cap S # {})]
  BY <1>0, <1>2, <1>3, MovesOver DEF Steps
<1>5. JobOK(w)'
  BY <1>2, <1>4 DEF JobOK
<1>6. JobsInv'
  BY <1>0, <1>4, <1>5, JobsStand
<1>7. \A x \in Workers \ {w} : pc'[x] = pc[x] /\ job'[x].who = job[x].who
  BY <1>0, <1>4 DEF JobsType, Job
<1>8. RatioInv'
  <2>1. ASSUME NEW m \in Members, ~Owed(m)' PROVE m \notin S
    BY <1>2, <1>4, <2>1 DEF Owed
  <2> QED
    BY <1>0, <1>7, <2>1, RatioStands
<1>9. SwitchInv'
  BY <1>0, <1>4, SwitchStands
<1> QED
  BY <1>4, <1>6, <1>8, <1>9, Whole

LEMMA RecordAttendanceIInv ==
  ASSUME IInv, NEW w \in Workers, RecordAttendance(w)
  PROVE  IInv'
<1>0. TablesOK /\ JobsType /\ JobsInv
  BY Parts
<1>1. PICK j \in Job : j = job[w]
  BY <1>0 DEF JobsType
<1>2. j.event \in Events /\ j.term \in Terms /\ pc[w] = "recording"
  BY <1>0, <1>1 DEF RecordAttendance, JobsInv, JobOK
<1>3. /\ records' = [records EXCEPT ![j.event] =
           [m \in Members |-> IF m \in j.who THEN [term |-> j.term, attended |-> m \in j.present]
                              ELSE records[j.event][m]]]
      /\ Emit(w, Members, j.term)
      /\ UNCHANGED <<terms, active, mandatory, excuses, exempt, ratio, requests, doubt, mishaps>>
  BY <1>1 DEF RecordAttendance
<1>4. records' \in [Events -> [Members -> Record \cup {None}]]
  <2>1. \A m \in Members : [term |-> j.term, attended |-> m \in j.present] \in Record
    BY <1>2 DEF Record
  <2>2. [m \in Members |-> IF m \in j.who THEN [term |-> j.term, attended |-> m \in j.present]
                            ELSE records[j.event][m]] \in [Members -> Record \cup {None}]
    BY <1>0, <1>2, <2>1 DEF TablesOK
  <2> QED
    BY <1>0, <1>2, <1>3, <2>2 DEF TablesOK
<1>5. TablesOK'
  BY <1>0, <1>3, <1>4 DEF TablesOK
<1> QED
  BY <1>2, <1>3, <1>5, EmitIInv

\* What becomes of one excuse concerns one member only.
LEMMA OneExcuse ==
  ASSUME TablesOK, NEW e \in Events, NEW m \in Members, NEW y \in Excuse,
         excuses' = [excuses EXCEPT ![e][m] = y]
  PROVE  /\ excuses'[e][m] = y
         /\ \A d \in Events, n \in Members : d # e \/ n # m => excuses'[d][n] = excuses[d][n]
         /\ excuses' \in [Events -> [Members -> Excuse \cup {None}]]
BY DEF TablesOK

LEMMA SameExcused ==
  ASSUME TablesOK, UNCHANGED <<mandatory, records, exempt>>, NEW n \in Members, NEW t \in Terms,
         \A d \in Events : Excused(d, n, t)' <=> Excused(d, n, t)
  PROVE  RatioOf(n, t)' = RatioOf(n, t)
<1>1. Eligible(n, t)' = Eligible(n, t)
  BY DEF Eligible, TablesOK
<1>2. Attended(n, t)' = Attended(n, t)
  BY <1>1 DEF Attended
<1> QED
  BY <1>1, <1>2 DEF RatioOf

LEMMA ExcuseOfAnother ==
  ASSUME TablesOK, NEW e \in Events, NEW m \in Members, NEW y \in Excuse,
         excuses' = [excuses EXCEPT ![e][m] = y], UNCHANGED <<mandatory, records, exempt>>,
         NEW n \in Members \ {m}, NEW t \in Terms
  PROVE  RatioOf(n, t)' = RatioOf(n, t)
<1>1. \A d \in Events : excuses'[d][n] = excuses[d][n]
  BY OneExcuse
<1>2. \A d \in Events : Excused(d, n, t)' <=> Excused(d, n, t)
  BY <1>1 DEF Excused
<1> QED
  BY <1>2, SameExcused

\* An excuse that is not approved, before or after, counts for nothing.
LEMMA ExcuseOfNoWeight ==
  ASSUME TablesOK, NEW e \in Events, NEW m \in Members, NEW y \in Excuse,
         excuses' = [excuses EXCEPT ![e][m] = y], UNCHANGED <<mandatory, records, exempt>>,
         excuses[e][m] = None \/ excuses[e][m].status # "approved", y.status # "approved",
         NEW t \in Terms
  PROVE  RatioOf(m, t)' = RatioOf(m, t)
<1>1. ASSUME NEW d \in Events PROVE Excused(d, m, t)' <=> Excused(d, m, t)
  <2>1. CASE d = e
    BY <2>1, OneExcuse DEF Excused
  <2>2. CASE d # e
    <3>1. excuses'[d][m] = excuses[d][m]
      BY <2>2, OneExcuse
    <3> QED
      BY <3>1 DEF Excused
  <2> QED
    BY <2>1, <2>2
<1> QED
  BY <1>1, SameExcused

\* The upsert: an officer's is an approval with its event, a member's is nothing yet, but it
\* may undo what was decided after it was checked.
LEMMA SubmitExcuseIInv ==
  ASSUME IInv, NEW w \in Workers, SubmitExcuse(w)
  PROVE  IInv'
<1>0. TablesOK /\ JobsType /\ JobsInv /\ SwitchInv /\ RatioInv
  BY Parts
<1>1. PICK j \in Job : j = job[w]
  BY <1>0 DEF JobsType
<1>2. /\ pc[w] = "excusing" /\ j.event \in Events /\ j.term \in Terms
      /\ ~j.officer => Open(j.prior)
  BY <1>0, <1>1 DEF SubmitExcuse, JobsInv, JobOK
<1>3. PICK m \in Members : j.who = {m}
  BY <1>0, <1>1, <1>2 DEF JobsInv, JobOK
<1>4. m = CHOOSE x \in Members : j.who = {x}
  BY <1>3
<1>5. PICK old \in Excuse \cup {None} : old = excuses[j.event][m]
  BY <1>0, <1>2 DEF TablesOK
<1>6. PICK y : y = [term |-> IF old = None THEN j.term ELSE old.term,
                    status |-> IF j.officer THEN "approved" ELSE "pending"]
  OBVIOUS
<1>7. y \in Excuse /\ y.status = (IF j.officer THEN "approved" ELSE "pending")
  BY <1>2, <1>5, <1>6 DEF Excuse
<1>8. /\ excuses' = [excuses EXCEPT ![j.event][m] = y]
      /\ IF j.officer THEN Emit(w, {m}, j.term) ELSE Goto(w, "idle") /\ Overtake(w, {m}, NoJob)
      /\ doubt' = IF ~j.officer /\ old # j.prior THEN doubt \cup {m} ELSE doubt
      /\ UNCHANGED <<terms, active, mandatory, records, exempt, ratio, requests, mishaps>>
  <2>1. excuses' = [excuses EXCEPT ![j.event][m] = y]
    BY <1>1, <1>4, <1>5, <1>6 DEF SubmitExcuse
  <2>2. IF j.officer THEN Emit(w, {m}, j.term) ELSE Goto(w, "idle") /\ Overtake(w, {m}, NoJob)
    BY <1>1, <1>4 DEF SubmitExcuse
  <2>3. doubt' = IF ~j.officer /\ old # j.prior THEN doubt \cup {m} ELSE doubt
    BY <1>1, <1>4, <1>5 DEF SubmitExcuse
  <2>4. UNCHANGED <<terms, active, mandatory, records, exempt, ratio, requests, mishaps>>
    BY DEF SubmitExcuse
  <2> QED
    BY <2>1, <2>2, <2>3, <2>4
<1>9. /\ \A n \in Members \ {m} : \A t \in Terms : RatioOf(n, t)' = RatioOf(n, t)
      /\ (old = None \/ old.status # "approved") /\ y.status # "approved"
           => \A t \in Terms : RatioOf(m, t)' = RatioOf(m, t)
      /\ excuses' \in [Events -> [Members -> Excuse \cup {None}]]
  <2>1. excuses' = [excuses EXCEPT ![j.event][m] = y] /\ UNCHANGED <<mandatory, records, exempt>>
    BY <1>8
  <2>2. excuses' \in [Events -> [Members -> Excuse \cup {None}]]
    BY <1>0, <1>2, <1>7, <2>1, OneExcuse
  <2>3. ASSUME NEW n \in Members \ {m}, NEW t \in Terms PROVE RatioOf(n, t)' = RatioOf(n, t)
    BY <1>0, <1>2, <1>7, <2>1, ExcuseOfAnother
  <2>4. ASSUME old = None \/ old.status # "approved", y.status # "approved", NEW t \in Terms
        PROVE  RatioOf(m, t)' = RatioOf(m, t)
    BY <1>0, <1>2, <1>5, <1>7, <2>1, <2>4, ExcuseOfNoWeight
  <2> QED
    BY <2>2, <2>3, <2>4
<1>10. mishaps \subseteq mishaps' /\ mishaps' \subseteq Mishaps /\ doubt \subseteq doubt'
       /\ doubt' \subseteq Members
  BY <1>0, <1>8 DEF TablesOK
<1>11. TablesOK'
  BY <1>0, <1>8, <1>9, <1>10 DEF TablesOK
<1>12. CASE j.officer
  BY <1>2, <1>8, <1>9, <1>10, <1>11, <1>12, EmitIInv
<1>13. CASE ~j.officer
  <2>1. Goto(w, "idle") /\ Overtake(w, {m}, NoJob)
    BY <1>8, <1>13
  <2>2. /\ JobsType' /\ pc'[w] = "idle"
        /\ \A x \in Workers \ {w} :
             /\ pc'[x] = pc[x]
             /\ job'[x] = [job[x] EXCEPT !.overtaken =
                              @ \/ (pc[x] = "read" /\ job[x].who \cap {m} # {})]
    BY <1>0, <2>1, MovesOver, NullJobType DEF Steps
  <2>3. JobsInv'
    <3>1. JobOK(w)'
      BY <2>2 DEF JobOK
    <3> QED
      BY <1>0, <1>9, <2>2, <3>1, JobsStand
  <2>4. \A x \in Workers \ {w} : pc'[x] = pc[x] /\ job'[x].who = job[x].who
    BY <1>0, <2>2 DEF JobsType, Job
  <2>5. m \notin doubt' => \A t \in Terms : RatioOf(m, t)' = RatioOf(m, t)
    BY <1>2, <1>5, <1>7, <1>8, <1>9, <1>13 DEF Open
  <2>6. RatioInv'
    <3>1. \A n \in Members : n \notin doubt' =>
            /\ n \notin doubt /\ ratio'[n] = ratio[n]
            /\ ~(pc[w] \in {"emitted", "read"} /\ n \in job[w].who)
            /\ \A t \in Terms : RatioOf(n, t)' = RatioOf(n, t)
      BY <1>2, <1>8, <1>9, <1>10, <2>5
    <3> QED
      BY <1>0, <1>8, <2>4, <3>1, RatioStands
  <2>7. SwitchInv'
    BY <1>0, <1>2, <1>8, <1>10, <2>2, SwitchStands
  <2> QED
    BY <1>11, <2>2, <2>3, <2>6, <2>7, Whole
<1> QED
  BY <1>12, <1>13

LEMMA DecideIInv ==
  ASSUME IInv, NEW w \in Workers, NEW e \in Events, NEW m \in Members,
         NEW verdict \in {"approved", "rejected"}, Decide(w, e, m, verdict)
  PROVE  IInv'
<1>0. TablesOK /\ JobsType /\ JobsInv /\ SwitchInv /\ RatioInv
  BY Parts
<1>1. PICK old \in Excuse : old = excuses[e][m] /\ old.status = "pending"
  BY <1>0 DEF Decide, TablesOK
<1>2. PICK y \in Excuse : y = [old EXCEPT !.status = verdict] /\ y.status = verdict
  <2>1. PICK y : y = [old EXCEPT !.status = verdict]
    OBVIOUS
  <2>2. y \in Excuse /\ y.status = verdict
    BY <2>1 DEF Excuse
  <2> QED
    BY <2>1, <2>2
<1>3. /\ pc[w] = "idle" /\ requests' \in 0..MaxRequests
      /\ IF verdict = "approved" THEN Emit(w, {m}, old.term) ELSE UNCHANGED <<pc, job>>
      /\ UNCHANGED <<terms, active, mandatory, records, exempt, ratio, doubt, mishaps>>
  BY <1>0, <1>1 DEF Decide, Begin, TablesOK
<1>4. excuses' = [excuses EXCEPT ![e][m] = y]
  BY <1>0, <1>1, <1>2 DEF Decide, TablesOK
<1>5. /\ \A n \in Members \ {m} : \A t \in Terms : RatioOf(n, t)' = RatioOf(n, t)
      /\ verdict # "approved" => \A t \in Terms : RatioOf(m, t)' = RatioOf(m, t)
      /\ excuses' \in [Events -> [Members -> Excuse \cup {None}]]
  <2>1. excuses[e][m].status # "approved" /\ (verdict # "approved" => y.status # "approved")
        /\ UNCHANGED <<mandatory, records, exempt>>
    BY <1>1, <1>2, <1>3
  <2>2. ASSUME NEW n \in Members \ {m}, NEW t \in Terms PROVE RatioOf(n, t)' = RatioOf(n, t)
    BY <1>0, <1>4, <2>1, ExcuseOfAnother
  <2>3. ASSUME verdict # "approved", NEW t \in Terms PROVE RatioOf(m, t)' = RatioOf(m, t)
    BY <1>0, <1>4, <2>1, <2>3, ExcuseOfNoWeight
  <2>4. excuses' \in [Events -> [Members -> Excuse \cup {None}]]
    BY <1>0, <1>4, <2>1, OneExcuse
  <2> QED
    BY <2>2, <2>3, <2>4
<1>6. TablesOK'
  BY <1>0, <1>3, <1>5 DEF TablesOK
<1>7. CASE verdict = "approved"
  <2>1. old.term \in Terms
    BY DEF Excuse
  <2> QED
    BY <1>3, <1>5, <1>6, <1>7, <2>1, EmitIInv
<1>8. CASE verdict # "approved"
  <2>1. UNCHANGED <<pc, job>> /\ JobsType' /\ \A n \in Members : \A t \in Terms :
          RatioOf(n, t)' = RatioOf(n, t)
    BY <1>0, <1>3, <1>5, <1>8 DEF JobsType
  <2>2. JobsInv'
    <3>1. JobOK(w)'
      BY <1>3, <2>1 DEF JobOK
    <3> QED
      BY <1>0, <2>1, <3>1, JobsStandStill
  <2>3. RatioInv'
    BY <1>0, <1>3, <2>1, RatioStands
  <2>4. SwitchInv'
    BY <1>0, <1>3, <2>1, SwitchStands
  <2> QED
    BY <1>6, <2>1, <2>2, <2>3, <2>4, Whole
<1> QED
  BY <1>7, <1>8

LEMMA ExemptionIInv ==
  ASSUME IInv, NEW w \in Workers, NEW m \in Members, NEW t \in Terms,
         SetExemption(w, m, t) \/ ClearExemption(w, m, t)
  PROVE  IInv'
<1>0. TablesOK
  BY Parts
<1>1. PICK pairs \in {exempt \cup {<<t, m>>}, exempt \ {<<t, m>>}} : Exemption(w, m, t, pairs)
  BY DEF SetExemption, ClearExemption
<1>2. /\ pc[w] = "idle" /\ requests' \in 0..MaxRequests /\ t \in 1..terms
      /\ exempt' = pairs /\ Emit(w, {m}, t)
      /\ UNCHANGED <<terms, active, mandatory, records, excuses, ratio, doubt, mishaps>>
  BY <1>0, <1>1 DEF Exemption, Begin, TablesOK
<1>3. TablesOK'
  BY <1>0, <1>2 DEF TablesOK
<1>4. ASSUME NEW n \in Members \ {m}, NEW u \in Terms
      PROVE  RatioOf(n, u)' = RatioOf(n, u)
  <2>1. <<u, n>> \in exempt' <=> <<u, n>> \in exempt
    BY <1>2
  <2> QED
    BY <1>2, <2>1 DEF RatioOf, Attended, Eligible, Excused
<1> QED
  BY <1>2, <1>3, <1>4, EmitIInv

\* A change that nobody recalculates for.
LEMMA UnheardIInv ==
  ASSUME IInv, NEW w \in Workers, EmitUnheard(w), TablesOK', SwitchInv'
  PROVE  IInv'
<1>0. JobsType /\ JobsInv
  BY Parts
<1>1. Goto(w, "idle") /\ Overtake(w, Members, NoJob) /\ doubt' = Members
  BY DEF EmitUnheard
<1>2. /\ JobsType' /\ pc'[w] = "idle"
      /\ \A x \in Workers \ {w} :
           /\ pc'[x] = pc[x]
           /\ job'[x] = [job[x] EXCEPT !.overtaken =
                            @ \/ (pc[x] = "read" /\ job[x].who \cap Members # {})]
  BY <1>0, <1>1, MovesOver, NullJobType DEF Steps
<1>3. JobsInv'
  <2>1. JobOK(w)'
    BY <1>2 DEF JobOK
  <2>2. \A m \in Members \ Members : \A t \in Terms : RatioOf(m, t)' = RatioOf(m, t)
    OBVIOUS
  <2> QED
    BY <1>0, <1>2, <2>1, <2>2, JobsStand
<1>4. RatioInv'
  BY <1>1 DEF RatioInv
<1> QED
  BY <1>2, <1>3, <1>4, Whole

LEMMA ToggleMandatoryIInv ==
  ASSUME IInv, NEW w \in Workers, NEW e \in Events, ToggleMandatory(w, e)
  PROVE  IInv'
<1>0. TablesOK /\ SwitchInv /\ JobsType
  BY Parts
<1>1. /\ pc[w] = "idle" /\ EmitUnheard(w) /\ doubt' = Members
      /\ pc' = [pc EXCEPT ![w] = "idle"]
      /\ UNCHANGED <<terms, active, records, excuses, exempt, ratio, mishaps>>
  BY DEF ToggleMandatory, Begin, EmitUnheard, Goto
<1>2. requests' \in 0..MaxRequests /\ mandatory' \subseteq Events
  BY <1>0 DEF ToggleMandatory, Begin, TablesOK
<1>3. TablesOK'
  BY <1>0, <1>1, <1>2 DEF TablesOK
<1>4. SwitchInv'
  BY <1>0, <1>1, SwitchStands DEF JobsType
<1> QED
  BY <1>1, <1>3, <1>4, UnheardIInv

-----------------------------------------------------------------------------
(* The switch of semesters *)

LEMMA DeactivateIInv ==
  ASSUME IInv, NEW w \in Workers, NEW t \in Terms, Deactivate(w, t)
  PROVE  IInv'
<1>0. TablesOK /\ JobsType /\ JobsInv /\ SwitchInv
  BY Parts
<1>1. PICK j : j = [NoJob EXCEPT !.term = t]
  OBVIOUS
<1>2. j \in Job /\ j.term = t
  BY <1>1, NullJobType DEF Job
<1>3. /\ pc[w] = "idle" /\ requests' \in 0..MaxRequests /\ active' = {}
      /\ job' = [job EXCEPT ![w] = j] /\ Goto(w, "switching")
      /\ mishaps' = IF Switching = {} THEN {} ELSE mishaps \cup {"raced"}
      /\ UNCHANGED <<terms, mandatory, records, excuses, exempt, ratio, doubt>>
  <2>1. requests' \in 0..MaxRequests
    BY <1>0 DEF Deactivate, Begin, TablesOK
  <2> QED
    BY <1>1, <2>1 DEF Deactivate, Begin, Cleared
<1>4. /\ JobsType' /\ pc'[w] = "switching" /\ job'[w] = j
      /\ \A x \in Workers \ {w} : pc'[x] = pc[x] /\ job'[x] = job[x]
  BY <1>0, <1>2, <1>3, Moves DEF Steps
<1>5. JobsInv'
  <2>1. JobOK(w)'
    BY <1>2, <1>4 DEF JobOK
  <2>2. \A m \in Members : \A u \in Terms : RatioOf(m, u)' = RatioOf(m, u)
    BY <1>3, SameSources
  <2> QED
    BY <1>0, <1>4, <2>1, <2>2, JobsStandStill
<1>6. RatioInv'
  BY <1>3 DEF RatioInv
<1>7. mishaps' \subseteq Mishaps
  BY <1>0, <1>3 DEF Mishaps, TablesOK
<1>8. SwitchInv'
  <2>1. Switching' = Switching \cup {w}
    BY <1>4 DEF Switching
  <2>2. mishaps' = {} => Switching = {}
    BY <1>3
  <2>3. SwitchBound'
    <3>1. Cardinality(active') = 0
      BY <1>3, FS_EmptySet
    <3>2. Switching' \subseteq Workers
      BY DEF Switching
    <3>3. Cardinality(Switching') \in Nat /\ Cardinality(Switching') <= Cardinality(Workers)
      BY <3>2, BoundsAssumption, FS_Subset, FS_CardinalityType
    <3> QED
      BY <3>1, <3>3 DEF SwitchBound
  <2> QED
    BY <1>3, <2>1, <2>2, <2>3 DEF SwitchInv
<1>9. TablesOK'
  BY <1>0, <1>3, <1>7 DEF TablesOK
<1> QED
  BY <1>4, <1>5, <1>6, <1>8, <1>9, Whole

LEMMA ActivateIInv ==
  ASSUME IInv, NEW w \in Workers, Activate(w)
  PROVE  IInv'
<1>0. TablesOK /\ JobsType /\ JobsInv /\ SwitchInv
  BY Parts
<1>1. PICK t \in Terms : t = job[w].term
  BY <1>0 DEF Activate, JobsInv, JobOK
<1>2. /\ pc[w] = "switching" /\ active' = active \cup {t}
      /\ terms' = IF t > terms THEN t ELSE terms
      /\ EmitUnheard(w) /\ doubt' = Members /\ pc' = [pc EXCEPT ![w] = "idle"]
      /\ UNCHANGED <<mandatory, records, excuses, exempt, ratio, requests, mishaps>>
  BY <1>1 DEF Activate, EmitUnheard, Goto
<1>3. TablesOK'
  <2>1. terms' \in Terms /\ active' \subseteq 1..terms' /\ 1..terms \subseteq 1..terms'
    BY <1>0, <1>2 DEF TablesOK, Terms
  <2>2. exempt' \subseteq (1..terms') \X Members
    BY <1>0, <1>2, <2>1 DEF TablesOK
  <2> QED
    BY <1>0, <1>2, <2>1, <2>2 DEF TablesOK
<1>4. SwitchInv'
  <2>1. Switching' = Switching \ {w} /\ w \in Switching
    BY <1>0, <1>2 DEF JobsType, Switching
  <2>2. ASSUME mishaps = {} PROVE active' = {t} /\ Switching' = {}
    BY <1>0, <1>2, <2>1, <2>2 DEF SwitchInv
  <2>3. SwitchBound'
    <3>1. IsFiniteSet(active) /\ IsFiniteSet(Switching)
      <4>1. IsFiniteSet(1..terms) /\ Switching \subseteq Workers
        BY <1>0, FS_Interval DEF TablesOK, Terms, Switching
      <4> QED
        BY <1>0, <4>1, BoundsAssumption, FS_Subset DEF TablesOK
    <3>2. /\ Cardinality(active) \in Nat /\ Cardinality(active') \in Nat
          /\ Cardinality(active') <= Cardinality(active) + 1
      <4>1. /\ IsFiniteSet(active \cup {t})
            /\ Cardinality(active \cup {t})
                 = IF t \in active THEN Cardinality(active) ELSE Cardinality(active) + 1
        BY <3>1, FS_AddElement
      <4>2. Cardinality(active) \in Nat /\ Cardinality(active \cup {t}) \in Nat
        BY <3>1, <4>1, FS_CardinalityType
      <4>3. active' = active \cup {t}
        BY <1>2
      <4> QED
        BY <4>1, <4>2, <4>3
    <3>3. /\ Cardinality(Switching) \in Nat /\ Cardinality(Switching') \in Nat
          /\ Cardinality(Switching') = Cardinality(Switching) - 1
      BY <2>1, <3>1, FS_RemoveElement, FS_CardinalityType
    <3>4. Cardinality(Workers) \in Nat
      BY BoundsAssumption, FS_CardinalityType
    <3> QED
      BY <1>0, <3>2, <3>3, <3>4 DEF SwitchInv, SwitchBound
  <2> QED
    BY <1>2, <2>2, <2>3 DEF SwitchInv
<1> QED
  BY <1>2, <1>3, <1>4, UnheardIInv

-----------------------------------------------------------------------------
(* The write of the percentages, and death *)

\* What a request leaves when it is done.
LEMMA DoneIInv ==
  ASSUME IInv, NEW w \in Workers, Goto(w, "idle"), job' = [job EXCEPT ![w] = NoJob],
         UNCHANGED sources, TablesOK', SwitchInv',
         \A m \in Members \ doubt' :
           \/ m \notin doubt /\ ratio'[m] = ratio[m]
              /\ ~(pc[w] \in {"emitted", "read"} /\ m \in job[w].who)
           \/ \A t \in Terms : active = {t} => ratio'[m] = RatioOf(m, t)
  PROVE  IInv'
<1>0. TablesOK /\ JobsType /\ JobsInv /\ RatioInv
  BY Parts
<1>1. /\ JobsType' /\ pc'[w] = "idle" /\ job'[w] = NoJob
      /\ \A x \in Workers \ {w} : pc'[x] = pc[x] /\ job'[x] = job[x]
  BY <1>0, Moves, NullJobType DEF Steps
<1>2. \A m \in Members : \A t \in Terms : RatioOf(m, t)' = RatioOf(m, t)
  BY SameSources DEF sources
<1>3. JobsInv'
  <2>1. JobOK(w)'
    BY <1>1 DEF JobOK
  <2> QED
    BY <1>0, <1>1, <1>2, <2>1, JobsStandStill
<1>4. RatioInv'
  <2> SUFFICES ASSUME NEW m \in Members \ doubt', NEW t \in active, active = {t}, ~Owed(m)'
               PROVE  ratio'[m] = RatioOf(m, t)'
    BY DEF RatioInv, sources
  <2>1. t \in Terms
    BY <1>0 DEF TablesOK, Terms
  <2>2. CASE m \notin doubt /\ ratio'[m] = ratio[m]
             /\ ~(pc[w] \in {"emitted", "read"} /\ m \in job[w].who)
    <3>1. ~Owed(m)
      BY <1>1, <2>2, OwedBefore
    <3> QED
      BY <1>0, <1>2, <2>1, <2>2, <3>1 DEF RatioInv
  <2>3. CASE \A u \in Terms : active = {u} => ratio'[m] = RatioOf(m, u)
    BY <1>2, <2>1, <2>3
  <2> QED
    BY <2>2, <2>3
<1> QED
  BY <1>1, <1>3, <1>4, Whole

LEMMA WriteRatiosIInv ==
  ASSUME IInv, NEW w \in Workers, WriteRatios(w)
  PROVE  IInv'
<1>0. TablesOK /\ JobsType /\ JobsInv /\ SwitchInv
  BY Parts
<1>1. PICK j \in Job : j = job[w]
  BY <1>0 DEF JobsType
<1>2. /\ pc[w] = "read"
      /\ ratio' = [m \in Members |-> IF m \in j.who THEN j.ratios[m] ELSE ratio[m]]
      /\ doubt' = IF j.overtaken \/ active # {j.term} THEN doubt \cup j.who ELSE doubt \ j.who
      /\ Goto(w, "idle") /\ job' = [job EXCEPT ![w] = NoJob]
      /\ UNCHANGED <<sources, requests, mishaps>>
  BY <1>1 DEF WriteRatios
<1>3. j.who \subseteq Members /\ j.ratios \in [Members -> Exempt..100]
  BY DEF Job
<1>4. TablesOK'
  BY <1>0, <1>2, <1>3 DEF TablesOK, sources
<1>5. SwitchInv'
  BY <1>0, <1>2, SwitchStands DEF JobsType, Goto, sources
<1>6. ASSUME NEW m \in Members \ doubt'
      PROVE  \/ m \notin doubt /\ ratio'[m] = ratio[m]
                /\ ~(pc[w] \in {"emitted", "read"} /\ m \in job[w].who)
             \/ \A t \in Terms : active = {t} => ratio'[m] = RatioOf(m, t)
  <2>1. CASE m \in j.who
    <3>1. ~j.overtaken /\ active = {j.term}
      BY <1>2, <1>6, <2>1
    <3>2. ratio'[m] = j.ratios[m]
      BY <1>2, <2>1
    <3> QED
      BY <1>0, <1>1, <1>2, <2>1, <3>1, <3>2 DEF JobsInv, JobOK
  <2>2. CASE m \notin j.who
    BY <1>1, <1>2, <1>6, <2>2
  <2> QED
    BY <2>1, <2>2
<1> QED
  BY <1>2, <1>4, <1>5, <1>6, DoneIInv

LEMMA DieIInv ==
  ASSUME IInv, NEW w \in Workers, Die(w)
  PROVE  IInv'
<1>0. TablesOK /\ JobsType /\ SwitchInv
  BY Parts
<1>1. /\ pc[w] # "idle" /\ Goto(w, "idle") /\ job' = [job EXCEPT ![w] = NoJob]
      /\ doubt' = (IF pc[w] \in {"emitted", "read"} THEN doubt \cup job[w].who ELSE doubt)
      /\ mishaps' = IF pc[w] = "switching" THEN mishaps \cup {"failed"} ELSE mishaps
      /\ UNCHANGED <<sources, ratio, requests>>
  BY DEF Die
<1>2. doubt' \subseteq Members
  BY <1>0, <1>1 DEF TablesOK, JobsType, Job
<1>3. TablesOK'
  <2>1. mishaps' \subseteq Mishaps
    BY <1>0, <1>1 DEF Mishaps, TablesOK
  <2> QED
    BY <1>0, <1>1, <1>2, <2>1 DEF TablesOK, sources
<1>4. SwitchInv'
  <2>1. CASE pc[w] = "switching"
    <3>1. mishaps' = mishaps \cup {"failed"} /\ active' = active
      BY <1>1, <2>1 DEF sources
    <3>2. Switching' \subseteq Switching /\ Switching \subseteq Workers
      BY <1>0, <1>1 DEF JobsType, Goto, Switching
    <3>3. IsFiniteSet(Switching) /\ IsFiniteSet(active)
      <4>1. IsFiniteSet(1..terms) /\ active \subseteq 1..terms
        BY <1>0, FS_Interval DEF TablesOK, Terms
      <4> QED
        BY <3>2, <4>1, BoundsAssumption, FS_Subset
    <3>4. /\ Cardinality(Switching) \in Nat /\ Cardinality(Switching') \in Nat
          /\ Cardinality(Switching') <= Cardinality(Switching)
          /\ Cardinality(active) \in Nat /\ Cardinality(Workers) \in Nat
      BY <3>2, <3>3, BoundsAssumption, FS_Subset, FS_CardinalityType
    <3> QED
      BY <1>0, <3>1, <3>4 DEF SwitchInv, SwitchBound
  <2>2. CASE pc[w] # "switching"
    BY <1>0, <1>1, <2>2, SwitchStands DEF JobsType, Goto, sources
  <2> QED
    BY <2>1, <2>2
<1>5. ASSUME NEW m \in Members \ doubt'
      PROVE  m \notin doubt /\ ratio'[m] = ratio[m]
             /\ ~(pc[w] \in {"emitted", "read"} /\ m \in job[w].who)
  BY <1>1, <1>5
<1> QED
  BY <1>1, <1>3, <1>4, <1>5, DoneIInv

-----------------------------------------------------------------------------

LEMMA InitIInv == Init => IInv
<1> SUFFICES ASSUME Init PROVE IInv
  OBVIOUS
<1>1. TypeOK
  BY NullJobType DEF Init, TypeOK, Terms, Exempt, Steps
<1>2. JobsInv
  BY DEF Init, JobsInv, JobOK
<1>3. SwitchInv
  <2>1. Switching = {} /\ active = {1} /\ mishaps = {}
    BY DEF Init, Switching
  <2>2. SwitchBound
    <3>1. Cardinality(active) = 1 /\ Cardinality(Switching) = 0
      BY <2>1, FS_Singleton, FS_EmptySet
    <3>2. Cardinality(Workers) \in Nat /\ Cardinality(Workers) # 0
      BY BoundsAssumption, FS_CardinalityType, FS_EmptySet
    <3> QED
      BY <3>1, <3>2 DEF SwitchBound
  <2>3. 1 \in Terms
    BY BoundsAssumption DEF Terms
  <2> QED
    BY <2>1, <2>2, <2>3 DEF SwitchInv
<1>4. RatioInv
  <2>1. ASSUME NEW m \in Members, NEW t PROVE RatioOf(m, t) = 0
    <3>1. Attended(m, t) = {} /\ Eligible(m, t) = {}
      BY DEF Init, Attended, Eligible
    <3>2. Cardinality(Attended(m, t)) = 0 /\ Cardinality(Eligible(m, t)) = 0
      BY <3>1, FS_EmptySet
    <3>3. <<t, m>> \notin exempt
      BY DEF Init
    <3> QED
      BY <3>2, <3>3, PercentOfNone DEF RatioOf
  <2> QED
    BY <2>1 DEF Init, RatioInv
<1> QED
  BY <1>1, <1>2, <1>3, <1>4 DEF IInv

LEMMA StutterIInv == IInv /\ UNCHANGED vars => IInv'
<1> SUFFICES ASSUME IInv, UNCHANGED vars PROVE IInv'
  OBVIOUS
<1>1. /\ TablesOK' /\ JobsType' /\ SwitchInv'
  BY Parts DEF vars, sources, TablesOK, JobsType, SwitchInv, SwitchBound, Switching
<1>2. \A m \in Members : \A t \in Terms : RatioOf(m, t)' = RatioOf(m, t)
  BY SameSources DEF vars, sources
<1>3. ASSUME NEW w \in Workers PROVE JobOK(w)'
  <2>1. JobOK(w) /\ job[w] \in Job
    BY Parts DEF JobsInv, JobsType
  <2>2. pc'[w] = pc[w] /\ job'[w] = job[w]
    BY DEF vars
  <2>3. ASSUME pc[w] = "read", ~job[w].overtaken, NEW m \in job[w].who, NEW t \in Terms,
               job[w].term = t
        PROVE  job[w].ratios[m] = RatioOf(m, t)'
    <3>1. m \in Members /\ job[w].ratios[m] = RatioOf(m, t)
      BY <2>1, <2>3 DEF JobOK, Job
    <3> QED
      BY <1>2, <3>1
  <2> QED
    BY <2>1, <2>2, <2>3 DEF JobOK, Open
<1>4. RatioInv'
  <2>1. ASSUME NEW m \in Members \ doubt, NEW t \in active, active = {t}, ~Owed(m)
        PROVE  ratio[m] = RatioOf(m, t)'
    <3>1. t \in Terms /\ ratio[m] = RatioOf(m, t)
      BY <2>1, Parts DEF TablesOK, Terms, RatioInv
    <3> QED
      BY <1>2, <3>1
  <2>2. \A m : Owed(m)' <=> Owed(m)
    BY DEF Owed, vars
  <2> QED
    BY <2>1, <2>2 DEF RatioInv, vars, sources
<1> QED
  BY <1>1, <1>3, <1>4, Whole DEF JobsInv

\* Who returns starts at nought, and nobody vouches for that.
LEMMA ReturnIInv ==
  ASSUME IInv, NEW w \in Workers, NEW m \in Members, Return(w, m)
  PROVE  IInv'
<1>0. TablesOK /\ JobsType /\ JobsInv /\ SwitchInv /\ RatioInv
  BY Parts
<1>1. /\ requests' \in 0..MaxRequests /\ pc[w] = "idle"
      /\ ratio' = [ratio EXCEPT ![m] = 0] /\ doubt' = doubt \cup {m}
      /\ UNCHANGED <<sources, pc, job, mishaps>>
  BY <1>0 DEF Return, Begin, TablesOK
<1>2. TablesOK'
  BY <1>0, <1>1 DEF TablesOK, sources, Exempt
<1>3. \A n \in Members : \A t \in Terms : RatioOf(n, t)' = RatioOf(n, t)
  BY <1>1, SameSources DEF sources
<1>4. JobsInv'
  <2>1. JobOK(w)'
    BY <1>1 DEF JobOK
  <2> QED
    BY <1>0, <1>1, <1>3, <2>1, JobsStandStill
<1>5. \A n \in Members : n \notin doubt' =>
        /\ n \notin doubt /\ ratio'[n] = ratio[n]
        /\ ~(pc[w] \in {"emitted", "read"} /\ n \in job[w].who)
        /\ \A t \in Terms : RatioOf(n, t)' = RatioOf(n, t)
  BY <1>0, <1>1, <1>3 DEF TablesOK
<1>6. RatioInv'
  BY <1>0, <1>1, <1>5, RatioStands DEF sources
<1>7. SwitchInv'
  BY <1>0, <1>1, SwitchStands DEF sources
<1> QED
  BY <1>0, <1>1, <1>2, <1>4, <1>6, <1>7, Whole DEF JobsType

LEMMA NextIInv == IInv /\ [Next]_vars => IInv'
<1> SUFFICES ASSUME IInv, Next PROVE IInv'
  BY StutterIInv
<1>1. PICK w \in Workers :
        \/ \E e \in Events, present \in SUBSET Members : StartRoll(w, e, present)
        \/ RecordAttendance(w)
        \/ \E e \in Events, m \in Members, officer \in BOOLEAN : StartExcuse(w, e, m, officer)
        \/ SubmitExcuse(w)
        \/ \E e \in Events, m \in Members, v \in {"approved", "rejected"} : Decide(w, e, m, v)
        \/ \E m \in Members, t \in Terms : SetExemption(w, m, t) \/ ClearExemption(w, m, t)
        \/ \E e \in Events : ToggleMandatory(w, e)
        \/ \E t \in Terms : Deactivate(w, t)
        \/ \E m \in Members : Return(w, m)
        \/ Activate(w) \/ ReadRatios(w) \/ WriteRatios(w) \/ Die(w)
  BY DEF Next
<1>2. CASE \E e \in Events, present \in SUBSET Members : StartRoll(w, e, present)
  BY <1>2, StartRollIInv
<1>3. CASE \E e \in Events, m \in Members, officer \in BOOLEAN : StartExcuse(w, e, m, officer)
  BY <1>3, StartExcuseIInv
<1>4. CASE \E e \in Events, m \in Members, v \in {"approved", "rejected"} : Decide(w, e, m, v)
  BY <1>4, DecideIInv
<1>5. CASE \E m \in Members, t \in Terms : SetExemption(w, m, t) \/ ClearExemption(w, m, t)
  BY <1>5, ExemptionIInv
<1>6. CASE \/ \E e \in Events : ToggleMandatory(w, e)
           \/ \E t \in Terms : Deactivate(w, t)
           \/ \E m \in Members : Return(w, m)
           \/ Activate(w)
  BY <1>6, ToggleMandatoryIInv, DeactivateIInv, ReturnIInv, ActivateIInv
<1>7. CASE RecordAttendance(w) \/ SubmitExcuse(w) \/ ReadRatios(w) \/ WriteRatios(w) \/ Die(w)
  BY <1>7, RecordAttendanceIInv, SubmitExcuseIInv, ReadRatiosIInv, WriteRatiosIInv, DieIInv
<1> QED
  BY <1>1, <1>2, <1>3, <1>4, <1>5, <1>6, <1>7

\* What the figures of Attendance rest on: what a recalculation has read and nobody has
\* overtaken is right, and a request that switches semesters is alone in it.
THEOREM AttendanceInductive == Spec => []IInv
<1> QED
  BY InitIInv, NextIInv, PTL DEF Spec

\* lib/attendance.ts: the percentage on the roster is the rounded share of the mandatory
\* events of the active semester, unless a recalculation is owed, died, was overtaken, was
\* for another semester or was never asked for.
THEOREM RollsTrueAlways == Spec => []RollsTrue
<1>1. IInv => RollsTrue
  <2> SUFFICES ASSUME IInv PROVE TypeOK /\ RatioTrue
    BY DEF RollsTrue
  <2>1. TypeOK /\ RatioInv /\ mandatory \subseteq Events
    BY Parts DEF TablesOK
  <2>2. \A m, t : RatioOf(m, t) = Truth(m, t)
    BY <2>1, RatioIsTruth
  <2> QED
    BY <2>1, <2>2 DEF RatioInv, RatioTrue
<1> QED
  BY AttendanceInductive, <1>1, PTL

\* semester-service.ts: requests that switch leave at most as many semesters active as run
\* at a time, none only if one stopped half way, and one if the last began alone and ended.
THEOREM TermStandsAlways == Spec => []TermStands
<1>1. IInv => TermStands
  <2> SUFFICES ASSUME IInv, NEW t, active = {t} PROVE OneActive
    BY Parts DEF SwitchInv, TermStands
  <2> QED
    BY FS_Singleton DEF OneActive
<1> QED
  BY AttendanceInductive, <1>1, PTL

\* excuse-service.ts: an approval of an excuse is undone only by a resubmission of its
\* member that was checked before the approval, and is pending again then, for the same
\* semester.
THEOREM ApprovalStandsAlways == Spec => ApprovalStands
<1>1. ASSUME IInv, [Next]_vars, NEW e \in Events, NEW m \in Members,
             excuses[e][m] # None, excuses[e][m].status = "approved",
             excuses'[e][m] # excuses[e][m]
      PROVE  /\ \E w \in Workers : Stale(w, e, m) /\ pc'[w] = "idle"
             /\ excuses'[e][m] = [excuses[e][m] EXCEPT !.status = "pending"]
  <2>0. TablesOK /\ JobsType /\ JobsInv
    BY <1>1, Parts
  <2>1. PICK w \in Workers :
          \/ SubmitExcuse(w)
          \/ \E d \in Events, n \in Members, v \in {"approved", "rejected"} : Decide(w, d, n, v)
    BY <1>1 DEF Next, vars, sources, StartRoll, RecordAttendance, StartExcuse, SetExemption,
       ClearExemption, Exemption, ToggleMandatory, Deactivate, Activate, Return, ReadRatios,
       WriteRatios, Die
  <2>2. ASSUME NEW d \in Events, NEW n \in Members, NEW v, Decide(w, d, n, v)
        PROVE  FALSE
    <3>1. excuses[d][n].status = "pending" /\ excuses' = [excuses EXCEPT ![d][n].status = v]
      BY <2>2 DEF Decide
    <3>2. d # e \/ n # m
      BY <1>1, <3>1
    <3> QED
      BY <1>1, <2>0, <3>1, <3>2 DEF TablesOK
  <2>3. CASE SubmitExcuse(w)
    <3>1. PICK j \in Job : j = job[w]
      BY <2>0 DEF JobsType
    <3>2. j.event \in Events /\ (~j.officer => Open(j.prior)) /\ pc[w] = "excusing"
      BY <2>0, <2>3, <3>1 DEF SubmitExcuse, JobsInv, JobOK
    <3>3. PICK n \in Members : n = CHOOSE x \in Members : j.who = {x}
      BY <2>0, <2>3, <3>1 DEF SubmitExcuse, JobsInv, JobOK
    <3>4. PICK old : old = excuses[j.event][n]
      OBVIOUS
    <3>5. /\ excuses' = [excuses EXCEPT ![j.event][n] =
             [term |-> IF old = None THEN j.term ELSE old.term,
              status |-> IF j.officer THEN "approved" ELSE "pending"]]
          /\ ~j.officer => Goto(w, "idle")
      BY <2>3, <3>1, <3>3, <3>4 DEF SubmitExcuse
    <3>6. j.event = e /\ n = m
      BY <1>1, <2>0, <3>2, <3>5 DEF TablesOK
    <3>7. old \in Excuse /\ old.status = "approved" /\ old # None
      BY <1>1, <2>0, <3>4, <3>6 DEF TablesOK
    <3>8. ~j.officer
      <4> SUFFICES ASSUME j.officer PROVE FALSE
        OBVIOUS
      <4>1. excuses'[e][m] = [term |-> old.term, status |-> "approved"]
        BY <2>0, <3>5, <3>6, <3>7 DEF TablesOK
      <4>2. old = [term |-> old.term, status |-> "approved"]
        BY <3>7 DEF Excuse
      <4> QED
        BY <1>1, <3>4, <3>6, <4>1, <4>2
    <3>9. excuses'[e][m] = [old EXCEPT !.status = "pending"]
      <4>1. excuses'[e][m] = [term |-> old.term, status |-> "pending"]
        BY <2>0, <3>5, <3>6, <3>7, <3>8 DEF TablesOK
      <4>2. [old EXCEPT !.status = "pending"] = [term |-> old.term, status |-> "pending"]
        BY <3>7 DEF Excuse
      <4> QED
        BY <4>1, <4>2
    <3>10. j.who = {m}
      BY <2>0, <2>3, <3>1, <3>2, <3>3, <3>6 DEF JobsInv, JobOK
    <3>11. Stale(w, e, m)
      BY <3>1, <3>2, <3>6, <3>8, <3>10 DEF Stale, Open
    <3>12. pc'[w] = "idle"
      BY <2>0, <3>5, <3>8 DEF Goto, JobsType
    <3> QED
      BY <3>4, <3>6, <3>9, <3>11, <3>12
  <2> QED
    BY <2>1, <2>2, <2>3
<1>2. IInv /\ [Next]_vars =>
        [\A e \in Events, m \in Members :
           /\ excuses[e][m] # None /\ excuses[e][m].status = "approved"
           /\ excuses'[e][m] # excuses[e][m]
           => /\ \E w \in Workers : Stale(w, e, m) /\ pc'[w] = "idle"
              /\ excuses'[e][m] = [excuses[e][m] EXCEPT !.status = "pending"]]_vars
  BY <1>1
<1> QED
  BY AttendanceInductive, <1>2, PTL DEF Spec, ApprovalStands

-----------------------------------------------------------------------------
(* Service hours *)

USE HoursAssumption

\* The instance counts as this module does.
LEMMA SameCount ==
  ASSUME NEW S
  PROVE  Service!Cardinality(S) = Cardinality(S)
BY DEF Cardinality, Service!Cardinality

\* The sum of a member reads nothing but the member's rows.
LEMMA SumHere ==
  ASSUME NEW m, NEW A, A = {e \in Events : hours[e][m] # None}
  PROVE  Service!Sum(m) = Adding([e \in A |-> hours[e][m]], A)[A]
<1>1. IsFiniteSet(A)
  BY FS_Subset
<1>2. Service!Sum(m) = Service!SumOver(m, {e \in Events : hours[e][m] # None})
  BY DEF Service!Sum, Service!SumOver
<1> QED
  BY <1>1, <1>2, SumIsAdding

LEMMA SumStands ==
  ASSUME NEW m, \A e \in Events : hours'[e][m] = hours[e][m]
  PROVE  Service!Sum(m)' = Service!Sum(m)
<1>1. PICK A : A = {e \in Events : hours[e][m] # None}
  OBVIOUS
<1>2. A = {e \in Events : hours'[e][m] # None}
  BY <1>1
<1>3. IsFiniteSet(A)
  BY <1>1, FS_Subset
<1>4. [e \in A |-> hours'[e][m]] = [e \in A |-> hours[e][m]]
  BY <1>1
<1>5. Service!Sum(m)' = Adding([e \in A |-> hours'[e][m]], A)[A]
  BY <1>2, <1>3, SumIsAddingNext
<1> QED
  BY <1>1, <1>4, <1>5, SumHere

\* While rows go with their events, the code's sum is that of all the rows.
LEMMA TotalIsSum ==
  ASSUME NEW m \in Members, Service!TypeOK, Service!RowsInv
  PROVE  Service!TotalOf(m) = Service!Sum(m)
<1>1. {e \in events : hours[e][m] # None} = {e \in Events : hours[e][m] # None}
  BY DEF Service!TypeOK, Service!RowsInv
<1>2. PICK A : A = {e \in Events : hours[e][m] # None}
  OBVIOUS
<1>3. IsFiniteSet(A)
  BY <1>2, FS_Subset
<1>4. Service!TotalOf(m) = Service!SumOver(m, {e \in events : hours[e][m] # None})
  BY DEF Service!TotalOf
<1>5. Service!SumOver(m, {e \in events : hours[e][m] # None})
       = Adding([e \in A |-> hours[e][m]], A)[A]
  BY <1>1, <1>2, <1>3, SumIsAdding
<1> QED
  BY <1>2, <1>4, <1>5, SumHere

LEMMA SumRange ==
  ASSUME NEW m \in Members, Service!TypeOK
  PROVE  Service!Sum(m) \in 0..MaxHours * Service!Cardinality(Events)
<1>1. PICK A : A = {e \in Events : hours[e][m] # None}
  OBVIOUS
<1>2. PICK F : F = [e \in A |-> hours[e][m]]
  OBVIOUS
<1>3. F \in [A -> 0..MaxHours]
  BY <1>1, <1>2 DEF Service!TypeOK, Service!Hours
<1>4. IsFiniteSet(A) /\ Cardinality(A) \in Nat /\ Service!Cardinality(Events) \in Nat
      /\ Cardinality(A) <= Service!Cardinality(Events)
  BY <1>1, SameCount, FS_Subset, FS_CardinalityType
<1>5. Adding(F, A)[A] \in 0..MaxHours * Cardinality(A)
  BY <1>3, <1>4, AddingRange
<1>6. Service!Sum(m) = Adding(F, A)[A]
  BY <1>1, <1>2, SumHere
<1>7. \A a, b, c \in Nat : a <= b => c * a \in Nat /\ c * b \in Nat /\ c * a <= c * b
  OBVIOUS
<1>8. /\ MaxHours * Cardinality(A) \in Nat /\ MaxHours * Service!Cardinality(Events) \in Nat
      /\ MaxHours * Cardinality(A) <= MaxHours * Service!Cardinality(Events)
  BY <1>4, <1>7
<1> QED
  BY <1>5, <1>6, <1>8

-----------------------------------------------------------------------------
(* The invariant, step by step *)

LEMMA ServiceNullJob ==
  /\ Service!NoJob \in Service!Job
  /\ Service!NoJob.who = {} /\ Service!NoJob.left = {} /\ Service!NoJob.overtaken = FALSE
<1>1. MaxHours * Service!Cardinality(Events) \in Nat
  BY SameCount, FS_CardinalityType
<1>2. [m \in Members |-> 0] \in [Members -> 0..MaxHours * Service!Cardinality(Events)]
  BY <1>1
<1> QED
  BY <1>2 DEF Service!NoJob, Service!Job, Service!Hours, Service!Totals

\* A step that leaves the rows and the totals alone and moves one worker.
LEMMA ServiceQuietIInv ==
  ASSUME Service!IInv, NEW w \in Workers, NEW j \in Service!Job, NEW d \in SUBSET Members,
         UNCHANGED <<events, hours, total, unheard, typed>>,
         hoursRequests' \in 0..HoursRequests, hoursDoubt' = hoursDoubt \cup d,
         hoursPc' \in [Workers -> Service!Steps], \A x \in Workers \ {w} : hoursPc'[x] = hoursPc[x],
         hoursJob' = [hoursJob EXCEPT ![w] = j],
         j.left \subseteq j.who,
         hoursJob[w].who \ hoursJob[w].left \subseteq (j.who \ j.left) \cup d,
         hoursPc'[w] = "idle" => j.who = {},
         hoursPc'[w] = "logging" => j.event \in Events,
         hoursPc'[w] # "logging" => j.left = {},
         hoursPc'[w] = "read" /\ ~j.overtaken => \A m \in j.who : j.totals[m] = Service!Sum(m)
  PROVE  Service!IInv'
<1>1. Service!TypeOK /\ Service!RowsInv /\ Service!JobsInv /\ Service!TotalTrue
  BY DEF Service!IInv
<1>2. \A x \in Workers : hoursJob'[x] = IF x = w THEN j ELSE hoursJob[x]
  BY <1>1 DEF Service!JobsInv
<1>3. ASSUME NEW m PROVE Service!Sum(m)' = Service!Sum(m)
  BY SumStands
<1>4. Service!TypeOK'
  BY <1>1, <1>2 DEF Service!TypeOK, Service!Job
<1>5. Service!RowsInv'
  BY <1>1 DEF Service!RowsInv
<1>6. Service!JobsInv'
  <2>1. hoursJob' \in [Workers -> Service!Job]
    BY <1>1 DEF Service!JobsInv
  <2>2. ASSUME NEW x \in Workers PROVE Service!JobOK(x)'
    <3>1. CASE x = w
      BY <1>2, <1>3, <3>1 DEF Service!JobOK
    <3>2. CASE x # w
      BY <1>1, <1>2, <1>3, <3>2 DEF Service!JobsInv, Service!JobOK
    <3> QED
      BY <3>1, <3>2
  <2> QED
    BY <2>1, <2>2 DEF Service!JobsInv
<1>7. Service!TotalTrue'
  <2> SUFFICES ASSUME NEW m \in Members, m \notin hoursDoubt', m \notin unheard', m \notin typed',
                      ~Service!Owed(m)'
               PROVE  total'[m] = Service!Sum(m)'
    BY DEF Service!TotalTrue
  <2>1. ~Service!Owed(m)
    BY <1>2 DEF Service!Owed
  <2> QED
    BY <1>1, <1>3, <2>1 DEF Service!TotalTrue
<1> QED
  BY <1>4, <1>5, <1>6, <1>7 DEF Service!IInv

\* A step that changes rows of the members in S, tells the recalculations that have read
\* them, and leaves a recalculation behind or says that nobody heard.
LEMMA ServiceChangeIInv ==
  ASSUME Service!IInv, NEW w \in Workers, NEW S \in SUBSET Members, NEW j \in Service!Job,
         Service!Overtake(w, S, j), UNCHANGED <<total, hoursDoubt, typed>>,
         events' \subseteq Events, hoursRequests' \in 0..HoursRequests,
         hours' \in [Events -> [Members -> Service!Hours \cup {None}]], Service!RowsInv',
         \A e \in Events, m \in Members \ S : hours'[e][m] = hours[e][m],
         unheard \subseteq unheard', unheard' \subseteq Members,
         S \subseteq (j.who \ j.left) \cup unheard',
         hoursPc' \in [Workers -> Service!Steps], \A x \in Workers \ {w} : hoursPc'[x] = hoursPc[x],
         hoursPc'[w] # "read",
         j.left \subseteq j.who,
         hoursJob[w].who \ hoursJob[w].left \subseteq j.who \ j.left,
         hoursPc'[w] = "idle" => j.who = {},
         hoursPc'[w] = "logging" => j.event \in Events,
         hoursPc'[w] # "logging" => j.left = {}
  PROVE  Service!IInv'
<1>1. Service!TypeOK /\ Service!RowsInv /\ Service!JobsInv /\ Service!TotalTrue
  BY DEF Service!IInv
<1>2. hoursJob'[w] = j
  BY DEF Service!Overtake
<1>3. ASSUME NEW x \in Workers \ {w}
      PROVE  \E o \in BOOLEAN :
               /\ hoursJob'[x] = [hoursJob[x] EXCEPT !.overtaken = o]
               /\ hoursJob[x] \in Service!Job
               /\ hoursPc[x] = "read" /\ hoursJob[x].who \cap S # {} => o
               /\ hoursJob[x].overtaken => o
  <2>1. hoursJob[x] \in Service!Job
    BY <1>1 DEF Service!JobsInv
  <2>2. hoursJob'[x] = [hoursJob[x] EXCEPT !.overtaken =
                     @ \/ (hoursPc[x] = "read" /\ hoursJob[x].who \cap S # {})]
    BY DEF Service!Overtake
  <2>3. PICK o \in BOOLEAN :
          o <=> hoursJob[x].overtaken \/ (hoursPc[x] = "read" /\ hoursJob[x].who \cap S # {})
    OBVIOUS
  <2>4. hoursJob[x].overtaken \in BOOLEAN
    BY <2>1 DEF Service!Job
  <2>5. hoursJob'[x] = [hoursJob[x] EXCEPT !.overtaken = o]
    BY <2>2, <2>3, <2>4
  <2> QED
    BY <2>1, <2>3, <2>5
<1>4. ASSUME NEW x \in Workers \ {w}
      PROVE  /\ hoursJob'[x] \in Service!Job /\ hoursJob'[x].event = hoursJob[x].event
             /\ hoursJob'[x].left = hoursJob[x].left
             /\ hoursJob'[x].who = hoursJob[x].who /\ hoursJob'[x].totals = hoursJob[x].totals
             /\ hoursPc[x] = "read" /\ hoursJob[x].who \cap S # {} => hoursJob'[x].overtaken
             /\ hoursJob[x].overtaken => hoursJob'[x].overtaken
  <2>1. PICK o \in BOOLEAN :
          /\ hoursJob'[x] = [hoursJob[x] EXCEPT !.overtaken = o]
          /\ hoursJob[x] \in Service!Job
          /\ hoursPc[x] = "read" /\ hoursJob[x].who \cap S # {} => o
          /\ hoursJob[x].overtaken => o
    BY <1>3
  <2>2. PICK k \in Service!Job : k = hoursJob[x]
    BY <2>1
  <2>3. [k EXCEPT !.overtaken = o] \in Service!Job
    BY DEF Service!Job
  <2>4. hoursJob'[x] = [k EXCEPT !.overtaken = o]
    BY <2>1, <2>2
  <2>5. /\ hoursJob'[x].event = k.event /\ hoursJob'[x].left = k.left
        /\ hoursJob'[x].who = k.who /\ hoursJob'[x].totals = k.totals /\ hoursJob'[x].overtaken = o
    BY <2>4 DEF Service!Job
  <2> QED
    BY <2>1, <2>2, <2>3, <2>4, <2>5
<1>5. ASSUME NEW m \in Members \ S PROVE Service!Sum(m)' = Service!Sum(m)
  BY SumStands
<1>6. Service!TypeOK'
  <2>1. \A x \in Workers :
          hoursJob'[x].left \subseteq hoursJob'[x].who /\ hoursJob'[x].who \subseteq Members
    BY <1>1, <1>2, <1>4 DEF Service!TypeOK, Service!Job
  <2> QED
    BY <1>1, <2>1 DEF Service!TypeOK
<1>7. Service!JobsInv'
  <2>1. hoursJob' \in [Workers -> Service!Job]
    <3>1. hoursJob' = [x \in Workers |-> hoursJob'[x]]
      BY DEF Service!Overtake
    <3>2. \A x \in Workers : hoursJob'[x] \in Service!Job
      BY <1>2, <1>4
    <3> QED
      BY <3>1, <3>2
  <2>2. ASSUME NEW x \in Workers PROVE Service!JobOK(x)'
    <3>1. CASE x = w
      BY <1>2, <3>1 DEF Service!JobOK
    <3>2. CASE x # w
      <4>1. Service!JobOK(x) /\ hoursPc'[x] = hoursPc[x]
        BY <1>1, <3>2 DEF Service!JobsInv
      <4>2. hoursJob[x].who \subseteq Members
        BY <1>1 DEF Service!TypeOK
      <4>3. ASSUME hoursPc[x] = "read", ~hoursJob'[x].overtaken, NEW m \in hoursJob[x].who
            PROVE  hoursJob'[x].totals[m] = Service!Sum(m)'
        <5>1. ~hoursJob[x].overtaken /\ m \in Members \ S
          BY <1>4, <3>2, <4>2, <4>3
        <5> QED
          BY <1>4, <1>5, <3>2, <4>1, <4>3, <5>1 DEF Service!JobOK
      <4> QED
        BY <1>4, <3>2, <4>1, <4>3 DEF Service!JobOK
    <3> QED
      BY <3>1, <3>2
  <2> QED
    BY <2>1, <2>2 DEF Service!JobsInv
<1>8. Service!TotalTrue'
  <2> SUFFICES ASSUME NEW m \in Members, m \notin hoursDoubt', m \notin unheard', m \notin typed',
                      ~Service!Owed(m)'
               PROVE  total'[m] = Service!Sum(m)'
    BY DEF Service!TotalTrue
  <2>1. ~Service!Owed(m)
    BY <1>2, <1>4 DEF Service!Owed
  <2>2. m \notin S
    BY <1>2 DEF Service!Owed
  <2> QED
    BY <1>1, <1>5, <2>1, <2>2 DEF Service!TotalTrue
<1> QED
  BY <1>6, <1>7, <1>8 DEF Service!IInv

LEMMA StartLogIInv ==
  ASSUME Service!IInv, NEW w \in Workers, NEW e \in Events, NEW S \in SUBSET Members,
         NEW h \in Service!Hours,
         Service!StartLog(w, e, S, h)
  PROVE  Service!IInv'
<1>1. Service!TypeOK /\ Service!JobsInv
  BY DEF Service!IInv
<1>2. Service!Attending(e) \in SUBSET Members
  BY DEF Service!Attending
<1>3. PICK j \in Service!Job : /\ hoursJob' = [hoursJob EXCEPT ![w] = j]
                       /\ j.event = e /\ j.left = S /\ j.who = S
  <2>1. [Service!NoJob EXCEPT !.event = e, !.entry = h, !.left = S, !.who = S,
      !.known = Service!Attending(e)]
        \in Service!Job
    BY <1>2, ServiceNullJob DEF Service!Job
  <2>2. /\ [Service!NoJob EXCEPT !.event = e, !.entry = h, !.left = S, !.who = S,
              !.known = Service!Attending(e)].event = e
        /\ [Service!NoJob EXCEPT !.event = e, !.entry = h, !.left = S, !.who = S,
              !.known = Service!Attending(e)].left = S
        /\ [Service!NoJob EXCEPT !.event = e, !.entry = h, !.left = S, !.who = S,
              !.known = Service!Attending(e)].who = S
    BY ServiceNullJob DEF Service!Job
  <2> QED
    BY <2>1, <2>2 DEF Service!StartLog
<1>4. /\ hoursPc' = [hoursPc EXCEPT ![w] = "logging"] /\ hoursRequests' \in 0..HoursRequests
      /\ hoursPc[w] = "idle"
      /\ UNCHANGED <<events, hours, total, unheard, typed, hoursDoubt>>
  BY <1>1 DEF Service!StartLog, Service!Begin, Service!Goto, Service!TypeOK
<1>5. hoursPc' \in [Workers -> Service!Steps] /\ hoursPc'[w] = "logging"
       /\ \A x \in Workers \ {w} : hoursPc'[x] = hoursPc[x]
  BY <1>1, <1>4 DEF Service!TypeOK, Service!Steps
<1>6. hoursJob[w].who = {}
  BY <1>1, <1>4 DEF Service!JobsInv, Service!JobOK
<1> QED
  BY <1>3, <1>4, <1>5, <1>6, ServiceQuietIInv

\* What a request leaves behind when it emits its event.
LEMMA Emitted ==
  ASSUME Service!TypeOK, NEW w \in Workers, NEW S \in SUBSET Members, Service!Emit(w, S)
  PROVE  /\ \E j \in Service!Job : Service!Overtake(w, S, j) /\ j.who = S /\ j.left = {}
         /\ hoursPc' \in [Workers -> Service!Steps] /\ hoursPc'[w] = "emitted"
         /\ \A x \in Workers \ {w} : hoursPc'[x] = hoursPc[x]
<1>1. [Service!NoJob EXCEPT !.who = S] \in Service!Job
  BY ServiceNullJob DEF Service!Job
<1>2. [Service!NoJob EXCEPT !.who = S].who = S /\ [Service!NoJob EXCEPT !.who = S].left = {}
  BY ServiceNullJob DEF Service!Job
<1>3. Service!Overtake(w, S, [Service!NoJob EXCEPT !.who = S])
  BY DEF Service!Emit
<1>4. hoursPc' = [hoursPc EXCEPT ![w] = "emitted"]
  BY DEF Service!Emit, Service!Goto
<1> QED
  BY <1>1, <1>2, <1>3, <1>4 DEF Service!TypeOK, Service!Steps

LEMMA ServiceEmitIInv ==
  ASSUME Service!IInv, NEW w \in Workers, NEW S \in SUBSET Members, Service!Emit(w, S),
         UNCHANGED <<total, hoursDoubt, unheard, typed>>,
         hoursJob[w].who \ hoursJob[w].left \subseteq S,
         events' \subseteq Events, hoursRequests' \in 0..HoursRequests,
         hours' \in [Events -> [Members -> Service!Hours \cup {None}]], Service!RowsInv',
         \A e \in Events, m \in Members \ S : hours'[e][m] = hours[e][m]
  PROVE  Service!IInv'
<1>1. Service!TypeOK
  BY DEF Service!IInv
<1>2. PICK j \in Service!Job : Service!Overtake(w, S, j) /\ j.who = S /\ j.left = {}
  BY <1>1, Emitted
<1>3. /\ hoursPc' \in [Workers -> Service!Steps] /\ hoursPc'[w] = "emitted"
      /\ \A x \in Workers \ {w} : hoursPc'[x] = hoursPc[x]
  BY <1>1, Emitted
<1>4. unheard \subseteq unheard' /\ unheard' \subseteq Members
  BY <1>1 DEF Service!TypeOK
<1> QED
  BY <1>2, <1>3, <1>4, ServiceChangeIInv

LEMMA BeginIdle ==
  ASSUME Service!IInv, NEW w \in Workers, Service!Begin(w)
  PROVE  hoursRequests' \in 0..HoursRequests /\ hoursJob[w].who = {} /\ hoursPc[w] = "idle"
BY DEF Service!IInv, Service!TypeOK, Service!JobsInv, Service!JobOK, Service!Begin

\* One row of an event that exists.
LEMMA OneRow ==
  ASSUME Service!TypeOK, Service!RowsInv, NEW e \in events, NEW m \in Members,
         NEW h \in Service!Hours \cup {None},
         hours' = [hours EXCEPT ![e][m] = h], UNCHANGED events
  PROVE  /\ hours' \in [Events -> [Members -> Service!Hours \cup {None}]]
         /\ Service!RowsInv' /\ events' \subseteq Events
         /\ \A d \in Events, n \in Members \ {m} : hours'[d][n] = hours[d][n]
<1>1. \A d \in Events, n \in Members :
        hours'[d][n] = IF d = e /\ n = m THEN h ELSE hours[d][n]
  BY DEF Service!TypeOK
<1> QED
  BY <1>1 DEF Service!TypeOK, Service!RowsInv

LEMMA LogEntryIInv ==
  ASSUME Service!IInv, NEW w \in Workers, NEW m \in Members, Service!LogEntry(w, m)
  PROVE  Service!IInv'
<1>1. Service!TypeOK /\ Service!RowsInv /\ Service!JobsInv
  BY DEF Service!IInv
<1>2. PICK j \in Service!Job : j = hoursJob[w]
  BY <1>1 DEF Service!JobsInv
<1>3. PICK left : left = j.left \ {m}
  OBVIOUS
<1>4. /\ hoursPc[w] = "logging" /\ m \in j.left /\ Service!Writable(w, m)
      /\ hours' = [hours EXCEPT ![j.event][m] = j.entry]
      /\ left = {} => Service!Emit(w, j.who)
      /\ left # {} => Service!Overtake(w, {m}, [j EXCEPT !.left = left]) /\ UNCHANGED hoursPc
      /\ UNCHANGED <<events, total, hoursRequests, hoursDoubt, unheard, typed>>
  BY <1>2, <1>3 DEF Service!LogEntry
<1>5. j.event \in events /\ j.entry \in Service!Hours \cup {None} /\ j.left \subseteq j.who
      /\ j.who \in SUBSET Members /\ j.event \in Events
  BY <1>1, <1>2, <1>4 DEF Service!Writable, Service!Job, Service!TypeOK
<1>6. /\ hours' \in [Events -> [Members -> Service!Hours \cup {None}]]
      /\ Service!RowsInv' /\ events' \subseteq Events
      /\ \A d \in Events, n \in Members \ {m} : hours'[d][n] = hours[d][n]
  BY <1>1, <1>4, <1>5, OneRow
<1>7. hoursRequests' \in 0..HoursRequests
  BY <1>1, <1>4 DEF Service!TypeOK
<1>8. CASE left = {}
  <2>1. Service!Emit(w, j.who) /\ m \in j.who /\ hoursJob[w].who \ hoursJob[w].left \subseteq j.who
    BY <1>2, <1>4, <1>5, <1>8
  <2> QED
    BY <1>4, <1>5, <1>6, <1>7, <2>1, ServiceEmitIInv
<1>9. CASE left # {}
  <2>1. PICK k \in Service!Job : k = [j EXCEPT !.left = left]
    BY <1>3, <1>5 DEF Service!Job
  <2>2. k.left = left /\ k.who = j.who /\ k.event = j.event
    BY <2>1 DEF Service!Job
  <2>3. Service!Overtake(w, {m}, k) /\ UNCHANGED hoursPc
    BY <1>4, <1>9, <2>1
  <2>4. hoursPc' \in [Workers -> Service!Steps] /\ hoursPc'[w] = "logging"
         /\ \A x \in Workers \ {w} : hoursPc'[x] = hoursPc[x]
    BY <1>1, <1>4, <2>3 DEF Service!TypeOK
  <2>5. /\ {m} \subseteq (k.who \ k.left) \cup unheard'
        /\ k.left \subseteq k.who
        /\ hoursJob[w].who \ hoursJob[w].left \subseteq k.who \ k.left
    BY <1>2, <1>3, <1>4, <1>5, <2>2
  <2>6. unheard \subseteq unheard' /\ unheard' \subseteq Members
    BY <1>1, <1>4 DEF Service!TypeOK
  <2>7. k.event \in Events
    BY <1>5, <2>2
  <2> QED
    BY <1>4, <1>6, <1>7, <2>3, <2>4, <2>5, <2>6, <2>7, ServiceChangeIInv
<1> QED
  BY <1>8, <1>9

LEMMA ParticipationIInv ==
  ASSUME Service!IInv, NEW w \in Workers, NEW e \in Events, NEW m \in Members,
         NEW h \in Service!Hours \cup {None},
         Service!Begin(w), e \in events, hours' = [hours EXCEPT ![e][m] = h], Service!Emit(w, {m}),
         UNCHANGED <<events, total, hoursDoubt, unheard, typed>>
  PROVE  Service!IInv'
<1>1. Service!TypeOK /\ Service!RowsInv
  BY DEF Service!IInv
<1>2. hoursRequests' \in 0..HoursRequests /\ hoursJob[w].who \ hoursJob[w].left \subseteq {m}
  BY BeginIdle
<1>3. /\ hours' \in [Events -> [Members -> Service!Hours \cup {None}]]
      /\ Service!RowsInv' /\ events' \subseteq Events
      /\ \A d \in Events, n \in Members \ {m} : hours'[d][n] = hours[d][n]
  BY <1>1, OneRow
<1> QED
  BY <1>2, <1>3, ServiceEmitIInv

LEMMA Cascaded ==
  ASSUME Service!TypeOK, Service!RowsInv, NEW e \in Events, Service!Cascade(e)
  PROVE  /\ hours' \in [Events -> [Members -> Service!Hours \cup {None}]]
         /\ Service!RowsInv' /\ events' \subseteq Events
         /\ \A d \in Events, m \in Members \ Service!Attending(e) : hours'[d][m] = hours[d][m]
<1>1. events' = events \ {e}
  BY DEF Service!Cascade
<1>2. \A d \in Events, m \in Members : hours'[d][m] = IF d = e THEN None ELSE hours[d][m]
  BY DEF Service!TypeOK, Service!Cascade
<1>3. hours' \in [Events -> [Members -> Service!Hours \cup {None}]]
  BY DEF Service!TypeOK, Service!Cascade
<1> QED
  BY <1>1, <1>2, <1>3 DEF Service!TypeOK, Service!RowsInv, Service!Attending

LEMMA DeleteServiceEventIInv ==
  ASSUME Service!IInv, NEW w \in Workers, NEW e \in Events, Service!DeleteServiceEvent(w, e)
  PROVE  Service!IInv'
<1>1. Service!TypeOK /\ Service!RowsInv
  BY DEF Service!IInv
<1>2. /\ Service!Begin(w) /\ Service!Cascade(e) /\ Service!Emit(w, Members)
      /\ UNCHANGED <<total, hoursDoubt, unheard, typed>>
  BY DEF Service!DeleteServiceEvent
<1>3. hoursRequests' \in 0..HoursRequests /\ hoursJob[w].who \ hoursJob[w].left \subseteq Members
  BY <1>2, BeginIdle
<1>4. /\ hours' \in [Events -> [Members -> Service!Hours \cup {None}]]
      /\ Service!RowsInv' /\ events' \subseteq Events
      /\ \A d \in Events, m \in Members \ Members : hours'[d][m] = hours[d][m]
  BY <1>1, <1>2, Cascaded
<1> QED
  BY <1>2, <1>3, <1>4, ServiceEmitIInv

LEMMA DeleteCalendarIInv ==
  ASSUME Service!IInv, NEW w \in Workers, NEW e \in Events, Service!DeleteCalendar(w, e)
  PROVE  Service!IInv'
<1>1. Service!TypeOK /\ Service!RowsInv
  BY DEF Service!IInv
<1>2. /\ Service!Begin(w) /\ Service!Cascade(e)
      /\ Service!Overtake(w, Service!Attending(e), Service!NoJob)
      /\ unheard' = unheard \cup Service!Attending(e)
      /\ UNCHANGED <<total, hoursPc, hoursDoubt, typed>>
  BY DEF Service!DeleteCalendar
<1>3. hoursRequests' \in 0..HoursRequests /\ hoursJob[w].who = {} /\ hoursPc[w] = "idle"
  BY <1>2, BeginIdle
<1>4. /\ hours' \in [Events -> [Members -> Service!Hours \cup {None}]]
      /\ Service!RowsInv' /\ events' \subseteq Events
      /\ \A d \in Events, m \in Members \ Service!Attending(e) : hours'[d][m] = hours[d][m]
  BY <1>1, <1>2, Cascaded
<1>5. Service!Attending(e) \in SUBSET Members
  BY DEF Service!Attending
<1>6. /\ unheard \subseteq unheard' /\ unheard' \subseteq Members
      /\ Service!Attending(e) \subseteq unheard'
  BY <1>1, <1>2, <1>5 DEF Service!TypeOK
<1>7. hoursPc' \in [Workers -> Service!Steps] /\ hoursPc'[w] = "idle" /\ \A x \in Workers \ {w} :
        hoursPc'[x] = hoursPc[x]
  BY <1>1, <1>2, <1>3 DEF Service!TypeOK
<1> QED
  BY <1>2, <1>3, <1>4, <1>5, <1>6, <1>7, ServiceNullJob, ServiceChangeIInv

LEMMA ReadTotalsIInv ==
  ASSUME Service!IInv, NEW w \in Workers, Service!ReadTotals(w)
  PROVE  Service!IInv'
<1>1. Service!TypeOK /\ Service!RowsInv /\ Service!JobsInv
  BY DEF Service!IInv
<1>2. PICK f : f = [m \in Members |-> Service!TotalOf(m)]
  OBVIOUS
<1>3. ASSUME NEW m \in Members
      PROVE f[m] = Service!Sum(m) /\ f[m] \in 0..MaxHours * Service!Cardinality(Events)
  BY <1>1, <1>2, TotalIsSum, SumRange
<1>4. f \in [Members -> 0..MaxHours * Service!Cardinality(Events)]
  BY <1>2, <1>3
<1>5. PICK j \in Service!Job : j = hoursJob[w]
  BY <1>1 DEF Service!JobsInv
<1>6. PICK k \in Service!Job : k = [j EXCEPT !.totals = f]
  BY <1>4 DEF Service!Job, Service!Totals
<1>7. k.totals = f /\ k.who = j.who /\ k.left = j.left
  BY <1>6 DEF Service!Job
<1>8. hoursJob' = [hoursJob EXCEPT ![w] = k]
  BY <1>1, <1>2, <1>5, <1>6 DEF Service!ReadTotals, Service!JobsInv
<1>9. /\ hoursPc[w] = "emitted" /\ hoursPc' = [hoursPc EXCEPT ![w] = "read"]
      /\ UNCHANGED <<events, hours, total, hoursRequests, hoursDoubt, unheard, typed>>
  BY DEF Service!ReadTotals, Service!Goto
<1>10. hoursPc' \in [Workers -> Service!Steps] /\ hoursPc'[w] = "read"
        /\ \A x \in Workers \ {w} : hoursPc'[x] = hoursPc[x]
  BY <1>1, <1>9 DEF Service!TypeOK, Service!Steps
<1>11. j.left = {} /\ j.who \subseteq Members
  BY <1>1, <1>5, <1>9 DEF Service!JobsInv, Service!JobOK, Service!TypeOK
<1>12. hoursRequests' \in 0..HoursRequests /\ hoursDoubt' = hoursDoubt \cup {}
  BY <1>1, <1>9 DEF Service!TypeOK
<1>13. \A m \in k.who : k.totals[m] = Service!Sum(m)
  BY <1>3, <1>7, <1>11
<1>14. hoursJob[w].who \ hoursJob[w].left \subseteq (k.who \ k.left) \cup {} /\ k.left = {}
  BY <1>5, <1>7, <1>11
<1> QED
  BY <1>8, <1>9, <1>10, <1>12, <1>13, <1>14, ServiceQuietIInv

LEMMA ServiceDieIInv ==
  ASSUME Service!IInv, NEW w \in Workers, Service!Die(w)
  PROVE  Service!IInv'
<1>1. Service!TypeOK /\ Service!JobsInv
  BY DEF Service!IInv
<1>2. PICK d : d = hoursJob[w].who \ hoursJob[w].left
  OBVIOUS
<1>3. d \in SUBSET Members
  BY <1>1, <1>2 DEF Service!TypeOK
<1>4. /\ hoursDoubt' = hoursDoubt \cup d /\ hoursPc' = [hoursPc EXCEPT ![w] = "idle"]
      /\ hoursJob' = [hoursJob EXCEPT ![w] = Service!NoJob]
      /\ UNCHANGED <<events, hours, total, hoursRequests, unheard, typed>>
  BY <1>2 DEF Service!Die, Service!Goto
<1>5. hoursPc' \in [Workers -> Service!Steps] /\ hoursPc'[w] = "idle" /\ \A x \in Workers \ {w} :
        hoursPc'[x] = hoursPc[x]
  BY <1>1, <1>4 DEF Service!TypeOK, Service!Steps
<1>6. hoursRequests' \in 0..HoursRequests
  BY <1>1, <1>4 DEF Service!TypeOK
<1>7. hoursJob[w].who \ hoursJob[w].left \subseteq (Service!NoJob.who \ Service!NoJob.left) \cup d
  BY <1>2
<1> QED
  BY <1>3, <1>4, <1>5, <1>6, <1>7, ServiceNullJob, ServiceQuietIInv

LEMMA WriteTotalsIInv ==
  ASSUME Service!IInv, NEW w \in Workers, Service!WriteTotals(w)
  PROVE  Service!IInv'
<1>1. Service!TypeOK /\ Service!RowsInv /\ Service!JobsInv /\ Service!TotalTrue
  BY DEF Service!IInv
<1>2. PICK j \in Service!Job : j = hoursJob[w]
  BY <1>1 DEF Service!JobsInv
<1>3. /\ hoursPc[w] = "read"
      /\ total' = [m \in Members |-> IF m \in j.who THEN j.totals[m] ELSE total[m]]
      /\ hoursDoubt' = IF j.overtaken THEN hoursDoubt \cup j.who ELSE hoursDoubt \ j.who
      /\ unheard' = IF j.overtaken THEN unheard ELSE unheard \ j.who
      /\ typed' = IF j.overtaken THEN typed ELSE typed \ j.who
      /\ hoursPc' = [hoursPc EXCEPT ![w] = "idle"]
      /\ hoursJob' = [hoursJob EXCEPT ![w] = Service!NoJob]
      /\ UNCHANGED <<events, hours, hoursRequests>>
  BY <1>2 DEF Service!WriteTotals, Service!Goto
<1>4. j.left = {} /\ j.who \subseteq Members
  BY <1>1, <1>2, <1>3 DEF Service!JobsInv, Service!JobOK, Service!TypeOK
<1>5. \A x \in Workers : hoursJob'[x] = IF x = w THEN Service!NoJob ELSE hoursJob[x]
  BY <1>1, <1>3 DEF Service!JobsInv
<1>6. ASSUME NEW m PROVE Service!Sum(m)' = Service!Sum(m)
  BY <1>3, SumStands
<1>7. Service!TypeOK'
  <2>1. total' \in [Members -> Service!Totals]
    BY <1>1, <1>3 DEF Service!TypeOK, Service!Job
  <2>2. hoursDoubt' \subseteq Members /\ unheard' \subseteq Members /\ typed' \subseteq Members
    BY <1>1, <1>3, <1>4 DEF Service!TypeOK
  <2>3. \A x \in Workers :
          hoursJob'[x].left \subseteq hoursJob'[x].who /\ hoursJob'[x].who \subseteq Members
    BY <1>1, <1>5, ServiceNullJob DEF Service!TypeOK
  <2>4. hoursPc' \in [Workers -> Service!Steps]
    BY <1>1, <1>3 DEF Service!TypeOK, Service!Steps
  <2> QED
    BY <1>1, <1>3, <2>1, <2>2, <2>3, <2>4 DEF Service!TypeOK
<1>8. Service!RowsInv'
  BY <1>1, <1>3 DEF Service!RowsInv
<1>9. Service!JobsInv'
  <2>1. hoursJob' \in [Workers -> Service!Job]
    BY <1>1, <1>3, ServiceNullJob DEF Service!JobsInv
  <2>2. ASSUME NEW x \in Workers PROVE Service!JobOK(x)'
    <3>1. hoursPc'[x] = IF x = w THEN "idle" ELSE hoursPc[x]
      BY <1>1, <1>3 DEF Service!TypeOK
    <3>2. CASE x = w
      BY <1>5, <3>1, <3>2, ServiceNullJob DEF Service!JobOK
    <3>3. CASE x # w
      BY <1>1, <1>5, <1>6, <3>1, <3>3 DEF Service!JobsInv, Service!JobOK
    <3> QED
      BY <3>2, <3>3
  <2> QED
    BY <2>1, <2>2 DEF Service!JobsInv
<1>10. Service!TotalTrue'
  <2> SUFFICES ASSUME NEW m \in Members, m \notin hoursDoubt', m \notin unheard', m \notin typed',
                      ~Service!Owed(m)'
               PROVE  total'[m] = Service!Sum(m)'
    BY DEF Service!TotalTrue
  <2>1. CASE m \in j.who
    <3>1. ~j.overtaken
      BY <1>3, <2>1
    <3>2. j.totals[m] = Service!Sum(m)
      BY <1>1, <1>2, <1>3, <2>1, <3>1 DEF Service!JobsInv, Service!JobOK
    <3> QED
      BY <1>3, <1>6, <2>1, <3>2
  <2>2. CASE m \notin j.who
    <3>1. m \notin hoursDoubt /\ m \notin unheard /\ m \notin typed
      BY <1>3, <2>2
    <3>2. ~Service!Owed(m)
      BY <1>2, <1>5, <2>2 DEF Service!Owed
    <3>3. total'[m] = total[m]
      BY <1>3, <2>2
    <3> QED
      BY <1>1, <1>6, <3>1, <3>2, <3>3 DEF Service!TotalTrue
  <2> QED
    BY <2>1, <2>2
<1> QED
  BY <1>7, <1>8, <1>9, <1>10 DEF Service!IInv

\* A total that is set is not vouched for.
LEMMA SetTotalIInv ==
  ASSUME Service!IInv, NEW w \in Workers, NEW m \in Members, NEW h \in Service!Totals,
         Service!SetTotal(w, m, h)
  PROVE  Service!IInv'
<1>1. Service!TypeOK /\ Service!RowsInv /\ Service!JobsInv /\ Service!TotalTrue
  BY DEF Service!IInv
<1>2. /\ hoursRequests' \in 0..HoursRequests
      /\ total' = [total EXCEPT ![m] = h] /\ typed' = typed \cup {m}
      /\ UNCHANGED <<events, hours, hoursPc, hoursJob, hoursDoubt, unheard>>
  BY <1>1 DEF Service!SetTotal, Service!Begin, Service!TypeOK
<1>3. ASSUME NEW n PROVE Service!Sum(n)' = Service!Sum(n)
  BY <1>2, SumStands
<1>4. Service!TypeOK'
  BY <1>1, <1>2 DEF Service!TypeOK
<1>5. Service!RowsInv'
  BY <1>1, <1>2 DEF Service!RowsInv
<1>6. Service!JobsInv'
  BY <1>1, <1>2, <1>3 DEF Service!JobsInv, Service!JobOK
<1>7. Service!TotalTrue'
  <2> SUFFICES ASSUME NEW n \in Members, n \notin hoursDoubt', n \notin unheard',
                      n \notin typed', ~Service!Owed(n)'
               PROVE  total'[n] = Service!Sum(n)'
    BY DEF Service!TotalTrue
  <2>1. n # m /\ n \notin typed /\ ~Service!Owed(n)
    BY <1>2 DEF Service!Owed
  <2>2. total'[n] = total[n]
    BY <1>1, <1>2, <2>1 DEF Service!TypeOK
  <2> QED
    BY <1>1, <1>2, <1>3, <2>1, <2>2 DEF Service!TotalTrue
<1> QED
  BY <1>4, <1>5, <1>6, <1>7 DEF Service!IInv

LEMMA ServiceInitIInv == Service!Init => Service!IInv
<1> SUFFICES ASSUME Service!Init PROVE Service!IInv
  OBVIOUS
<1>1. MaxHours * Service!Cardinality(Events) \in Nat
  BY SameCount, FS_CardinalityType
<1>2. Service!TypeOK
  BY <1>1, ServiceNullJob DEF Service!Init, Service!TypeOK, Service!Steps, Service!Hours,
     Service!Totals
<1>3. Service!RowsInv
  BY DEF Service!Init, Service!RowsInv
<1>4. Service!JobsInv
  BY ServiceNullJob DEF Service!Init, Service!JobsInv, Service!JobOK
<1>5. Service!TotalTrue
  <2>1. ASSUME NEW m \in Members PROVE Service!Sum(m) = 0
    <3>1. {} = {e \in Events : hours[e][m] # None}
      BY DEF Service!Init
    <3>2. Service!Sum(m) = Adding([e \in {} |-> hours[e][m]], {})[{}]
      BY <3>1, SumHere
    <3> QED
      BY <3>2, AddingStep, FS_EmptySet
  <2> QED
    BY <2>1 DEF Service!Init, Service!TotalTrue
<1> QED
  BY <1>2, <1>3, <1>4, <1>5 DEF Service!IInv

LEMMA ServiceStutterIInv == Service!IInv /\ UNCHANGED Service!vars => Service!IInv'
<1> SUFFICES ASSUME Service!IInv, UNCHANGED Service!vars PROVE Service!IInv'
  OBVIOUS
<1>1. ASSUME NEW m PROVE Service!Sum(m)' = Service!Sum(m)
  BY SumStands DEF Service!vars
<1>2. Service!TypeOK'
  BY DEF Service!IInv, Service!TypeOK, Service!vars
<1>3. Service!RowsInv'
  BY DEF Service!IInv, Service!RowsInv, Service!vars
<1>4. Service!JobsInv'
  BY <1>1 DEF Service!IInv, Service!JobsInv, Service!JobOK, Service!vars
<1>5. Service!TotalTrue'
  BY <1>1 DEF Service!IInv, Service!TotalTrue, Service!Owed, Service!vars
<1> QED
  BY <1>2, <1>3, <1>4, <1>5 DEF Service!IInv

LEMMA ServiceNextIInv == Service!IInv /\ [Service!Next]_Service!vars => Service!IInv'
<1> SUFFICES ASSUME Service!IInv, [Service!Next]_Service!vars PROVE Service!IInv'
  OBVIOUS
<1>1. ASSUME NEW w \in Workers, NEW e \in Events, NEW m \in Members, NEW h \in Service!Hours,
             Service!UpdateParticipation(w, e, m, h)
      PROVE  Service!IInv'
  BY <1>1, ParticipationIInv DEF Service!UpdateParticipation
<1>2. ASSUME NEW w \in Workers, NEW e \in Events, NEW m \in Members,
             Service!RemoveParticipation(w, e, m)
      PROVE  Service!IInv'
  BY <1>2, ParticipationIInv DEF Service!RemoveParticipation
<1>3. CASE UNCHANGED Service!vars
  BY <1>3, ServiceStutterIInv
<1>4. ASSUME NEW w \in Workers, NEW m \in Members, NEW h \in Service!Totals,
             Service!UpdateBrother(w, m, h)
      PROVE  Service!IInv'
  BY <1>4, SetTotalIInv DEF Service!UpdateBrother
<1>5. ASSUME NEW w \in Workers, NEW m \in Members, Service!Return(w, m)
      PROVE  Service!IInv'
  <2>1. 0 \in Service!Totals
    BY SameCount, FS_CardinalityType DEF Service!Totals
  <2> QED
    BY <1>5, <2>1, SetTotalIInv DEF Service!Return
<1>6. CASE Service!Next
  BY <1>1, <1>2, <1>4, <1>5, <1>6, StartLogIInv, LogEntryIInv, DeleteServiceEventIInv, DeleteCalendarIInv,
     ReadTotalsIInv, WriteTotalsIInv, ServiceDieIInv DEF Service!Next
<1> QED
  BY <1>3, <1>6

\* The invariant of ServiceHours is inductive.
THEOREM HoursInductive == Service!Spec => []Service!IInv
BY ServiceInitIInv, ServiceNextIInv, PTL DEF Service!Spec

\* HoursTrue, the run's property of the service hours: the total of a member is the sum of
\* the participations, unless a recalculation is to come, died or was overtaken, nobody was
\* told of the deletion, or somebody has set the total since.
THEOREM HoursTrueAlways == Service!Spec => []HoursTrue
<1>1. Service!IInv => HoursTrue
  BY DEF Service!IInv, HoursTrue
<1> QED
  BY <1>1, HoursInductive, PTL

=============================================================================
