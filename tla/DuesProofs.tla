----------------------------- MODULE DuesProofs -----------------------------
(***************************************************************************)
(* Theorems about Dues for any number of members, handlers, rows and       *)
(* amounts: its inductive invariant, that the balances and the ledger add  *)
(* up, and that it implements DuesBooks.                                   *)
(***************************************************************************)
EXTENDS MCDues, FiniteSetTheorems, WellFoundedInduction, TLAPS

-----------------------------------------------------------------------------
(* What the operators the actions are built from return *)

LEMMA NoJobType == NoJob \in Job
BY NoneAssumption, AmountsAssumption DEF NoJob, Job

\* The four shapes of what a handler remembers.
LEMMA JobTypes ==
  /\ \A x \in Rows : [NoJob EXCEPT !.row = x] \in Job
  /\ \A m \in Members : [NoJob EXCEPT !.who = m] \in Job
  /\ \A x \in Rows, in \in Inputs : [NoJob EXCEPT !.row = x, !.input = in] \in Job
  /\ \A x \in Rows, p \in Patches : [NoJob EXCEPT !.row = x, !.patch = p] \in Job
  /\ \A x \in Rows, m \in Members : [NoJob EXCEPT !.row = x, !.who = m] \in Job
  /\ \A x \in Rows, m \in Members, a \in Amounts :
       [NoJob EXCEPT !.row = x, !.who = m, !.amount = a] \in Job
BY AmountsAssumption DEF NoJob, Job

LEMMA FreeRowType == FreeRow \in Row
BY AmountsAssumption DEF FreeRow, Row

LEMMA NewRowType ==
  ASSUME NEW in \in Inputs, NEW who \in Members \cup {None},
         NEW posted \in BOOLEAN, NEW credit \in BOOLEAN
  PROVE  NewRow(in, who, posted, credit) \in Row
BY InputsAssumption DEF NewRow, Row, InputSet

\* An edit leaves a well-formed row.
LEMMA PatchedType ==
  ASSUME NEW r \in Row, NEW p \in Patches
  PROVE  Patched(r, p) \in Row
<1>1. p \in PatchSet
  BY PatchesAssumption
<1>2. /\ Set(p.amount, r.amount) \in Amounts
      /\ Set(p.dues, r.dues) \in BOOLEAN
      /\ Set(p.memo, r.memo) \in Memos \cup {None}
      /\ Set(p.posted, r.posted) \in BOOLEAN
  BY <1>1 DEF PatchSet, Set, Row
<1> QED
  BY <1>2 DEF Patched, Row

\* So do a void, and the end of the duplicate window.
LEMMA EndedType ==
  ASSUME NEW r \in Row
  PROVE  /\ [r EXCEPT !.state = "void", !.credit = FALSE] \in Row
         /\ [r EXCEPT !.state = "void"] \in Row
         /\ [r EXCEPT !.fresh = FALSE] \in Row
BY DEF Row

\* A handler that moves on remembers something well formed.
LEMMA GotoType ==
  ASSUME TypeOK, NEW w \in Workers, NEW step \in Steps, NEW j \in Job,
         Goto(w, step, j)
  PROVE  pc' \in [Workers -> Steps] /\ job' \in [Workers -> Job]
BY DEF TypeOK, Goto

LEMMA FinishType ==
  ASSUME TypeOK, NEW w \in Workers, Finish(w)
  PROVE  pc' \in [Workers -> Steps] /\ job' \in [Workers -> Job]
<1>1. "idle" \in Steps
  BY DEF Steps
<1> QED
  BY <1>1, GotoType, NoJobType DEF Finish

LEMMA SetOwedType ==
  ASSUME TypeOK, NEW m \in Members, NEW cents \in Int, NEW residue \in BOOLEAN,
         SetOwed(m, cents, residue)
  PROVE  owed' \in [Members -> Int] /\ drift' \in [Members -> BOOLEAN]
BY DEF TypeOK, SetOwed

LEMMA ZeroOwedType ==
  ASSUME TypeOK, NEW m \in Members, SetOwed(m, 0, FALSE)
  PROVE  owed' \in [Members -> Int] /\ drift' \in [Members -> BOOLEAN]
BY DEF TypeOK, SetOwed

\* Erasing a member changes what a row says about who paid and nothing else.
LEMMA EraseRows ==
  ASSUME TypeOK, NEW m \in Members, rows' = Unnamed(m), NEW x \in Rows
  PROVE  /\ rows'[x].state = rows[x].state /\ rows'[x].amount = rows[x].amount
         /\ rows'[x].dues = rows[x].dues /\ rows'[x].memo = rows[x].memo
         /\ rows'[x].fresh = rows[x].fresh
         /\ rows[x].who = m => /\ rows'[x].who = None /\ ~rows'[x].credit
                               /\ rows'[x].input = None
         /\ rows[x].who # m => rows'[x] = rows[x]
<1>1. rows[x] \in Row
  BY DEF TypeOK
<1>2. rows'[x] = IF rows[x].who = m
        THEN [rows[x] EXCEPT !.who = None, !.credit = FALSE, !.input = None]
        ELSE rows[x]
  BY DEF Unnamed
<1> QED
  BY <1>1, <1>2 DEF Row

\* The void of a dues payment remembers the member and the amount it read.
LEMMA ReadForVoidRemembers ==
  ASSUME NEW w \in Workers, NEW x \in Rows, ReadForVoid(w, x),
         rows[x].state = "live", IsDuesPayment(rows[x])
  PROVE  /\ pc' = [pc EXCEPT ![w] = "voidDues"]
         /\ job' = [job EXCEPT ![w] =
                      [row |-> x, who |-> rows[x].who, amount |-> rows[x].amount,
                       input |-> None, patch |-> None]]
         /\ rows' = rows /\ rows[x].state # "free"
BY DEF ReadForVoid, Goto, NoJob

LEMMA ResiduesType == Residues \subseteq BOOLEAN
BY DriftAssumption DEF Residues

LEMMA DeltasType == Deltas \subseteq Int
BY DeltasAssumption

LEMMA AmountsType == Amounts \subseteq Int /\ \A a \in Amounts : a >= 0
BY AmountsAssumption

-----------------------------------------------------------------------------
(* Whole numbers of cents, and amounts rounded to them *)

LEMMA CentType == Cent \in Int /\ Cent > 0 /\ Half \in Int /\ Half > 0 /\ Cent = 2 * Half
BY HalfAssumption DEF Cent

LEMMA Division ==
  ASSUME NEW n \in Int
  PROVE  \E q \in Int, r \in Int : n = q * Cent + r /\ 0 <= r /\ r < Cent /\ r = n % Cent
<1>1. Cent \in Int /\ Cent > 0
  BY CentType
<1> QED
  BY <1>1

LEMMA SmallMultiple ==
  ASSUME NEW c \in Int, NEW j \in Int, c > 0, -c < j * c, j * c < c
  PROVE  j = 0
OBVIOUS

LEMMA MultipleIsWhole ==
  ASSUME NEW k \in Int
  PROVE  IsWhole(k * Cent)
<1> DEFINE n == k * Cent
<1>1. n \in Int
  BY CentType
<1> HIDE DEF n
<1>2. PICK q \in Int, r \in Int : n = q * Cent + r /\ 0 <= r /\ r < Cent /\ r = n % Cent
  BY <1>1, Division
<1>3. (k - q) * Cent = r
  BY <1>2, CentType DEF n
<1>4. k - q = 0
  BY <1>2, <1>3, CentType, SmallMultiple
<1>5. r = 0
  BY <1>3, <1>4, CentType
<1> QED
  BY <1>2, <1>5 DEF IsWhole, n

LEMMA WholeIsMultiple ==
  ASSUME NEW a \in Int, IsWhole(a)
  PROVE  \E k \in Int : a = k * Cent
<1>1. Cent \in Int /\ Cent > 0
  BY CentType
<1>2. a = (a \div Cent) * Cent /\ a \div Cent \in Int
  BY <1>1 DEF IsWhole
<1> QED
  BY <1>2

LEMMA WholeZero == IsWhole(0)
BY HalfAssumption DEF IsWhole, Cent

LEMMA WholeSum ==
  ASSUME NEW a \in Int, NEW b \in Int, IsWhole(a), IsWhole(b)
  PROVE  IsWhole(a + b) /\ IsWhole(a - b)
<1>1. PICK k \in Int : a = k * Cent
  BY WholeIsMultiple
<1>2. PICK j \in Int : b = j * Cent
  BY WholeIsMultiple
<1>3. a + b = (k + j) * Cent /\ a - b = (k - j) * Cent
  BY <1>1, <1>2, CentType
<1>4. IsWhole((k + j) * Cent) /\ IsWhole((k - j) * Cent)
  BY MultipleIsWhole
<1> QED
  BY <1>3, <1>4

\* Less than half a cent below zero is no whole number of cents.
LEMMA WholeNotBelow ==
  ASSUME NEW a \in Int, IsWhole(a), -Half <= a
  PROVE  a >= 0
BY HalfAssumption DEF IsWhole, Cent

LEMMA WholeNear ==
  ASSUME NEW a \in Int, NEW b \in Int, IsWhole(a), IsWhole(b), a - Half <= b, b <= a + Half
  PROVE  a = b
BY HalfAssumption DEF IsWhole, Cent

LEMMA RoundedType ==
  ASSUME NEW n \in Int, NEW c \in Rounded(n)
  PROVE  c \in Int /\ n - Half <= c /\ c <= n + Half /\ IsWhole(c)
BY CentType DEF Rounded

\* Cents are their own rounding.
LEMMA WholeRounded ==
  ASSUME NEW n \in Int, IsWhole(n), NEW c \in Rounded(n)
  PROVE  c = n
BY RoundedType, WholeNear

LEMMA RemainderType ==
  ASSUME NEW n \in Int, NEW rest \in Remainders(n)
  PROVE  /\ rest = n \/ rest = 0
         /\ IsWhole(n) => rest = n
<1>1. PICK c \in Rounded(n) : rest = IF c = 0 THEN 0 ELSE n
  BY DEF Remainders
<1> QED
  BY <1>1, WholeRounded

\* A balance that covers an amount is short of it by a cent at most, and by nothing
\* when both are in cents.
LEMMA CoversEnough ==
  ASSUME NEW m, owed[m] \in Int, NEW a \in Int, Covers(m, a)
  PROVE  /\ owed[m] - a >= -Cent
         /\ IsWhole(owed[m]) /\ IsWhole(a) => a <= owed[m]
<1>1. PICK c \in Rounded(a) : owed[m] >= c - Half
  BY DEF Covers
<1>2. c \in Int /\ a - Half <= c
  BY <1>1, RoundedType
<1>3. owed[m] - a >= -Cent
  BY <1>1, <1>2, CentType
<1>4. ASSUME IsWhole(owed[m]), IsWhole(a) PROVE a <= owed[m]
  <2>1. c = a
    BY <1>1, <1>4, WholeRounded
  <2>0. \A n \in Int : IsWhole(n) => IsWhole(n - a) /\ n - a \in Int
    BY <1>4, WholeSum
  <2>2. IsWhole(owed[m] - a) /\ owed[m] - a \in Int
    BY <1>4, <2>0
  <2>3. owed[m] - a >= -Half
    BY <1>1, <2>1, CentType
  <2>4. owed[m] - a >= 0
    BY <2>2, <2>3, WholeNotBelow
  <2> QED
    BY <2>4
<1> QED
  BY <1>3, <1>4

\* The two facts about a single balance that CentsInv and NotOverdrawn state for all.
Sound(n) == n >= -Cent /\ (WholeCents => IsWhole(n) /\ n >= 0)
AllSound == \A m \in Members : Sound(owed[m])

LEMMA AllSoundSays == AllSound <=> CentsInv /\ NotOverdrawn
BY DEF AllSound, Sound, CentsInv, NotOverdrawn

LEMMA SoundZero == Sound(0)
BY WholeZero, CentType DEF Sound

LEMMA SoundPlus ==
  ASSUME NEW n \in Int, NEW a \in Amounts, Sound(n)
  PROVE  Sound(n + a)
<1>1. a \in Int /\ a >= 0
  BY AmountsType
<1>2. n + a >= -Cent
  BY <1>1, CentType DEF Sound
<1>3. ASSUME WholeCents PROVE IsWhole(n + a) /\ n + a >= 0
  <2>1. IsWhole(n) /\ IsWhole(a) /\ n >= 0
    BY <1>3 DEF Sound, WholeCents
  <2>2. IsWhole(n + a)
    BY <1>1, <2>1, WholeSum
  <2> QED
    BY <1>1, <2>1, <2>2
<1> QED
  BY <1>2, <1>3 DEF Sound

LEMMA SoundMinus ==
  ASSUME NEW m, owed[m] \in Int, Sound(owed[m]), NEW a \in Amounts, Covers(m, a)
  PROVE  Sound(owed[m] - a)
<1>1. a \in Int
  BY AmountsType
<1>2. owed[m] - a >= -Cent
  BY <1>1, CoversEnough
<1>3. ASSUME WholeCents PROVE IsWhole(owed[m] - a) /\ owed[m] - a >= 0
  <2>1. IsWhole(owed[m]) /\ IsWhole(a)
    BY <1>3 DEF Sound, WholeCents
  <2>2. a <= owed[m] /\ IsWhole(owed[m] - a)
    BY <1>1, <2>1, CoversEnough, WholeSum
  <2> QED
    BY <1>1, <2>2
<1> QED
  BY <1>2, <1>3 DEF Sound

-----------------------------------------------------------------------------
(* Type correctness *)

LEMMA InitIInv == Init => IInv
<1> SUFFICES ASSUME Init PROVE IInv
  OBVIOUS
<1>1. TypeOK
  BY NoJobType, FreeRowType DEF Init, TypeOK, Steps
<1>2. JobsInv /\ CreditInv
  BY DEF Init, JobsInv, Creating, CreditInv, CreditsStand, FreeRow
<1>4. CentsInv /\ NotOverdrawn
  BY SoundZero, AllSoundSays DEF Init, AllSound
<1>3. RowsMatchInputs /\ LockInv /\ NoDoublePost
  BY DEF Init, RowsMatchInputs, LockInv, NoDoublePost, FreeRow
<1> QED
  BY <1>1, <1>2, <1>3, <1>4 DEF IInv

\* What a remembered body or row says is of the declared sets.
LEMMA InputType ==
  ASSUME NEW in \in Inputs
  PROVE  /\ in.amount \in Amounts /\ in.dues \in BOOLEAN /\ in.memo \in Memos
         /\ in.who \in Members \cup {None} /\ in.posted \in BOOLEAN
BY InputsAssumption DEF InputSet

LEMMA UnnamedType ==
  ASSUME TypeOK, NEW m \in Members
  PROVE  Unnamed(m) \in [Rows -> Row]
<1>1. \A x \in Rows : rows[x] \in Row
  BY DEF TypeOK
<1>2. \A x \in Rows :
        [rows[x] EXCEPT !.who = None, !.credit = FALSE, !.input = None] \in Row
  BY <1>1 DEF Row
<1> QED
  BY <1>1, <1>2 DEF Unnamed

\* What a payment does to the balance and to what is accounted for.
LEMMA PaymentPosted ==
  ASSUME TypeOK, JobsInv, NEW w \in Workers, PostPayment(w)
  PROVE  LET in == job[w].input
             left == owed[in.who] - in.amount
         IN  /\ in \in Inputs /\ in.who \in Members /\ in.who # None
             /\ in.amount \in Amounts /\ in.amount \in Int /\ left \in Int
             /\ Covers(in.who, in.amount)
             /\ \E rest \in {left, 0}, residue \in Residues :
                  /\ IsWhole(left) => rest = left
                  /\ SetOwed(in.who, rest, residue /\ rest # 0)
                  /\ assessed' = [assessed EXCEPT ![in.who] = @ - (left - rest)]
<1> DEFINE in == job[w].input
           left == owed[in.who] - in.amount
<1>1. in \in Inputs /\ IsDuesPayment(in) /\ Covers(in.who, in.amount)
  BY DEF PostPayment, At, JobsInv, Creating
<1>2. in.who \in Members /\ in.who # None /\ in.amount \in Amounts /\ in.amount \in Int
  BY <1>1, InputType, AmountsType DEF IsDuesPayment
<1>3. left \in Int
  BY <1>2 DEF TypeOK
<1>4. PICK rest \in Remainders(left), residue \in Residues :
        /\ SetOwed(in.who, rest, residue /\ rest # 0)
        /\ assessed' = [assessed EXCEPT ![in.who] = @ - (left - rest)]
  BY DEF PostPayment
<1> HIDE DEF in, left
<1>5. rest \in {left, 0} /\ (IsWhole(left) => rest = left)
  BY <1>3, RemainderType
<1>6. \E rest_1 \in {left, 0}, residue_1 \in Residues :
        /\ IsWhole(left) => rest_1 = left
        /\ SetOwed(in.who, rest_1, residue_1 /\ rest_1 # 0)
        /\ assessed' = [assessed EXCEPT ![in.who] = @ - (left - rest_1)]
  BY <1>4, <1>5
<1> QED
  BY <1>1, <1>2, <1>3, <1>6 DEF in, left

LEMMA TypeStep == TypeOK /\ JobsInv /\ [Next]_vars => TypeOK'
<1> SUFFICES ASSUME TypeOK, JobsInv, [Next]_vars PROVE TypeOK'
  OBVIOUS
<1>0. /\ \A w \in Workers : job[w] \in Job
      /\ \A x \in Rows : rows[x] \in Row
      /\ \A m \in Members : owed[m] \in Int /\ assessed[m] \in Int
  BY DEF TypeOK
<1>1. ASSUME NEW w \in Workers, NEW in \in Inputs, NEW x \in Rows,
             StartPost(w, in, x)
      PROVE  TypeOK'
  <2>1. pc' \in [Workers -> Steps] /\ job' \in [Workers -> Job]
    BY <1>1, GotoType, JobTypes DEF StartPost, Steps
  <2> QED
    BY <1>1, <2>1 DEF StartPost, TypeOK
<1>2. ASSUME NEW w \in Workers, SuppressDuplicate(w) PROVE TypeOK'
  BY <1>2, FinishType DEF SuppressDuplicate, TypeOK
<1>3. ASSUME NEW w \in Workers, LockKey(w) PROVE TypeOK'
  <2>1. pc' \in [Workers -> Steps] /\ job' \in [Workers -> Job]
    BY <1>0, <1>3, GotoType DEF LockKey, Steps
  <2> QED
    BY <1>3, <2>1 DEF LockKey, TypeOK
<1>4. ASSUME NEW w \in Workers, InsertPlain(w) PROVE TypeOK'
  <2>1. job[w].row \in Rows /\ job[w].input \in Inputs
    BY <1>4 DEF InsertPlain, At, JobsInv, Creating
  <2>2. NewRow(job[w].input, None, job[w].input.posted, FALSE) \in Row
    BY <2>1, InputType, NewRowType
  <2>3. rows' \in [Rows -> Row]
    BY <1>4, <2>1, <2>2 DEF InsertPlain, TypeOK
  <2>4. pc' \in [Workers -> Steps] /\ job' \in [Workers -> Job]
    BY <1>4, FinishType DEF InsertPlain
  <2> QED
    BY <1>4, <2>3, <2>4 DEF InsertPlain, TypeOK
<1>5. ASSUME NEW w \in Workers, PostPayment(w) PROVE TypeOK'
  <2>1. job[w].row \in Rows /\ job[w].input \in Inputs
    BY <1>5 DEF PostPayment, At, JobsInv, Creating
  <2>2. job[w].input.who \in Members /\ job[w].input.amount \in Int
    BY <1>5, <2>1, InputType, AmountsType DEF PostPayment, IsDuesPayment
  <2>3. NewRow(job[w].input, job[w].input.who, TRUE, TRUE) \in Row
    BY <2>1, <2>2, NewRowType
  <2>4. rows' \in [Rows -> Row]
    BY <1>5, <2>1, <2>3 DEF PostPayment, TypeOK
  <2>5. pc' \in [Workers -> Steps] /\ job' \in [Workers -> Job]
    BY <1>5, FinishType DEF PostPayment
  <2>6. /\ owed' \in [Members -> Int] /\ drift' \in [Members -> BOOLEAN]
        /\ assessed' \in [Members -> Int]
    <3> DEFINE in == job[w].input
               left == owed[in.who] - in.amount
    <3>1. PICK rest \in {left, 0}, residue \in Residues :
            /\ SetOwed(in.who, rest, residue /\ rest # 0)
            /\ assessed' = [assessed EXCEPT ![in.who] = @ - (left - rest)]
      BY <1>5, PaymentPosted
    <3>2. in.who \in Members /\ left \in Int
      BY <1>5, PaymentPosted
    <3> HIDE DEF in, left
    <3>3. rest \in Int /\ (residue /\ rest # 0) \in BOOLEAN
      BY <3>2
    <3>4. owed' \in [Members -> Int] /\ drift' \in [Members -> BOOLEAN]
      BY <3>1, <3>2, <3>3, SetOwedType
    <3>5. assessed' \in [Members -> Int]
      BY <3>1, <3>2, <3>3 DEF TypeOK
    <3> QED
      BY <3>4, <3>5
  <2> QED
    BY <1>5, <2>4, <2>5, <2>6 DEF PostPayment, TypeOK
<1>6. ASSUME NEW w \in Workers, RefusePayment(w) PROVE TypeOK'
  BY <1>6, FinishType DEF RefusePayment, TypeOK
<1>7. ASSUME NEW w \in Workers, NEW m \in Members, NEW d \in Deltas,
             Adjust(w, m, d)
      PROVE  TypeOK'
  <2>1. pc' \in [Workers -> Steps] /\ job' \in [Workers -> Job]
    BY <1>7, GotoType, JobTypes DEF Adjust, Steps
  <2>2. owed' \in [Members -> Int] /\ drift' \in [Members -> BOOLEAN]
    <3>1. owed[m] + d \in Int
      BY <1>0, DeltasType
    <3> QED
      BY <1>7, <3>1, ResiduesType, SetOwedType DEF Adjust
  <2>3. assessed' \in [Members -> Int]
    BY <1>7, DeltasType DEF Adjust, TypeOK
  <2> QED
    BY <1>7, <2>1, <2>2, <2>3 DEF Adjust, TypeOK
<1>8. ASSUME NEW w \in Workers, Reread(w) PROVE TypeOK'
  <2>1. pc' \in [Workers -> Steps] /\ job' \in [Workers -> Job]
    BY <1>0, <1>8, GotoType, FinishType DEF Reread, Steps
  <2> QED
    BY <1>8, <2>1 DEF Reread, TypeOK
<1>9. ASSUME NEW w \in Workers, Snap(w) PROVE TypeOK'
  <2>1. pc' \in [Workers -> Steps] /\ job' \in [Workers -> Job]
    BY <1>9, FinishType DEF Snap
  <2>2. job[w].who \in Members
    BY <1>9 DEF Snap, At, JobsInv
  <2>3. /\ owed' \in [Members -> Int] /\ drift' \in [Members -> BOOLEAN]
        /\ assessed' \in [Members -> Int]
    <3>1. CASE OnRoster(job[w].who)
      <4>1. owed' \in [Members -> Int] /\ drift' \in [Members -> BOOLEAN]
        BY <1>9, <2>2, <3>1, ZeroOwedType DEF Snap
      <4>2. assessed' \in [Members -> Int]
        BY <1>0, <1>9, <2>2, <3>1 DEF Snap, TypeOK
      <4> QED
        BY <4>1, <4>2
    <3>2. CASE ~OnRoster(job[w].who)
      BY <1>9, <3>2 DEF Snap, TypeOK
    <3> QED
      BY <3>1, <3>2
  <2> QED
    BY <1>9, <2>1, <2>3 DEF Snap, TypeOK
<1>10. ASSUME NEW w \in Workers, NEW m \in Members, NEW x \in Rows,
              ReadForAttribution(w, m, x)
       PROVE  TypeOK'
  <2>1. pc' \in [Workers -> Steps] /\ job' \in [Workers -> Job]
    BY <1>10, GotoType, JobTypes DEF ReadForAttribution, Steps
  <2> QED
    BY <1>10, <2>1 DEF ReadForAttribution, TypeOK
<1>11. ASSUME NEW w \in Workers, Attribute(w) PROVE TypeOK'
  <2>1. pc' \in [Workers -> Steps] /\ job' \in [Workers -> Job]
    BY <1>11, FinishType DEF Attribute
  <2>2. job[w].who \in Members /\ job[w].row \in Rows
    BY <1>11 DEF Attribute, At, JobsInv
  <2>3. [rows[job[w].row] EXCEPT !.who = job[w].who, !.input = None] \in Row
    <3>1. rows[job[w].row] \in Row
      BY <1>0, <2>2
    <3> QED
      BY <2>2, <3>1 DEF Row
  <2>4. rows' \in [Rows -> Row]
    BY <1>11, <2>2, <2>3 DEF Attribute, TypeOK
  <2> QED
    BY <1>11, <2>1, <2>4 DEF Attribute, TypeOK
<1>12. ASSUME NEW w \in Workers, NEW x \in Rows, NEW p \in Patches,
              ReadForUpdate(w, x, p)
       PROVE  TypeOK'
  <2>1. pc' \in [Workers -> Steps] /\ job' \in [Workers -> Job]
    BY <1>12, GotoType, JobTypes DEF ReadForUpdate, Steps
  <2> QED
    BY <1>12, <2>1 DEF ReadForUpdate, TypeOK
<1>13. ASSUME NEW w \in Workers, Update(w) PROVE TypeOK'
  <2>1. pc' \in [Workers -> Steps] /\ job' \in [Workers -> Job]
    BY <1>13, FinishType DEF Update
  <2>2. job[w].row \in Rows /\ job[w].patch \in Patches
    BY <1>13 DEF Update, At, JobsInv
  <2>3. Patched(rows[job[w].row], job[w].patch) \in Row
    BY <1>0, <2>2, PatchedType
  <2>4. rows' \in [Rows -> Row]
    BY <1>13, <2>2, <2>3 DEF Update, TypeOK
  <2> QED
    BY <1>13, <2>1, <2>4 DEF Update, TypeOK
<1>14. ASSUME NEW w \in Workers, NEW x \in Rows, ReadForVoid(w, x) PROVE TypeOK'
  <2>1. rows[x].who # None => rows[x].who \in Members
    BY <1>0 DEF Row
  <2>2. rows[x].amount \in Amounts
    BY <1>0 DEF Row
  <2>3. pc' \in [Workers -> Steps] /\ job' \in [Workers -> Job]
    <3>1. CASE rows[x].state = "live" /\ IsDuesPayment(rows[x])
      <4>1. rows[x].who \in Members
        BY <2>1, <3>1 DEF IsDuesPayment
      <4>2. "voidDues" \in Steps
        BY DEF Steps
      <4> QED
        BY <1>14, <2>2, <3>1, <4>1, <4>2, GotoType, JobTypes DEF ReadForVoid
    <3>2. CASE ~(rows[x].state = "live" /\ IsDuesPayment(rows[x]))
      <4>1. "voidPlain" \in Steps
        BY DEF Steps
      <4> QED
        BY <1>14, <3>2, <4>1, GotoType, JobTypes DEF ReadForVoid
    <3> QED
      BY <3>1, <3>2
  <2> QED
    BY <1>14, <2>3 DEF ReadForVoid, TypeOK
<1>15. ASSUME NEW w \in Workers, VoidDues(w) PROVE TypeOK'
  <2>1. pc' \in [Workers -> Steps] /\ job' \in [Workers -> Job]
    BY <1>15, FinishType DEF VoidDues
  <2>2. job[w].row \in Rows /\ job[w].who \in Members
    BY <1>15 DEF VoidDues, At, JobsInv
  <2>3. job[w].amount \in Int
    BY <1>0, AmountsType DEF Job
  <2>4. [rows[job[w].row] EXCEPT !.state = "void", !.credit = FALSE] \in Row
    <3>1. rows[job[w].row] \in Row
      BY <1>0, <2>2
    <3> QED
      BY <3>1, EndedType
  <2>5. rows' \in [Rows -> Row]
    BY <1>15, <2>2, <2>4 DEF VoidDues, TypeOK
  <2>6. owed' \in [Members -> Int] /\ drift' \in [Members -> BOOLEAN]
    <3>1. CASE OnRoster(job[w].who)
      <4>1. owed[job[w].who] + job[w].amount \in Int
        BY <1>0, <2>2, <2>3
      <4> QED
        BY <1>15, <2>2, <3>1, <4>1, ResiduesType, SetOwedType DEF VoidDues
    <3>2. CASE ~OnRoster(job[w].who)
      BY <1>15, <3>2 DEF VoidDues, TypeOK
    <3> QED
      BY <3>1, <3>2
  <2>7. assessed' \in [Members -> Int]
    BY <1>15, <2>2, <2>3 DEF VoidDues, TypeOK
  <2> QED
    BY <1>15, <2>1, <2>5, <2>6, <2>7 DEF VoidDues, TypeOK
<1>16. ASSUME NEW w \in Workers, RefuseVoid(w) PROVE TypeOK'
  BY <1>16, FinishType DEF RefuseVoid, TypeOK
<1>17. ASSUME NEW w \in Workers, VoidPlain(w) PROVE TypeOK'
  <2>1. pc' \in [Workers -> Steps] /\ job' \in [Workers -> Job]
    BY <1>17, FinishType DEF VoidPlain
  <2>2. job[w].row \in Rows
    BY <1>17 DEF VoidPlain, At, JobsInv
  <2>3. [rows[job[w].row] EXCEPT !.state = "void"] \in Row
    <3>1. rows[job[w].row] \in Row
      BY <1>0, <2>2
    <3> QED
      BY <3>1, EndedType
  <2>4. rows' \in [Rows -> Row]
    BY <1>17, <2>2, <2>3 DEF VoidPlain, TypeOK
  <2> QED
    BY <1>17, <2>1, <2>4 DEF VoidPlain, TypeOK
<1>18. ASSUME NEW x \in Rows, Expire(x) PROVE TypeOK'
  <2>1. [rows[x] EXCEPT !.fresh = FALSE] \in Row
    BY <1>0, EndedType
  <2> QED
    BY <1>18, <2>1 DEF Expire, TypeOK
<1>19. ASSUME NEW m \in Members, Leave(m) PROVE TypeOK'
  <2>1. owed' \in [Members -> Int] /\ drift' \in [Members -> BOOLEAN]
    BY <1>19, ZeroOwedType DEF Leave
  <2>2. roster' \in [Members -> {"member", "left", "erased"}]
    BY <1>19 DEF Leave, TypeOK
  <2>3. assessed' \in [Members -> Int]
    BY <1>0, <1>19 DEF Leave, TypeOK
  <2> QED
    BY <1>19, <2>1, <2>2, <2>3 DEF Leave, TypeOK
<1>20. ASSUME NEW m \in Members, Rejoin(m) PROVE TypeOK'
  BY <1>20 DEF Rejoin, TypeOK
<1>21. ASSUME NEW m \in Members, Erase(m) PROVE TypeOK'
  <2>1. owed' \in [Members -> Int] /\ drift' \in [Members -> BOOLEAN]
    BY <1>21, ZeroOwedType DEF Erase
  <2>3. rows' \in [Rows -> Row]
    BY <1>21, UnnamedType DEF Erase
  <2>4. roster' \in [Members -> {"member", "left", "erased"}]
    BY <1>21 DEF Erase, TypeOK
  <2>5. assessed' = [assessed EXCEPT ![m] = 0]
    BY <1>21 DEF Erase
  <2>6. assessed' \in [Members -> Int]
    BY <2>5 DEF TypeOK
  <2> QED
    BY <1>21, <2>1, <2>3, <2>4, <2>6 DEF Erase, TypeOK
<1>22. ASSUME NEW m \in Members, EraseRecords(m) PROVE TypeOK'
  <2>1. rows' \in [Rows -> Row]
    BY <1>22, UnnamedType DEF EraseRecords
  <2>3. assessed' \in [Members -> Int]
    BY <1>0, <1>22 DEF EraseRecords, TypeOK
  <2> QED
    BY <1>22, <2>1, <2>3 DEF EraseRecords, TypeOK
<1>23. CASE UNCHANGED vars
  BY <1>23 DEF vars, TypeOK
<1> QED
  BY <1>1, <1>2, <1>3, <1>4, <1>5, <1>6, <1>7, <1>8, <1>9, <1>10, <1>11, <1>12,
     <1>13, <1>14, <1>15, <1>16, <1>17, <1>18, <1>19, <1>20, <1>21, <1>22, <1>23
     DEF Next, Handler, Environment

-----------------------------------------------------------------------------
(* What handlers remember *)

LEMMA JobsStep == TypeOK /\ JobsInv /\ [Next]_vars => JobsInv'
<1> SUFFICES ASSUME TypeOK, JobsInv, [Next]_vars PROVE JobsInv'
  OBVIOUS
<1>0. \A x \in Rows : rows[x] \in Row
  BY DEF TypeOK
<1> USE NoneAssumption DEF TypeOK, JobsInv, Creating
<1>1. ASSUME NEW w \in Workers, NEW in \in Inputs, NEW x \in Rows, StartPost(w, in, x)
      PROVE JobsInv'
  BY <1>1 DEF StartPost, Goto, NoJob
<1>2. ASSUME NEW w \in Workers, SuppressDuplicate(w) PROVE JobsInv'
  BY <1>2 DEF SuppressDuplicate, At, Finish, Goto, NoJob
<1>3. ASSUME NEW w \in Workers, LockKey(w) PROVE JobsInv'
  BY <1>3 DEF LockKey, At, Goto
<1>4. ASSUME NEW w \in Workers, InsertPlain(w) PROVE JobsInv'
  BY <1>4 DEF InsertPlain, At, Goto, Finish, NoJob, NewRow
<1>5. ASSUME NEW w \in Workers, PostPayment(w) PROVE JobsInv'
  BY <1>5 DEF PostPayment, At, Goto, Finish, NoJob, NewRow
<1>6. ASSUME NEW w \in Workers, RefusePayment(w) PROVE JobsInv'
  BY <1>6 DEF RefusePayment, At, Finish, Goto, NoJob
<1>7. ASSUME NEW w \in Workers, NEW m \in Members, NEW d \in Deltas, Adjust(w, m, d)
      PROVE JobsInv'
  BY <1>7 DEF Adjust, Goto, NoJob
<1>8. ASSUME NEW w \in Workers, Reread(w) PROVE JobsInv'
  <2>1. CASE Goto(w, "snap", job[w])
    BY <1>8, <2>1 DEF Reread, At, Goto
  <2>2. CASE Finish(w)
    BY <1>8, <2>2 DEF Reread, Finish, Goto, NoJob
  <2> QED
    BY <1>8, <2>1, <2>2 DEF Reread
<1>9. ASSUME NEW w \in Workers, Snap(w) PROVE JobsInv'
  BY <1>9 DEF Snap, Finish, Goto, NoJob
<1>10. ASSUME NEW w \in Workers, NEW m \in Members, NEW x \in Rows, ReadForAttribution(w, m, x)
       PROVE JobsInv'
  BY <1>10 DEF ReadForAttribution, Goto, NoJob
<1>11. ASSUME NEW w \in Workers, Attribute(w) PROVE JobsInv'
  BY <1>11 DEF Attribute, At, Finish, Goto, NoJob
<1>12. ASSUME NEW w \in Workers, NEW x \in Rows, NEW p \in Patches, ReadForUpdate(w, x, p)
       PROVE JobsInv'
  BY <1>12 DEF ReadForUpdate, Goto, NoJob
<1>13. ASSUME NEW w \in Workers, Update(w) PROVE JobsInv'
  BY <1>13 DEF Update, At, Goto, Finish, NoJob, Patched
<1>14. ASSUME NEW w \in Workers, NEW x \in Rows, ReadForVoid(w, x) PROVE JobsInv'
  <2>1. CASE rows[x].state = "live" /\ IsDuesPayment(rows[x])
    <3>1. rows[x].who \in Members
      <4> HIDE DEF TypeOK, JobsInv
      <4> QED
        BY <1>0, <2>1 DEF IsDuesPayment, Row
    <3> QED
      BY <1>14, <2>1, <3>1, ReadForVoidRemembers
  <2>2. CASE ~(rows[x].state = "live" /\ IsDuesPayment(rows[x]))
    BY <1>14, <2>2 DEF ReadForVoid, Goto, NoJob
  <2> QED
    BY <2>1, <2>2
<1>15. ASSUME NEW w \in Workers, VoidDues(w) PROVE JobsInv'
  BY <1>15 DEF VoidDues, At, Finish, Goto, NoJob
<1>16. ASSUME NEW w \in Workers, RefuseVoid(w) PROVE JobsInv'
  BY <1>16 DEF RefuseVoid, At, Finish, Goto, NoJob
<1>17. ASSUME NEW w \in Workers, VoidPlain(w) PROVE JobsInv'
  BY <1>17 DEF VoidPlain, At, Finish, Goto, NoJob
<1>18. ASSUME NEW x \in Rows, Expire(x) PROVE JobsInv'
  BY <1>18 DEF Expire
<1>19. ASSUME NEW m \in Members, Leave(m) PROVE JobsInv'
  BY <1>19 DEF Leave
<1>20. ASSUME NEW m \in Members, Rejoin(m) PROVE JobsInv'
  BY <1>20 DEF Rejoin
<1>21. ASSUME NEW m \in Members, Erase(m) PROVE JobsInv'
  <2>1. \A x \in Rows : rows'[x].state = rows[x].state
    BY <1>21, EraseRows DEF Erase
  <2>2. UNCHANGED <<pc, job>>
    BY <1>21 DEF Erase
  <2> QED
    BY <2>1, <2>2
<1>22. ASSUME NEW m \in Members, EraseRecords(m) PROVE JobsInv'
  <2>1. \A x \in Rows : rows'[x].state = rows[x].state
    BY <1>22, EraseRows DEF EraseRecords
  <2>2. UNCHANGED <<pc, job>>
    BY <1>22 DEF EraseRecords
  <2> QED
    BY <2>1, <2>2
<1>23. CASE UNCHANGED vars
  BY <1>23 DEF vars
<1> QED
  BY <1>1, <1>2, <1>3, <1>4, <1>5, <1>6, <1>7, <1>8, <1>9, <1>10, <1>11, <1>12,
     <1>13, <1>14, <1>15, <1>16, <1>17, <1>18, <1>19, <1>20, <1>21, <1>22, <1>23
     DEF Next, Handler, Environment

-----------------------------------------------------------------------------
(* Credits and balances *)

LEMMA CreditStep == TypeOK /\ JobsInv /\ CreditInv /\ [Next]_vars => CreditInv'
<1> SUFFICES ASSUME TypeOK, JobsInv, CreditInv, [Next]_vars PROVE CreditInv'
  OBVIOUS
<1>0. \A x \in Rows : rows[x] \in Row
  BY DEF TypeOK
<1> USE NoneAssumption DEF TypeOK, JobsInv, Creating, CreditInv, CreditsStand, IsDuesPayment
<1>1. ASSUME NEW w \in Workers, NEW in \in Inputs, NEW x \in Rows, StartPost(w, in, x)
      PROVE CreditInv'
  BY <1>1 DEF StartPost, Goto, NoJob
<1>2. ASSUME NEW w \in Workers, SuppressDuplicate(w) PROVE CreditInv'
  BY <1>2 DEF SuppressDuplicate, At, Finish, Goto, NoJob
<1>3. ASSUME NEW w \in Workers, LockKey(w) PROVE CreditInv'
  BY <1>3 DEF LockKey, At, Goto
<1>4. ASSUME NEW w \in Workers, InsertPlain(w) PROVE CreditInv'
  BY <1>4 DEF InsertPlain, At, Finish, Goto, NoJob, NewRow
<1>5. ASSUME NEW w \in Workers, PostPayment(w) PROVE CreditInv'
  BY <1>5 DEF PostPayment, At, Finish, Goto, NoJob, NewRow
<1>6. ASSUME NEW w \in Workers, RefusePayment(w) PROVE CreditInv'
  BY <1>6 DEF RefusePayment, At, Finish, Goto, NoJob
<1>7. ASSUME NEW w \in Workers, NEW m \in Members, NEW d \in Deltas, Adjust(w, m, d)
      PROVE CreditInv'
  BY <1>7 DEF Adjust, Goto, NoJob
<1>8. ASSUME NEW w \in Workers, Reread(w) PROVE CreditInv'
  BY <1>8 DEF Reread, At, Finish, Goto, NoJob
<1>9. ASSUME NEW w \in Workers, Snap(w) PROVE CreditInv'
  BY <1>9 DEF Snap, At, Finish, Goto, NoJob
<1>10. ASSUME NEW w \in Workers, NEW m \in Members, NEW x \in Rows, ReadForAttribution(w, m, x)
       PROVE CreditInv'
  BY <1>10 DEF ReadForAttribution, Goto, NoJob
<1>11. ASSUME NEW w \in Workers, Attribute(w) PROVE CreditInv'
  <2>1. /\ job[w].row \in Rows /\ ~rows[job[w].row].credit
        /\ rows[job[w].row] \in Row
    BY <1>0, <1>11 DEF Attribute, At
  <2>2. /\ \A y \in Rows \ {job[w].row} : rows'[y] = rows[y]
        /\ ~rows'[job[w].row].credit
    BY <1>11, <2>1 DEF Attribute, Row
  <2>3. pc'[w] = "idle" /\ \A v \in Workers \ {w} : pc'[v] = pc[v] /\ job'[v] = job[v]
    BY <1>11 DEF Attribute, Finish, Goto
  <2>4. CreditsStand'
    BY <2>2
  <2> QED
    BY <2>2, <2>3, <2>4
<1>12. ASSUME NEW w \in Workers, NEW x \in Rows, NEW p \in Patches, ReadForUpdate(w, x, p)
       PROVE CreditInv'
  BY <1>12 DEF ReadForUpdate, Goto, NoJob, Desyncs
<1>13. ASSUME NEW w \in Workers, Update(w) PROVE CreditInv'
  <2> DEFINE x == job[w].row
             p == job[w].patch
  <2>1. x \in Rows /\ rows[x] \in Row /\ (rows[x].credit => ~Desyncs(p, rows[x]))
    BY <1>0, <1>13 DEF Update, At
  <2>2. rows'[x] = Patched(rows[x], p) /\ \A y \in Rows \ {x} : rows'[y] = rows[y]
    BY <1>13, <2>1 DEF Update
  <2>3. pc'[w] = "idle" /\ \A v \in Workers \ {w} : pc'[v] = pc[v] /\ job'[v] = job[v]
    BY <1>13 DEF Update, Finish, Goto
  <2> HIDE DEF x, p
  <2>4. /\ rows'[x].credit = rows[x].credit /\ rows'[x].state = rows[x].state
        /\ rows'[x].who = rows[x].who
        /\ rows[x].credit => /\ rows'[x].amount = rows[x].amount
                             /\ rows'[x].dues = rows[x].dues
    BY <2>1, <2>2 DEF Patched, Set, Desyncs, Row
  <2>5. CreditsStand'
    BY <2>2, <2>4
  <2>6. \A y \in Rows, q \in Patches :
          rows'[y].credit /\ rows[y].credit =>
            (Desyncs(q, rows'[y]) <=> Desyncs(q, rows[y]))
    BY <2>2, <2>4 DEF Desyncs
  <2> QED
    BY <2>1, <2>2, <2>3, <2>4, <2>5, <2>6
<1>14. ASSUME NEW w \in Workers, NEW x \in Rows, ReadForVoid(w, x) PROVE CreditInv'
  <2>1. CASE rows[x].state = "live" /\ IsDuesPayment(rows[x])
    BY <1>14, <2>1, ReadForVoidRemembers
  <2>2. CASE ~(rows[x].state = "live" /\ IsDuesPayment(rows[x]))
    BY <1>14, <2>2 DEF ReadForVoid, Goto, NoJob
  <2> QED
    BY <2>1, <2>2
<1>15. ASSUME NEW w \in Workers, VoidDues(w) PROVE CreditInv'
  <2>1. job[w].row \in Rows /\ rows[job[w].row] \in Row
    BY <1>0, <1>15 DEF VoidDues, At
  <2>2. /\ \A y \in Rows \ {job[w].row} : rows'[y] = rows[y]
        /\ ~rows'[job[w].row].credit
    BY <1>15, <2>1 DEF VoidDues, Row
  <2>3. pc'[w] = "idle" /\ \A v \in Workers \ {w} : pc'[v] = pc[v] /\ job'[v] = job[v]
    BY <1>15 DEF VoidDues, Finish, Goto
  <2>4. CreditsStand'
    BY <2>2
  <2> QED
    BY <2>2, <2>3, <2>4
<1>16. ASSUME NEW w \in Workers, RefuseVoid(w) PROVE CreditInv'
  BY <1>16 DEF RefuseVoid, At, Finish, Goto, NoJob, Claims
<1>17. ASSUME NEW w \in Workers, VoidPlain(w) PROVE CreditInv'
  <2>1. job[w].row \in Rows /\ rows[job[w].row] \in Row /\ ~rows[job[w].row].credit
    BY <1>0, <1>17 DEF VoidPlain, At
  <2>2. /\ \A y \in Rows \ {job[w].row} : rows'[y] = rows[y]
        /\ ~rows'[job[w].row].credit
    BY <1>17, <2>1 DEF VoidPlain, Row
  <2>3. pc'[w] = "idle" /\ \A v \in Workers \ {w} : pc'[v] = pc[v] /\ job'[v] = job[v]
    BY <1>17 DEF VoidPlain, Finish, Goto
  <2>4. CreditsStand'
    BY <2>2
  <2> QED
    BY <2>2, <2>3, <2>4
<1>18. ASSUME NEW x \in Rows, Expire(x) PROVE CreditInv'
  <2>1. \A y \in Rows :
          /\ rows'[y].state = rows[y].state /\ rows'[y].amount = rows[y].amount
          /\ rows'[y].dues = rows[y].dues /\ rows'[y].who = rows[y].who
          /\ rows'[y].credit = rows[y].credit
    BY <1>0, <1>18 DEF Expire, Row
  <2> QED
    BY <1>18, <2>1 DEF Expire, Desyncs
<1>19. ASSUME NEW m \in Members, Leave(m) PROVE CreditInv'
  BY <1>19 DEF Leave
<1>20. ASSUME NEW m \in Members, Rejoin(m) PROVE CreditInv'
  BY <1>20 DEF Rejoin
<1>21. ASSUME NEW m \in Members, Erase(m) PROVE CreditInv'
  <2>1. UNCHANGED <<pc, job>>
    BY <1>21 DEF Erase
  <2>2. \A x \in Rows : rows'[x].credit => rows'[x] = rows[x]
    BY <1>21, EraseRows DEF Erase
  <2> QED
    BY <2>1, <2>2
<1>22. ASSUME NEW m \in Members, EraseRecords(m) PROVE CreditInv'
  <2>1. UNCHANGED <<pc, job>>
    BY <1>22 DEF EraseRecords
  <2>2. \A x \in Rows : rows'[x].credit => rows'[x] = rows[x]
    BY <1>22, EraseRows DEF EraseRecords
  <2> QED
    BY <2>1, <2>2
<1>23. CASE UNCHANGED vars
  BY <1>23 DEF vars
<1> QED
  BY <1>1, <1>2, <1>3, <1>4, <1>5, <1>6, <1>7, <1>8, <1>9, <1>10, <1>11, <1>12,
     <1>13, <1>14, <1>15, <1>16, <1>17, <1>18, <1>19, <1>20, <1>21, <1>22, <1>23
     DEF Next, Handler, Environment

LEMMA SoundStep == TypeOK /\ JobsInv /\ AllSound /\ [Next]_vars => AllSound'
<1> SUFFICES ASSUME TypeOK, JobsInv, AllSound, [Next]_vars PROVE AllSound'
  OBVIOUS
<1>0. \A m \in Members : owed[m] \in Int /\ Sound(owed[m])
  BY DEF TypeOK, AllSound
<1>a. ASSUME UNCHANGED owed PROVE AllSound'
  BY <1>a DEF AllSound
<1>b. ASSUME NEW n \in Members, NEW b, owed' = [owed EXCEPT ![n] = b], Sound(b)
      PROVE  AllSound'
  BY <1>b, <1>0 DEF AllSound, TypeOK
<1>1. ASSUME NEW w \in Workers, NEW in \in Inputs, NEW x \in Rows, StartPost(w, in, x)
      PROVE AllSound'
  BY <1>a, <1>1 DEF StartPost
<1>2. ASSUME NEW w \in Workers, SuppressDuplicate(w) PROVE AllSound'
  BY <1>a, <1>2 DEF SuppressDuplicate
<1>3. ASSUME NEW w \in Workers, LockKey(w) PROVE AllSound'
  BY <1>a, <1>3 DEF LockKey
<1>4. ASSUME NEW w \in Workers, InsertPlain(w) PROVE AllSound'
  BY <1>a, <1>4 DEF InsertPlain
<1>5. ASSUME NEW w \in Workers, PostPayment(w) PROVE AllSound'
  <2> DEFINE in == job[w].input
             left == owed[in.who] - in.amount
  <2>1. PICK rest \in {left, 0} : \E residue : SetOwed(in.who, rest, residue)
    BY <1>5, PaymentPosted
  <2>2. in.who \in Members /\ in.amount \in Amounts /\ Covers(in.who, in.amount)
    BY <1>5, PaymentPosted
  <2>3. Sound(left)
    BY <1>0, <2>2, SoundMinus
  <2>4. Sound(rest)
    BY <2>3, SoundZero
  <2> HIDE DEF in, left
  <2> QED
    BY <1>b, <2>1, <2>2, <2>4 DEF SetOwed
<1>6. ASSUME NEW w \in Workers, RefusePayment(w) PROVE AllSound'
  BY <1>a, <1>6 DEF RefusePayment
<1>7. ASSUME NEW w \in Workers, NEW m \in Members, NEW d \in Deltas, Adjust(w, m, d)
      PROVE AllSound'
  <2>1. owed' = [owed EXCEPT ![m] = owed[m] + d]
    BY <1>7 DEF Adjust, SetOwed
  <2>2. Sound(owed[m] + d)
    <3>0. d \in Int \ {0} /\ (d \in Amounts \/ -d \in Amounts)
      BY DeltasAssumption
    <3>1. CASE d > 0
      <4>1. d \in Amounts
        BY <3>0, <3>1, AmountsType
      <4> QED
        BY <1>0, <4>1, SoundPlus
    <3>2. CASE d < 0
      <4>1. -d \in Amounts
        BY <3>0, <3>2, AmountsType
      <4>2. Sound(owed[m] - (-d))
        BY <1>0, <1>7, <3>2, <4>1, SoundMinus DEF Adjust
      <4>3. owed[m] - (-d) = owed[m] + d
        BY <1>0, <3>0
      <4> QED
        BY <4>2, <4>3
    <3> QED
      BY <3>0, <3>1, <3>2
  <2> QED
    BY <1>b, <2>1, <2>2
<1>8. ASSUME NEW w \in Workers, Reread(w) PROVE AllSound'
  BY <1>a, <1>8 DEF Reread
<1>9. ASSUME NEW w \in Workers, Snap(w) PROVE AllSound'
  BY <1>a, <1>b, <1>9, SoundZero DEF Snap, At, JobsInv, SetOwed
<1>10. ASSUME NEW w \in Workers, NEW m \in Members, NEW x \in Rows, ReadForAttribution(w, m, x)
       PROVE AllSound'
  BY <1>a, <1>10 DEF ReadForAttribution
<1>11. ASSUME NEW w \in Workers, Attribute(w) PROVE AllSound'
  BY <1>a, <1>11 DEF Attribute
<1>12. ASSUME NEW w \in Workers, NEW x \in Rows, NEW p \in Patches, ReadForUpdate(w, x, p)
       PROVE AllSound'
  BY <1>a, <1>12 DEF ReadForUpdate
<1>13. ASSUME NEW w \in Workers, Update(w) PROVE AllSound'
  BY <1>a, <1>13 DEF Update
<1>14. ASSUME NEW w \in Workers, NEW x \in Rows, ReadForVoid(w, x) PROVE AllSound'
  BY <1>a, <1>14 DEF ReadForVoid
<1>15. ASSUME NEW w \in Workers, VoidDues(w) PROVE AllSound'
  <2>1. job[w].who \in Members /\ job[w].amount \in Amounts
    BY <1>15 DEF VoidDues, At, JobsInv, TypeOK, Job
  <2>2. Sound(owed[job[w].who] + job[w].amount)
    BY <1>0, <2>1, SoundPlus
  <2> QED
    BY <1>a, <1>b, <1>15, <2>1, <2>2 DEF VoidDues, SetOwed
<1>16. ASSUME NEW w \in Workers, RefuseVoid(w) PROVE AllSound'
  BY <1>a, <1>16 DEF RefuseVoid
<1>17. ASSUME NEW w \in Workers, VoidPlain(w) PROVE AllSound'
  BY <1>a, <1>17 DEF VoidPlain
<1>18. ASSUME NEW x \in Rows, Expire(x) PROVE AllSound'
  BY <1>a, <1>18 DEF Expire
<1>19. ASSUME NEW m \in Members, Leave(m) PROVE AllSound'
  BY <1>b, <1>19, SoundZero DEF Leave, SetOwed
<1>20. ASSUME NEW m \in Members, Rejoin(m) PROVE AllSound'
  BY <1>a, <1>20 DEF Rejoin
<1>21. ASSUME NEW m \in Members, Erase(m) PROVE AllSound'
  <2>1. owed' = [owed EXCEPT ![m] = 0]
    BY <1>21 DEF Erase, SetOwed
  <2> QED
    BY <1>b, <2>1, SoundZero
<1>22. ASSUME NEW m \in Members, EraseRecords(m) PROVE AllSound'
  BY <1>a, <1>22 DEF EraseRecords
<1>23. CASE UNCHANGED vars
  BY <1>a, <1>23 DEF vars
<1> QED
  BY <1>1, <1>2, <1>3, <1>4, <1>5, <1>6, <1>7, <1>8, <1>9, <1>10, <1>11, <1>12,
     <1>13, <1>14, <1>15, <1>16, <1>17, <1>18, <1>19, <1>20, <1>21, <1>22, <1>23
     DEF Next, Handler, Environment

-----------------------------------------------------------------------------
(* Duplicate suppression *)

Dedup == RowsMatchInputs /\ LockInv /\ NoDoublePost

\* A step in which no handler acquires a key and no row becomes live, fresh or
\* something else than it was posted as.
LEMMA DedupFrame ==
  ASSUME Dedup,
         \A v \in Workers : pc'[v] = "locked" =>
           pc[v] = "locked" /\ job'[v].input = job[v].input,
         \A x \in Rows : rows'[x].input # None =>
           /\ rows'[x].input = rows[x].input
           /\ SameKey(rows'[x], rows[x])
           /\ rows'[x].state = "live" => rows[x].state = "live"
           /\ rows'[x].fresh => rows[x].fresh
  PROVE  Dedup'
<1>1. RowsMatchInputs'
  BY DEF Dedup, RowsMatchInputs, SameKey
<1>2. LockInv'
  BY DEF Dedup, LockInv, HoldsKey
<1>3. NoDoublePost'
  BY DEF Dedup, NoDoublePost
<1> QED
  BY <1>1, <1>2, <1>3 DEF Dedup

\* The holder of a key inserts the row it was posted as and lets go of the key.
LEMMA DedupInsert ==
  ASSUME TypeOK, JobsInv, Dedup, NEW w \in Workers, NEW r \in Row, At(w, "locked"),
         r.input = job[w].input, SameKey(r, r.input),
         rows' = [rows EXCEPT ![job[w].row] = r], Finish(w)
  PROVE  Dedup'
<1>0. job[w].row \in Rows /\ job[w].input \in Inputs
  BY DEF JobsInv, Creating, At
<1>1. \A x \in Rows : rows'[x] = IF x = job[w].row THEN r ELSE rows[x]
  BY <1>0 DEF TypeOK
<1>2. \A v \in Workers : pc'[v] = "locked" =>
        v # w /\ pc[v] = "locked" /\ job'[v] = job[v]
  BY DEF Finish, Goto, TypeOK
<1>3. RowsMatchInputs'
  BY <1>1 DEF Dedup, RowsMatchInputs
<1>4. LockInv'
  <2> SUFFICES ASSUME NEW v \in Workers, pc'[v] = "locked"
               PROVE  /\ \A u \in Workers \ {v} : ~HoldsKey(u, job[v].input)'
                      /\ \A x \in Rows :
                           rows'[x].state = "live" /\ rows'[x].fresh
                             /\ rows'[x].input # None =>
                           ~SameKey(rows'[x].input, job'[v].input)
    BY DEF LockInv
  <2>1. \A u \in Workers \ {v} : ~HoldsKey(u, job[v].input)'
    BY <1>2 DEF Dedup, LockInv, HoldsKey
  <2>2. ~SameKey(r.input, job[v].input)
    BY <1>2 DEF Dedup, LockInv, HoldsKey, SameKey, At
  <2> QED
    BY <1>1, <1>2, <2>1, <2>2 DEF Dedup, LockInv
<1>5. NoDoublePost'
  <2>1. \A x \in Rows : rows[x].state = "live" /\ rows[x].fresh /\ rows[x].input # None =>
          ~SameKey(rows[x].input, r.input) /\ ~SameKey(r.input, rows[x].input)
    BY DEF Dedup, LockInv, At, SameKey
  <2> QED
    BY <1>1, <2>1 DEF Dedup, NoDoublePost
<1> QED
  BY <1>3, <1>4, <1>5 DEF Dedup

LEMMA DedupStep ==
  Untagged /\ TypeOK /\ JobsInv /\ Dedup /\ [Next]_vars => Dedup'
<1> SUFFICES ASSUME Untagged, TypeOK, JobsInv, Dedup, [Next]_vars PROVE Dedup'
  OBVIOUS
<1>0. \A x \in Rows : rows[x] \in Row
  BY DEF TypeOK
<1>a. ASSUME UNCHANGED rows,
             \A v \in Workers : pc'[v] = "locked" =>
               pc[v] = "locked" /\ job'[v].input = job[v].input
      PROVE  Dedup'
  BY <1>a, DedupFrame DEF SameKey
<1>b. ASSUME NEW w \in Workers, NEW step, NEW j, Goto(w, step, j), step # "locked"
      PROVE  \A v \in Workers : pc'[v] = "locked" =>
               pc[v] = "locked" /\ job'[v].input = job[v].input
  BY <1>b DEF Goto, TypeOK
<1>1. ASSUME NEW w \in Workers, NEW in \in Inputs, NEW x \in Rows, StartPost(w, in, x)
      PROVE Dedup'
  BY <1>1, <1>a, <1>b DEF StartPost
<1>2. ASSUME NEW w \in Workers, SuppressDuplicate(w) PROVE Dedup'
  BY <1>2, <1>a, <1>b DEF SuppressDuplicate, Finish
<1>3. ASSUME NEW w \in Workers, LockKey(w) PROVE Dedup'
  <2>1. \A v \in Workers : pc'[v] = "locked" =>
          v = w \/ (pc[v] = "locked" /\ job'[v] = job[v])
    BY <1>3 DEF LockKey, Goto, TypeOK
  <2>2. job' = job /\ rows' = rows /\ pc' = [pc EXCEPT ![w] = "locked"]
    BY <1>3 DEF LockKey, Goto, TypeOK
  <2>3. \A x \in Rows :
          rows[x].state = "live" /\ rows[x].fresh /\ rows[x].input # None =>
            ~SameKey(rows[x].input, job[w].input)
    BY <1>3 DEF LockKey, Duplicate, Dedup, RowsMatchInputs, SameKey
  <2>4. \A v \in Workers : ~HoldsKey(v, job[w].input)
    BY <1>3 DEF LockKey
  <2>5. LockInv'
    BY <2>2, <2>3, <2>4 DEF Dedup, LockInv, HoldsKey, SameKey, TypeOK
  <2>6. RowsMatchInputs' /\ NoDoublePost'
    BY <2>2 DEF Dedup, RowsMatchInputs, NoDoublePost
  <2> QED
    BY <2>5, <2>6 DEF Dedup
<1>4. ASSUME NEW w \in Workers, InsertPlain(w) PROVE Dedup'
  <2> DEFINE in == job[w].input
             r == NewRow(in, None, in.posted, FALSE)
  <2>1. in \in Inputs
    BY <1>4 DEF InsertPlain, At, JobsInv, Creating
  <2>2. in.who = None
    BY <1>4, <2>1 DEF InsertPlain, Untagged, IsDuesPayment
  <2>3. r \in Row
    BY <2>1, InputType, NewRowType
  <2>4. r.input = in /\ SameKey(r, r.input)
    BY <2>2 DEF NewRow, SameKey
  <2> QED
    BY <1>4, <2>3, <2>4, DedupInsert DEF InsertPlain
<1>5. ASSUME NEW w \in Workers, PostPayment(w) PROVE Dedup'
  <2> DEFINE in == job[w].input
             r == NewRow(in, in.who, TRUE, TRUE)
  <2>1. in \in Inputs
    BY <1>5 DEF PostPayment, At, JobsInv, Creating
  <2>3. r \in Row
    BY <2>1, InputType, NewRowType
  <2>4. r.input = in /\ SameKey(r, r.input)
    BY DEF NewRow, SameKey
  <2> QED
    BY <1>5, <2>3, <2>4, DedupInsert DEF PostPayment
<1>6. ASSUME NEW w \in Workers, RefusePayment(w) PROVE Dedup'
  BY <1>6, <1>a, <1>b DEF RefusePayment, Finish
<1>7. ASSUME NEW w \in Workers, NEW m \in Members, NEW d \in Deltas, Adjust(w, m, d)
      PROVE Dedup'
  BY <1>7, <1>a, <1>b DEF Adjust
<1>8. ASSUME NEW w \in Workers, Reread(w) PROVE Dedup'
  <2>1. CASE Goto(w, "snap", job[w])
    BY <1>8, <1>a, <1>b, <2>1 DEF Reread
  <2>2. CASE Finish(w)
    BY <1>8, <1>a, <1>b, <2>2 DEF Reread, Finish
  <2> QED
    BY <1>8, <2>1, <2>2 DEF Reread
<1>9. ASSUME NEW w \in Workers, Snap(w) PROVE Dedup'
  BY <1>9, <1>a, <1>b DEF Snap, Finish
<1>10. ASSUME NEW w \in Workers, NEW m \in Members, NEW x \in Rows, ReadForAttribution(w, m, x)
       PROVE Dedup'
  BY <1>10, <1>a, <1>b DEF ReadForAttribution
<1>11. ASSUME NEW w \in Workers, Attribute(w) PROVE Dedup'
  <2>1. \A v \in Workers : pc'[v] = "locked" =>
          pc[v] = "locked" /\ job'[v].input = job[v].input
    BY <1>11, <1>b DEF Attribute, Finish
  <2>2. \A y \in Rows : rows'[y].input # None =>
          /\ rows'[y].input = rows[y].input
          /\ SameKey(rows'[y], rows[y])
          /\ rows'[y].state = "live" => rows[y].state = "live"
          /\ rows'[y].fresh => rows[y].fresh
    <3>1. \A y \in Rows : rows'[y] \in
            {rows[y], [rows[y] EXCEPT !.who = job[w].who, !.input = None]}
      BY <1>11 DEF Attribute, TypeOK
    <3> QED
      BY <1>0, <3>1 DEF Row, SameKey
  <2> QED
    BY <2>1, <2>2, DedupFrame
<1>12. ASSUME NEW w \in Workers, NEW x \in Rows, NEW p \in Patches, ReadForUpdate(w, x, p)
       PROVE Dedup'
  BY <1>12, <1>a, <1>b DEF ReadForUpdate
<1>13. ASSUME NEW w \in Workers, Update(w) PROVE Dedup'
  <2>1. \A v \in Workers : pc'[v] = "locked" =>
          pc[v] = "locked" /\ job'[v].input = job[v].input
    BY <1>13, <1>b DEF Update, Finish
  <2>2. \A y \in Rows : rows'[y].input # None =>
          /\ rows'[y].input = rows[y].input
          /\ SameKey(rows'[y], rows[y])
          /\ rows'[y].state = "live" => rows[y].state = "live"
          /\ rows'[y].fresh => rows[y].fresh
    BY <1>0, <1>13 DEF Update, Patched, SameKey
  <2> QED
    BY <2>1, <2>2, DedupFrame
<1>14. ASSUME NEW w \in Workers, NEW x \in Rows, ReadForVoid(w, x) PROVE Dedup'
  <2>1. PICK step \in {"voidDues", "voidPlain"}, j \in Job : Goto(w, step, j)
    BY <1>14, <1>0, JobTypes DEF ReadForVoid, IsDuesPayment, Row
  <2> QED
    BY <1>14, <1>a, <1>b, <2>1 DEF ReadForVoid
<1>15. ASSUME NEW w \in Workers, VoidDues(w) PROVE Dedup'
  <2>1. \A v \in Workers : pc'[v] = "locked" =>
          pc[v] = "locked" /\ job'[v].input = job[v].input
    BY <1>15, <1>b DEF VoidDues, Finish
  <2>2. \A y \in Rows : rows'[y].input # None =>
          /\ rows'[y].input = rows[y].input
          /\ SameKey(rows'[y], rows[y])
          /\ rows'[y].state = "live" => rows[y].state = "live"
          /\ rows'[y].fresh => rows[y].fresh
    <3>1. \A y \in Rows : rows'[y] \in
            {rows[y], [rows[y] EXCEPT !.state = "void", !.credit = FALSE]}
      BY <1>15 DEF VoidDues, TypeOK
    <3>2. ASSUME NEW y \in Rows PROVE
            LET v == [rows[y] EXCEPT !.state = "void", !.credit = FALSE] IN
            /\ v.input = rows[y].input /\ v.state = "void"
            /\ SameKey(v, rows[y]) /\ v.fresh = rows[y].fresh
      BY <1>0 DEF Row, SameKey
    <3> QED
      BY <3>1, <3>2 DEF SameKey
  <2> QED
    BY <2>1, <2>2, DedupFrame
<1>16. ASSUME NEW w \in Workers, RefuseVoid(w) PROVE Dedup'
  BY <1>16, <1>a, <1>b DEF RefuseVoid, Finish
<1>17. ASSUME NEW w \in Workers, VoidPlain(w) PROVE Dedup'
  <2>1. \A v \in Workers : pc'[v] = "locked" =>
          pc[v] = "locked" /\ job'[v].input = job[v].input
    BY <1>17, <1>b DEF VoidPlain, Finish
  <2>2. \A y \in Rows : rows'[y].input # None =>
          /\ rows'[y].input = rows[y].input
          /\ SameKey(rows'[y], rows[y])
          /\ rows'[y].state = "live" => rows[y].state = "live"
          /\ rows'[y].fresh => rows[y].fresh
    BY <1>0, <1>17 DEF VoidPlain, Row, SameKey
  <2> QED
    BY <2>1, <2>2, DedupFrame
<1>18. ASSUME NEW x \in Rows, Expire(x) PROVE Dedup'
  <2>1. \A v \in Workers : pc'[v] = "locked" =>
          pc[v] = "locked" /\ job'[v].input = job[v].input
    BY <1>18 DEF Expire, TypeOK
  <2>2. \A y \in Rows : rows'[y].input # None =>
          /\ rows'[y].input = rows[y].input
          /\ SameKey(rows'[y], rows[y])
          /\ rows'[y].state = "live" => rows[y].state = "live"
          /\ rows'[y].fresh => rows[y].fresh
    BY <1>0, <1>18 DEF Expire, Row, SameKey
  <2> QED
    BY <2>1, <2>2, DedupFrame
<1>19. ASSUME NEW m \in Members, Leave(m) PROVE Dedup'
  BY <1>19, <1>a DEF Leave
<1>20. ASSUME NEW m \in Members, Rejoin(m) PROVE Dedup'
  BY <1>20, <1>a DEF Rejoin
<1>21. ASSUME NEW m \in Members, Erase(m) PROVE Dedup'
  <2>1. \A v \in Workers : pc'[v] = "locked" =>
          pc[v] = "locked" /\ job'[v].input = job[v].input
    BY <1>21 DEF Erase
  <2>2. \A y \in Rows : rows'[y].input # None =>
          /\ rows'[y].input = rows[y].input
          /\ SameKey(rows'[y], rows[y])
          /\ rows'[y].state = "live" => rows[y].state = "live"
          /\ rows'[y].fresh => rows[y].fresh
    BY <1>21, EraseRows DEF Erase, SameKey
  <2> QED
    BY <2>1, <2>2, DedupFrame
<1>22. ASSUME NEW m \in Members, EraseRecords(m) PROVE Dedup'
  <2>1. \A v \in Workers : pc'[v] = "locked" =>
          pc[v] = "locked" /\ job'[v].input = job[v].input
    BY <1>22 DEF EraseRecords
  <2>2. \A y \in Rows : rows'[y].input # None =>
          /\ rows'[y].input = rows[y].input
          /\ SameKey(rows'[y], rows[y])
          /\ rows'[y].state = "live" => rows[y].state = "live"
          /\ rows'[y].fresh => rows[y].fresh
    BY <1>22, EraseRows DEF EraseRecords, SameKey
  <2> QED
    BY <2>1, <2>2, DedupFrame
<1>23. CASE UNCHANGED vars
  BY <1>23, <1>a DEF vars
<1> QED
  BY <1>1, <1>2, <1>3, <1>4, <1>5, <1>6, <1>7, <1>8, <1>9, <1>10, <1>11, <1>12,
     <1>13, <1>14, <1>15, <1>16, <1>17, <1>18, <1>19, <1>20, <1>21, <1>22, <1>23
     DEF Next, Handler, Environment

-----------------------------------------------------------------------------
(* Theorems *)

LEMMA IInvStep == IInv /\ [Next]_vars => IInv'
<1> SUFFICES ASSUME IInv, [Next]_vars PROVE IInv'
  OBVIOUS
<1>1. TypeOK' /\ JobsInv' /\ CreditInv'
  BY TypeStep, JobsStep, CreditStep DEF IInv
<1>3. CentsInv' /\ NotOverdrawn'
  <2>1. AllSound
    BY AllSoundSays DEF IInv
  <2>2. AllSound'
    BY <2>1, SoundStep DEF IInv
  <2> QED
    BY <2>2 DEF AllSound, Sound, CentsInv, NotOverdrawn
<1>2. ASSUME Untagged PROVE Dedup'
  BY <1>2, DedupStep DEF IInv, Dedup
<1> QED
  BY <1>1, <1>2, <1>3 DEF IInv, Dedup, Untagged

\* Whatever the instance, the parts of IInv hold of every reachable state.
THEOREM Inductive == Spec => []IInv
<1>1. Init => IInv
  BY InitIInv
<1>2. IInv /\ [Next]_vars => IInv'
  BY IInvStep
<1> QED
  BY <1>1, <1>2, PTL DEF Spec

\* Every variable keeps its type: no handler writes a row, a balance or a
\* pending job the schema could not hold.
THEOREM TypeCorrect == Spec => []TypeOK
<1>1. IInv => TypeOK
  BY DEF IInv
<1> QED
  BY <1>1, Inductive, PTL

\* However many payments, waivers, voids and departures are under way, and whatever
\* fractions of a cent they are for, no balance goes below zero by more than a cent; where
\* all amounts are in cents none goes below zero (recordDuesPayment, adjustDues).
THEOREM NotOverdrawnAlways == Spec => []NotOverdrawn
<1>1. IInv => NotOverdrawn
  BY DEF IInv
<1> QED
  BY <1>1, Inductive, PTL

\* Two identical POSTs inside the window never leave two live rows, provided
\* only dues payments name a member (the duplicate lookup of createTransaction).
THEOREM NoDoublePosting == Untagged => (Spec => []NoDoublePost)
<1> SUFFICES ASSUME Untagged PROVE Spec => []NoDoublePost
  OBVIOUS
<1>1. IInv => NoDoublePost
  BY DEF IInv
<1> QED
  BY <1>1, Inductive, PTL

\* A payment that was credited stays a live dues row of its member until it is
\* voided with its debt (the guards of updateTransaction, attributeDuesPayment
\* and softDeleteTransaction, stale by the time they write).
THEOREM CreditsStandAlways == Spec => []CreditsStand
<1>1. IInv => CreditsStand
  BY DEF IInv, CreditInv
<1> QED
  BY <1>1, Inductive, PTL

Frozen ==
  \A x \in Rows :
    rows[x].credit /\ rows'[x].credit =>
      /\ rows'[x].amount = rows[x].amount
      /\ rows'[x].who = rows[x].who

LEMMA FrozenStep == TypeOK /\ JobsInv /\ CreditInv /\ [Next]_vars => Frozen
<1> SUFFICES ASSUME TypeOK, JobsInv, CreditInv, [Next]_vars PROVE Frozen
  OBVIOUS
<1>0. \A x \in Rows : rows[x] \in Row
  BY DEF TypeOK
<1>a. UNCHANGED rows => Frozen
  BY DEF Frozen
<1>1. ASSUME NEW w \in Workers, NEW in \in Inputs, NEW x \in Rows,
             StartPost(w, in, x)
      PROVE  Frozen
  BY <1>a, <1>1 DEF StartPost
<1>2. ASSUME NEW w \in Workers, SuppressDuplicate(w) PROVE Frozen
  BY <1>a, <1>2 DEF SuppressDuplicate
<1>3. ASSUME NEW w \in Workers, LockKey(w) PROVE Frozen
  BY <1>a, <1>3 DEF LockKey
<1>4. ASSUME NEW w \in Workers, InsertPlain(w) PROVE Frozen
  <2>1. job[w].row \in Rows /\ ~rows[job[w].row].credit
    BY <1>4 DEF InsertPlain, At, JobsInv, Creating, CreditInv, CreditsStand
  <2> QED
    BY <1>4, <2>1 DEF InsertPlain, Frozen, TypeOK
<1>5. ASSUME NEW w \in Workers, PostPayment(w) PROVE Frozen
  <2>1. job[w].row \in Rows /\ ~rows[job[w].row].credit
    BY <1>5 DEF PostPayment, At, JobsInv, Creating, CreditInv, CreditsStand
  <2> QED
    BY <1>5, <2>1 DEF PostPayment, Frozen, TypeOK
<1>6. ASSUME NEW w \in Workers, RefusePayment(w) PROVE Frozen
  BY <1>a, <1>6 DEF RefusePayment
<1>7. ASSUME NEW w \in Workers, NEW m \in Members, NEW d \in Deltas,
             Adjust(w, m, d)
      PROVE  Frozen
  BY <1>a, <1>7 DEF Adjust
<1>8. ASSUME NEW w \in Workers, Reread(w) PROVE Frozen
  BY <1>a, <1>8 DEF Reread
<1>9. ASSUME NEW w \in Workers, Snap(w) PROVE Frozen
  BY <1>a, <1>9 DEF Snap
<1>10. ASSUME NEW w \in Workers, NEW m \in Members, NEW x \in Rows,
             ReadForAttribution(w, m, x)
       PROVE  Frozen
  BY <1>a, <1>10 DEF ReadForAttribution
<1>11. ASSUME NEW w \in Workers, Attribute(w) PROVE Frozen
  <2>1. job[w].row \in Rows /\ ~rows[job[w].row].credit
    BY <1>11 DEF Attribute, At, JobsInv, Creating, CreditInv, CreditsStand
  <2> QED
    BY <1>11, <2>1 DEF Attribute, Frozen, TypeOK
<1>12. ASSUME NEW w \in Workers, NEW x \in Rows, NEW p \in Patches,
             ReadForUpdate(w, x, p)
       PROVE  Frozen
  BY <1>a, <1>12 DEF ReadForUpdate
<1>13. ASSUME NEW w \in Workers, Update(w) PROVE Frozen
  <2>1. job[w].row \in Rows
    BY <1>13 DEF Update, At, JobsInv
  <2>2. rows[job[w].row].credit => job[w].patch.amount = Keep
    BY <1>13 DEF Update, At, CreditInv, Desyncs
  <2>3. LET r == rows[job[w].row]
            p == Patched(r, job[w].patch)
        IN  /\ p.amount = Set(job[w].patch.amount, r.amount)
            /\ p.who = r.who
    BY <1>0, <2>1 DEF Patched, Row
  <2> QED
    BY <1>13, <2>1, <2>2, <2>3 DEF Update, Frozen, Set, TypeOK
<1>14. ASSUME NEW w \in Workers, NEW x \in Rows,
             ReadForVoid(w, x)
       PROVE  Frozen
  BY <1>a, <1>14 DEF ReadForVoid
<1>15. ASSUME NEW w \in Workers, VoidDues(w) PROVE Frozen
  <2>1. job[w].row \in Rows
    BY <1>15 DEF VoidDues, At, JobsInv
  <2>2. \A x \in Rows : rows'[x] = IF x = job[w].row
          THEN [rows[x] EXCEPT !.state = "void", !.credit = FALSE] ELSE rows[x]
    BY <1>15, <2>1 DEF VoidDues, TypeOK
  <2> QED
    BY <1>0, <2>2 DEF Frozen, Row
<1>16. ASSUME NEW w \in Workers, RefuseVoid(w) PROVE Frozen
  BY <1>a, <1>16 DEF RefuseVoid
<1>17. ASSUME NEW w \in Workers, VoidPlain(w) PROVE Frozen
  <2>1. job[w].row \in Rows /\ ~rows[job[w].row].credit
    BY <1>17 DEF VoidPlain, At, JobsInv, Creating, CreditInv, CreditsStand
  <2> QED
    BY <1>17, <2>1 DEF VoidPlain, Frozen, TypeOK
<1>18. ASSUME NEW x \in Rows, Expire(x) PROVE Frozen
  BY <1>0, <1>18 DEF Expire, Frozen, Row
<1>19. ASSUME NEW m \in Members, Leave(m) PROVE Frozen
  BY <1>a, <1>19 DEF Leave
<1>20. ASSUME NEW m \in Members, Rejoin(m) PROVE Frozen
  BY <1>a, <1>20 DEF Rejoin
<1>21. ASSUME NEW m \in Members, Erase(m) PROVE Frozen
  BY <1>21, EraseRows DEF Erase, Frozen
<1>22. ASSUME NEW m \in Members, EraseRecords(m) PROVE Frozen
  BY <1>22, EraseRows DEF EraseRecords, Frozen
<1>23. CASE UNCHANGED vars
  BY <1>a, <1>23 DEF vars
<1> QED
  BY <1>1, <1>2, <1>3, <1>4, <1>5, <1>6, <1>7, <1>8, <1>9, <1>10, <1>11, <1>12,
     <1>13, <1>14, <1>15, <1>16, <1>17, <1>18, <1>19, <1>20, <1>21, <1>22, <1>23
     DEF Next, Handler, Environment

\* While a payment stands, no PATCH, attribution or void changes how much it was
\* or who paid it, although each decides from a read of the row that may be out of
\* date when it writes.
THEOREM CreditsFrozenAlways == Spec => CreditsFrozen
<1>1. IInv /\ [Next]_vars => Frozen
  BY FrozenStep DEF IInv
<1>2. [][Frozen]_vars => CreditsFrozen
  BY PTL DEF CreditsFrozen, Frozen
<1> QED
  BY <1>1, <1>2, Inductive, PTL DEF Spec

-----------------------------------------------------------------------------
(* Sums *)

\* A set of numbers has a least one, and a set of finite sets one that contains no other.
LEMMA LeastNumber ==
  ASSUME NEW T, T \subseteq Nat, T # {}
  PROVE  \E n \in T : \A k \in T : n <= k
<1>1. PICK n \in T : \A k \in T : <<k, n>> \notin OpToRel(<, Nat)
  BY NatLessThanWellFounded, WFMin
<1>2. \A k \in T : ~(k < n)
  BY <1>1 DEF OpToRel
<1> QED
  BY <1>2

LEMMA LeastSubset ==
  ASSUME NEW S, IsFiniteSet(S), NEW T, T \subseteq SUBSET S, T # {}
  PROVE  \E A \in T : \A B \in T : B \subseteq A => B = A
<1>1. T \subseteq FiniteSubsetsOf(S)
  BY FS_FiniteSubsetsOfFinite
<1>2. PICK A \in T : \A B \in T : <<B, A>> \notin StrictSubsetOrdering(S)
  BY <1>1, FS_StrictSubsetOrderingWellFounded, WFMin
<1> QED
  BY <1>2 DEF StrictSubsetOrdering

Pick(s) == CHOOSE x \in s : TRUE

\* g adds up F over the subsets of S in D.
Adds(F, D, g) ==
  g = [s \in D |-> IF s = {} THEN 0 ELSE F[Pick(s)] + g[s \ {Pick(s)}]]

LEMMA Picked ==
  ASSUME NEW S, IsFiniteSet(S), NEW s \in SUBSET S, s # {}
  PROVE  /\ Pick(s) \in s /\ s \ {Pick(s)} \in SUBSET S
         /\ IsFiniteSet(s) /\ Cardinality(s) \in Nat \ {0}
         /\ Cardinality(s \ {Pick(s)}) = Cardinality(s) - 1
<1>1. Pick(s) \in s
  BY DEF Pick
<1>2. IsFiniteSet(s)
  BY FS_Subset
<1> QED
  BY <1>1, <1>2, FS_RemoveElement, FS_CardinalityType, FS_EmptySet

\* There is such a g: by induction over the size of the subsets.
LEMMA AddsExists ==
  ASSUME NEW S, IsFiniteSet(S), NEW F
  PROVE  \E g : Adds(F, SUBSET S, g)
<1> DEFINE D(n) == {s \in SUBSET S : Cardinality(s) <= n}
           T == {n \in Nat : ~\E g : Adds(F, D(n), g)}
<1>1. \A s \in SUBSET S : Cardinality(s) \in Nat /\ Cardinality(s) <= Cardinality(S)
  BY FS_Subset, FS_CardinalityType
<1>2. T = {}
  <2> SUFFICES ASSUME T # {} PROVE FALSE
    OBVIOUS
  <2>0. T \subseteq Nat
    OBVIOUS
  <2>1. PICK n \in T : \A k \in T : n <= k
    <3> HIDE DEF T
    <3> QED
      BY <2>0, LeastNumber
  <2>2. n \in Nat /\ ~\E g : Adds(F, D(n), g)
    OBVIOUS
  <2>3. CASE n = 0
    <3>1. ASSUME NEW s \in D(0) PROVE s = {}
      <4>1. s \in SUBSET S /\ Cardinality(s) <= 0
        OBVIOUS
      <4> HIDE DEF D
      <4>2. s # {} => Cardinality(s) \in Nat \ {0}
        BY <4>1, Picked
      <4>3. ~(s # {})
        BY <4>1, <4>2
      <4> QED
        BY <4>3
    <3> HIDE DEF D
    <3>2. PICK g : g = [s \in D(0) |-> 0]
      OBVIOUS
    <3>3. Adds(F, D(0), g)
      BY <3>1, <3>2 DEF Adds
    <3> QED
      BY <2>2, <2>3, <3>3
  <2>4. CASE n # 0
    <3>1. n - 1 \in Nat /\ n - 1 \notin T
      <4>1. n - 1 \in Nat /\ ~(n <= n - 1)
        BY <2>2, <2>4
      <4> HIDE DEF T
      <4> QED
        BY <2>1, <4>1
    <3>2. PICK g : Adds(F, D(n - 1), g)
      BY <3>1
    <3>3. PICK h : h = [s \in D(n) |-> IF s = {} THEN 0 ELSE F[Pick(s)] + g[s \ {Pick(s)}]]
      OBVIOUS
    <3>4. ASSUME NEW s \in D(n - 1) PROVE h[s] = g[s]
      <4>1. s \in D(n)
        BY <1>1, <2>2
      <4>2. h[s] = IF s = {} THEN 0 ELSE F[Pick(s)] + g[s \ {Pick(s)}]
        BY <3>3, <4>1
      <4> HIDE DEF D
      <4>3. g[s] = IF s = {} THEN 0 ELSE F[Pick(s)] + g[s \ {Pick(s)}]
        BY <3>2 DEF Adds
      <4> QED
        BY <4>2, <4>3
    <3>5. ASSUME NEW s \in D(n), s # {} PROVE s \ {Pick(s)} \in D(n - 1)
      BY <1>1, <2>2, <3>5, Picked
    <3> HIDE DEF D
    <3>6. \A s \in D(n) : (IF s = {} THEN 0 ELSE F[Pick(s)] + g[s \ {Pick(s)}])
                          = (IF s = {} THEN 0 ELSE F[Pick(s)] + h[s \ {Pick(s)}])
      BY <3>4, <3>5
    <3>7. Adds(F, D(n), h)
      BY <3>3, <3>6 DEF Adds
    <3> QED
      BY <2>2, <3>7
  <2> QED
    BY <2>3, <2>4
<1>3. Cardinality(S) \in Nat /\ D(Cardinality(S)) = SUBSET S
  BY <1>1, FS_CardinalityType
<1> QED
  BY <1>2, <1>3

Adding(F, S) == CHOOSE g : Adds(F, SUBSET S, g)

LEMMA AddingStep ==
  ASSUME NEW S, IsFiniteSet(S), NEW F, NEW s \in SUBSET S
  PROVE  Adding(F, S)[s] = IF s = {} THEN 0 ELSE F[Pick(s)] + Adding(F, S)[s \ {Pick(s)}]
<1>1. PICK g : g = Adding(F, S)
  OBVIOUS
<1>2. Adds(F, SUBSET S, g)
  BY <1>1, AddsExists DEF Adding
<1>3. g[s] = IF s = {} THEN 0 ELSE F[Pick(s)] + g[s \ {Pick(s)}]
  BY <1>2 DEF Adds
<1> QED
  BY <1>1, <1>3

\* A sum of integers is one.
LEMMA AddingType ==
  ASSUME NEW S, IsFiniteSet(S), NEW F \in [S -> Int], NEW s \in SUBSET S
  PROVE  Adding(F, S)[s] \in Int
<1> DEFINE T == {t \in SUBSET S : Adding(F, S)[t] \notin Int}
<1>1. T = {}
  <2> SUFFICES ASSUME T # {} PROVE FALSE
    OBVIOUS
  <2>0. T \subseteq SUBSET S
    OBVIOUS
  <2>1. PICK t \in T : \A u \in T : u \subseteq t => u = t
    <3> HIDE DEF T
    <3> QED
      BY <2>0, LeastSubset
  <2>2. t # {}
    <3>1. t = {} => Adding(F, S)[t] = 0
      BY AddingStep
    <3> QED
      BY <3>1
  <2>3. /\ Pick(t) \in S /\ t \ {Pick(t)} \in SUBSET S
        /\ t \ {Pick(t)} # t /\ t \ {Pick(t)} \subseteq t
    BY <2>2, Picked
  <2>4. Adding(F, S)[t \ {Pick(t)}] \in Int /\ F[Pick(t)] \in Int
    BY <2>1, <2>3
  <2>5. Adding(F, S)[t] = F[Pick(t)] + Adding(F, S)[t \ {Pick(t)}]
    BY <2>2, AddingStep
  <2> QED
    BY <2>4, <2>5
<1> QED
  BY <1>1

\* Whichever element is taken first.
LEMMA AnyFirst ==
  ASSUME NEW S, IsFiniteSet(S), NEW F \in [S -> Int], NEW s \in SUBSET S, NEW x \in s
  PROVE  Adding(F, S)[s] = F[x] + Adding(F, S)[s \ {x}]
<1> DEFINE Good(t) == \A y \in t : Adding(F, S)[t] = F[y] + Adding(F, S)[t \ {y}]
           T == {t \in SUBSET S : ~Good(t)}
<1>1. T = {}
  <2> SUFFICES ASSUME T # {} PROVE FALSE
    OBVIOUS
  <2>0. T \subseteq SUBSET S
    OBVIOUS
  <2>1. PICK t \in T : \A u \in T : u \subseteq t => u = t
    <3> HIDE DEF T
    <3> QED
      BY <2>0, LeastSubset
  <2>2. t \in SUBSET S /\ ~Good(t)
    OBVIOUS
  <2>3. \A u \in SUBSET S : u \subseteq t /\ u # t => Good(u)
    BY <2>1
  <2> HIDE DEF T
  <2>4. PICK y \in t : Adding(F, S)[t] # F[y] + Adding(F, S)[t \ {y}]
    BY <2>2
  <2> DEFINE p == Pick(t)
  <2>5. p \in t
    BY <2>2, <2>4, Picked
  <2>6. Adding(F, S)[t] = F[p] + Adding(F, S)[t \ {p}]
    BY <2>2, <2>4, AddingStep
  <2> HIDE DEF p
  <2>7. p # y
    BY <2>4, <2>6
  <2>8. Good(t \ {p}) /\ Good(t \ {y})
    <3>1. t \ {p} \in SUBSET S /\ t \ {p} \subseteq t /\ t \ {p} # t
      BY <2>2, <2>5
    <3>2. t \ {y} \in SUBSET S /\ t \ {y} \subseteq t /\ t \ {y} # t
      BY <2>2, <2>4
    <3> HIDE DEF Good
    <3> QED
      BY <2>3, <3>1, <3>2
  <2>9. /\ Adding(F, S)[t \ {p}] = F[y] + Adding(F, S)[(t \ {p}) \ {y}]
        /\ Adding(F, S)[t \ {y}] = F[p] + Adding(F, S)[(t \ {y}) \ {p}]
    BY <2>4, <2>5, <2>7, <2>8
  <2>10. PICK u \in SUBSET S : u = (t \ {p}) \ {y} /\ u = (t \ {y}) \ {p}
    BY <2>2
  <2>11. PICK i \in Int : i = Adding(F, S)[u]
    BY AddingType
  <2>12. Adding(F, S)[t \ {p}] = F[y] + i
    BY <2>9, <2>10, <2>11
  <2>13. Adding(F, S)[t \ {y}] = F[p] + i
    BY <2>9, <2>10, <2>11
  <2>14. F[p] \in Int /\ F[y] \in Int
    BY <2>2, <2>4, <2>5
  <2> HIDE DEF Good
  <2> QED
    BY <2>4, <2>6, <2>12, <2>13, <2>14
<1> QED
  BY <1>1

\* Only the numbers of the subset count.
LEMMA AddingAgrees ==
  ASSUME NEW S, IsFiniteSet(S), NEW R, IsFiniteSet(R), NEW F, NEW G,
         NEW s, s \in SUBSET S, s \in SUBSET R, \A x \in s : F[x] = G[x]
  PROVE  Adding(F, S)[s] = Adding(G, R)[s]
<1> DEFINE T == {t \in SUBSET s : Adding(F, S)[t] # Adding(G, R)[t]}
<1>0. IsFiniteSet(s)
  BY FS_Subset
<1>1. T = {}
  <2> SUFFICES ASSUME T # {} PROVE FALSE
    OBVIOUS
  <2>0. T \subseteq SUBSET s
    OBVIOUS
  <2>1. PICK t \in T : \A u \in T : u \subseteq t => u = t
    <3> HIDE DEF T
    <3> QED
      BY <1>0, <2>0, LeastSubset
  <2>2. t \in SUBSET S /\ t \in SUBSET R /\ t \in SUBSET s
    OBVIOUS
  <2>3. t # {}
    <3>1. t = {} => Adding(F, S)[t] = 0 /\ Adding(G, R)[t] = 0
      BY <2>2, AddingStep
    <3> QED
      BY <3>1
  <2>4. Pick(t) \in t
    BY <2>2, <2>3, Picked
  <2>5. Adding(F, S)[t \ {Pick(t)}] = Adding(G, R)[t \ {Pick(t)}]
    <3>1. t \ {Pick(t)} \subseteq t /\ t \ {Pick(t)} # t /\ t \ {Pick(t)} \in SUBSET s
      BY <2>2, <2>4
    <3> QED
      BY <2>1, <3>1
  <2>6. Adding(F, S)[t] = F[Pick(t)] + Adding(F, S)[t \ {Pick(t)}]
    BY <2>2, <2>3, AddingStep
  <2>7. Adding(G, R)[t] = G[Pick(t)] + Adding(G, R)[t \ {Pick(t)}]
    BY <2>2, <2>3, AddingStep
  <2>8. F[Pick(t)] = G[Pick(t)]
    BY <2>2, <2>4
  <2> QED
    BY <2>1, <2>5, <2>6, <2>7, <2>8
<1> QED
  BY <1>1

-----------------------------------------------------------------------------
(* What a member's standing credits add up to *)

CreditsOf(t, m) == {x \in Rows : t[x].credit /\ t[x].who = m}
AmountsOf(t, m) == [x \in CreditsOf(t, m) |-> t[x].amount]
PaidIn(t, m) == Adding(AmountsOf(t, m), CreditsOf(t, m))[CreditsOf(t, m)]

LEMMA PaidIsSum ==
  ASSUME NEW m, IsFiniteSet(Rows)
  PROVE  Paid(m) = PaidIn(rows, m)
<1> DEFINE A == CreditsOf(rows, m)
           F == AmountsOf(rows, m)
<1>1. Paid(m) = (CHOOSE g : g = [s \in SUBSET A |-> IF s = {} THEN 0
                     ELSE rows[CHOOSE x \in s : TRUE].amount + g[s \ {CHOOSE x \in s : TRUE}]])[A]
  BY DEF Paid, MapThenSumSet, MapThenFoldSet, CreditsOf
<1>2. \A g : [s \in SUBSET A |-> IF s = {} THEN 0
                ELSE rows[CHOOSE x \in s : TRUE].amount + g[s \ {CHOOSE x \in s : TRUE}]]
             = [s \in SUBSET A |-> IF s = {} THEN 0 ELSE F[Pick(s)] + g[s \ {Pick(s)}]]
  <2>1. \A s \in SUBSET A : s # {} => rows[CHOOSE x \in s : TRUE].amount = F[Pick(s)]
    BY DEF Pick, AmountsOf
  <2> HIDE DEF F, A
  <2> QED
    BY <2>1 DEF Pick
<1> HIDE DEF F, A
<1>3. \A g : Adds(F, SUBSET A, g) <=>
             g = [s \in SUBSET A |-> IF s = {} THEN 0
                ELSE rows[CHOOSE x \in s : TRUE].amount + g[s \ {CHOOSE x \in s : TRUE}]]
  <2> TAKE g
  <2>1. [s \in SUBSET A |-> IF s = {} THEN 0
                ELSE rows[CHOOSE x \in s : TRUE].amount + g[s \ {CHOOSE x \in s : TRUE}]]
             = [s \in SUBSET A |-> IF s = {} THEN 0 ELSE F[Pick(s)] + g[s \ {Pick(s)}]]
    BY <1>2
  <2> QED
    BY <2>1, Zenon DEF Adds
<1>4. Adding(F, A) = (CHOOSE g : g = [s \in SUBSET A |-> IF s = {} THEN 0
                     ELSE rows[CHOOSE x \in s : TRUE].amount + g[s \ {CHOOSE x \in s : TRUE}]])
  BY <1>3 DEF Adding
<1> QED
  BY <1>1, <1>4 DEF F, A, PaidIn

LEMMA PaidType ==
  ASSUME NEW t \in [Rows -> Row], NEW m, IsFiniteSet(Rows)
  PROVE  PaidIn(t, m) \in Int /\ IsFiniteSet(CreditsOf(t, m))
<1>1. IsFiniteSet(CreditsOf(t, m))
  BY FS_Subset DEF CreditsOf
<1>2. \A x \in CreditsOf(t, m) : t[x].amount \in Int
  BY AmountsType DEF CreditsOf, Row
<1>3. AmountsOf(t, m) \in [CreditsOf(t, m) -> Int]
  BY <1>2 DEF AmountsOf
<1>4. CreditsOf(t, m) \in SUBSET CreditsOf(t, m)
  OBVIOUS
<1> QED
  BY <1>1, <1>3, <1>4, AddingType DEF PaidIn

LEMMA PaidSame ==
  ASSUME NEW t \in [Rows -> Row], NEW u \in [Rows -> Row], NEW m, IsFiniteSet(Rows),
         \A x \in Rows :
           /\ u[x].credit /\ u[x].who = m <=> t[x].credit /\ t[x].who = m
           /\ t[x].credit /\ t[x].who = m => u[x].amount = t[x].amount
  PROVE  PaidIn(u, m) = PaidIn(t, m)
<1>1. CreditsOf(u, m) = CreditsOf(t, m)
  BY DEF CreditsOf
<1>2. AmountsOf(u, m) = AmountsOf(t, m)
  BY <1>1 DEF CreditsOf, AmountsOf
<1> QED
  BY <1>1, <1>2 DEF PaidIn

LEMMA PaidMore ==
  ASSUME NEW t \in [Rows -> Row], NEW u \in [Rows -> Row], NEW m, IsFiniteSet(Rows),
         NEW x \in Rows,
         ~(t[x].credit /\ t[x].who = m), u[x].credit /\ u[x].who = m,
         \A y \in Rows \ {x} : u[y] = t[y]
  PROVE  PaidIn(u, m) = PaidIn(t, m) + u[x].amount
<1> DEFINE A == CreditsOf(u, m)
           B == CreditsOf(t, m)
           F == AmountsOf(u, m)
           G == AmountsOf(t, m)
<1>1. x \in A /\ x \notin B /\ A \ {x} = B
  BY DEF CreditsOf
<1>2. F[x] = u[x].amount /\ u[x].amount \in Int
  BY <1>1, AmountsType DEF AmountsOf, Row
<1>3. \A y \in B : F[y] = G[y]
  BY <1>1 DEF AmountsOf, CreditsOf
<1>4. IsFiniteSet(A) /\ IsFiniteSet(B) /\ PaidIn(t, m) \in Int
  BY PaidType
<1>5. F \in [A -> Int]
  BY AmountsType DEF AmountsOf, CreditsOf, Row
<1> HIDE DEF A, B, F, G
<1>6. Adding(F, A)[A] = F[x] + Adding(F, A)[A \ {x}]
  BY <1>1, <1>4, <1>5, AnyFirst
<1>7. Adding(F, A)[B] = Adding(G, B)[B]
  <2>1. B \in SUBSET A /\ B \in SUBSET B
    BY <1>1
  <2> QED
    BY <1>3, <1>4, <2>1, AddingAgrees
<1>8. Adding(F, A)[A] = F[x] + Adding(F, A)[B]
  BY <1>1, <1>6
<1>9. PaidIn(u, m) = Adding(F, A)[A] /\ PaidIn(t, m) = Adding(G, B)[B]
  BY DEF PaidIn, A, B, F, G
<1> QED
  BY <1>2, <1>4, <1>7, <1>8, <1>9

LEMMA PaidNone ==
  ASSUME NEW t, NEW m, \A x \in Rows : ~(t[x].credit /\ t[x].who = m)
  PROVE  PaidIn(t, m) = 0
<1>1. CreditsOf(t, m) = {}
  BY DEF CreditsOf
<1>2. IsFiniteSet({})
  BY FS_EmptySet
<1>3. Adding(AmountsOf(t, m), {})[{}] = 0
  BY <1>2, AddingStep
<1> QED
  BY <1>1, <1>3 DEF PaidIn

\* The balances, in the words of the sums above.
Explained ==
  \A m \in Members : owed[m] + PaidIn(rows, m) = assessed[m]

LEMMA ExplainedIsBalance ==
  ASSUME IsFiniteSet(Rows)
  PROVE  BalanceExplained <=> Explained
BY PaidIsSum DEF BalanceExplained, Explained

LEMMA ExplainedInit == IsFiniteSet(Rows) /\ Init => Explained
<1> SUFFICES ASSUME IsFiniteSet(Rows), Init, NEW m \in Members
             PROVE  owed[m] + PaidIn(rows, m) = assessed[m]
  BY DEF Explained
<1>1. PaidIn(rows, m) = 0
  BY PaidNone DEF Init, FreeRow
<1> QED
  BY <1>1 DEF Init

\* A step that moves no credit and no money.
LEMMA ExplainedFrame ==
  ASSUME TypeOK, TypeOK', Explained, IsFiniteSet(Rows), UNCHANGED <<owed, assessed>>,
         \A x \in Rows : /\ rows'[x].credit = rows[x].credit
                         /\ rows[x].credit => /\ rows'[x].who = rows[x].who
                                              /\ rows'[x].amount = rows[x].amount
  PROVE  Explained'
<1> SUFFICES ASSUME NEW m \in Members
             PROVE  owed'[m] + PaidIn(rows', m) = assessed'[m]
  BY DEF Explained
<1>1. rows \in [Rows -> Row] /\ rows' \in [Rows -> Row]
  BY DEF TypeOK
<1>2. PaidIn(rows', m) = PaidIn(rows, m)
  BY <1>1, PaidSame
<1> QED
  BY <1>2 DEF Explained

LEMMA ExplainedStep ==
  IsFiniteSet(Rows) /\ TypeOK /\ JobsInv /\ CreditInv /\ Explained /\ [Next]_vars => Explained'
<1> SUFFICES ASSUME IsFiniteSet(Rows), TypeOK, JobsInv, CreditInv, Explained, [Next]_vars
             PROVE  Explained'
  OBVIOUS
<1>0. \A x \in Rows : rows[x] \in Row
  BY DEF TypeOK
<1>t. TypeOK'
  BY TypeStep
<1>r. rows \in [Rows -> Row] /\ rows' \in [Rows -> Row]
  BY <1>t DEF TypeOK
<1>p. \A m \in Members : /\ owed[m] \in Int /\ assessed[m] \in Int
                         /\ PaidIn(rows, m) \in Int
                         /\ owed[m] + PaidIn(rows, m) = assessed[m]
  BY <1>r, PaidType DEF TypeOK, Explained
<1>a. UNCHANGED <<owed, rows, assessed>> => Explained'
  BY <1>t, ExplainedFrame
<1>b. ASSUME UNCHANGED rows, NEW n \in Members,
             \A m \in Members \ {n} : owed'[m] = owed[m] /\ assessed'[m] = assessed[m],
             owed'[n] + PaidIn(rows, n) = assessed'[n]
      PROVE  Explained'
  BY <1>b, <1>p DEF Explained
<1>1. ASSUME NEW w \in Workers, NEW in \in Inputs, NEW x \in Rows,
             StartPost(w, in, x)
      PROVE  Explained'
  BY <1>a, <1>1 DEF StartPost
<1>2. ASSUME NEW w \in Workers, SuppressDuplicate(w) PROVE Explained'
  BY <1>a, <1>2 DEF SuppressDuplicate
<1>3. ASSUME NEW w \in Workers, LockKey(w) PROVE Explained'
  BY <1>a, <1>3 DEF LockKey
<1>4. ASSUME NEW w \in Workers, InsertPlain(w) PROVE Explained'
  <2>1. job[w].row \in Rows /\ ~rows[job[w].row].credit
    BY <1>4 DEF InsertPlain, At, JobsInv, Creating, CreditInv, CreditsStand
  <2>2. /\ ~rows'[job[w].row].credit
        /\ \A y \in Rows \ {job[w].row} : rows'[y] = rows[y]
    BY <1>4, <2>1 DEF InsertPlain, TypeOK, NewRow
  <2>3. \A y \in Rows : rows[y].credit \in BOOLEAN /\ rows'[y].credit \in BOOLEAN
    BY <1>r DEF Row
  <2>4. UNCHANGED <<owed, assessed>>
    BY <1>4 DEF InsertPlain
  <2> QED
    BY <1>t, <2>1, <2>2, <2>3, <2>4, ExplainedFrame
<1>5. ASSUME NEW w \in Workers, PostPayment(w) PROVE Explained'
  <2> DEFINE x == job[w].row
             in == job[w].input
             left == owed[in.who] - in.amount
  <2>1. x \in Rows /\ ~rows[x].credit /\ in \in Inputs
    BY <1>5 DEF PostPayment, At, JobsInv, Creating, CreditInv, CreditsStand
  <2>2. in.who \in Members /\ in.amount \in Int /\ left \in Int
    BY <1>5, PaymentPosted
  <2>3. /\ rows'[x].credit /\ rows'[x].who = in.who /\ rows'[x].amount = in.amount
        /\ \A y \in Rows \ {x} : rows'[y] = rows[y]
    BY <1>5, <2>1 DEF PostPayment, TypeOK, NewRow
  <2>4. PICK rest \in {left, 0} :
          /\ owed' = [owed EXCEPT ![in.who] = rest]
          /\ assessed' = [assessed EXCEPT ![in.who] = assessed[in.who] - (left - rest)]
    BY <1>5, PaymentPosted DEF SetOwed
  <2>8. left = owed[in.who] - in.amount
    OBVIOUS
  <2> HIDE DEF x, in, left
  <2>5. PaidIn(rows', in.who) = PaidIn(rows, in.who) + in.amount
    BY <1>r, <2>1, <2>3, PaidMore
  <2>6. \A m \in Members \ {in.who} : PaidIn(rows', m) = PaidIn(rows, m)
    <3> TAKE m \in Members \ {in.who}
    <3>1. \A y \in Rows :
            /\ rows'[y].credit /\ rows'[y].who = m <=> rows[y].credit /\ rows[y].who = m
            /\ rows[y].credit /\ rows[y].who = m => rows'[y].amount = rows[y].amount
      BY <2>1, <2>3
    <3> QED
      BY <1>r, <3>1, PaidSame
  <2>7. /\ owed'[in.who] = rest /\ assessed'[in.who] = assessed[in.who] - (left - rest)
        /\ \A m \in Members \ {in.who} : owed'[m] = owed[m] /\ assessed'[m] = assessed[m]
    BY <2>2, <2>4 DEF TypeOK
  <2>9. owed'[in.who] + PaidIn(rows', in.who) = assessed'[in.who]
    <3>1. rest \in Int
      BY <2>2, <2>4
    <3>2. owed[in.who] + PaidIn(rows, in.who) = assessed[in.who]
          /\ owed[in.who] \in Int /\ PaidIn(rows, in.who) \in Int
      BY <1>p, <2>2
    <3> QED
      BY <2>2, <2>5, <2>7, <2>8, <3>1, <3>2
  <2> QED
    BY <1>p, <2>6, <2>7, <2>9 DEF Explained
<1>6. ASSUME NEW w \in Workers, RefusePayment(w) PROVE Explained'
  BY <1>a, <1>6 DEF RefusePayment
<1>7. ASSUME NEW w \in Workers, NEW m \in Members, NEW d \in Deltas,
             Adjust(w, m, d)
      PROVE  Explained'
  <2>1. d \in Int
    BY DeltasType
  <2>2. /\ owed'[m] = owed[m] + d /\ assessed'[m] = assessed[m] + d
        /\ \A n \in Members \ {m} : owed'[n] = owed[n] /\ assessed'[n] = assessed[n]
        /\ UNCHANGED rows
    BY <1>7 DEF Adjust, SetOwed, TypeOK
  <2>3. owed'[m] + PaidIn(rows, m) = assessed'[m]
    BY <1>p, <2>1, <2>2
  <2> QED
    BY <1>b, <2>2, <2>3
<1>8. ASSUME NEW w \in Workers, Reread(w) PROVE Explained'
  BY <1>a, <1>8 DEF Reread
<1>9. ASSUME NEW w \in Workers, Snap(w) PROVE Explained'
  <2>1. job[w].who \in Members
    BY <1>9 DEF Snap, At, JobsInv
  <2>2. CASE OnRoster(job[w].who)
    <3> DEFINE m == job[w].who
    <3>1. /\ owed'[m] = 0 /\ assessed'[m] = assessed[m] - owed[m]
          /\ \A n \in Members \ {m} : owed'[n] = owed[n] /\ assessed'[n] = assessed[n]
          /\ UNCHANGED rows
      BY <1>9, <2>1, <2>2 DEF Snap, SetOwed, TypeOK
    <3> HIDE DEF m
    <3>2. m \in Members
      BY <2>1 DEF m
    <3>3. owed'[m] + PaidIn(rows, m) = assessed'[m]
      BY <1>p, <3>1, <3>2
    <3> QED
      BY <1>b, <3>1, <3>2, <3>3
  <2>3. CASE ~OnRoster(job[w].who)
    BY <1>a, <1>9, <2>3 DEF Snap
  <2> QED
    BY <2>2, <2>3
<1>10. ASSUME NEW w \in Workers, NEW m \in Members, NEW x \in Rows,
             ReadForAttribution(w, m, x)
       PROVE  Explained'
  BY <1>a, <1>10 DEF ReadForAttribution
<1>11. ASSUME NEW w \in Workers, Attribute(w) PROVE Explained'
  <2>1. job[w].row \in Rows /\ ~rows[job[w].row].credit
    BY <1>11 DEF Attribute, At, JobsInv, Creating, CreditInv, CreditsStand
  <2>2. /\ rows'[job[w].row].credit = rows[job[w].row].credit
        /\ \A y \in Rows \ {job[w].row} : rows'[y] = rows[y]
    BY <1>0, <1>11, <2>1 DEF Attribute, TypeOK, Row
  <2>3. UNCHANGED <<owed, assessed>>
    BY <1>11 DEF Attribute
  <2> QED
    BY <1>t, <2>1, <2>2, <2>3, ExplainedFrame
<1>12. ASSUME NEW w \in Workers, NEW x \in Rows, NEW p \in Patches,
             ReadForUpdate(w, x, p)
       PROVE  Explained'
  BY <1>a, <1>12 DEF ReadForUpdate
<1>13. ASSUME NEW w \in Workers, Update(w) PROVE Explained'
  <2> DEFINE x == job[w].row
             p == job[w].patch
  <2>1. x \in Rows /\ rows[x] \in Row /\ (rows[x].credit => ~Desyncs(p, rows[x]))
    BY <1>0, <1>13 DEF Update, At, JobsInv, CreditInv
  <2>2. rows'[x] = Patched(rows[x], p) /\ \A y \in Rows \ {x} : rows'[y] = rows[y]
    BY <1>13, <2>1 DEF Update, TypeOK
  <2>3. UNCHANGED <<owed, assessed>>
    BY <1>13 DEF Update
  <2> HIDE DEF x, p
  <2>4. /\ rows'[x].credit = rows[x].credit /\ rows'[x].who = rows[x].who
        /\ rows[x].credit => rows'[x].amount = rows[x].amount
    BY <2>1, <2>2 DEF Patched, Set, Desyncs, Row
  <2>5. \A y \in Rows : /\ rows'[y].credit = rows[y].credit
                        /\ rows[y].credit => /\ rows'[y].who = rows[y].who
                                             /\ rows'[y].amount = rows[y].amount
    BY <2>2, <2>4
  <2> QED
    BY <1>t, <2>3, <2>5, ExplainedFrame
<1>14. ASSUME NEW w \in Workers, NEW x \in Rows,
             ReadForVoid(w, x)
       PROVE  Explained'
  BY <1>a, <1>14 DEF ReadForVoid
<1>15. ASSUME NEW w \in Workers, VoidDues(w) PROVE Explained'
  <2> DEFINE x == job[w].row
             n == job[w].who
             a == job[w].amount
  <2>1. x \in Rows /\ n \in Members /\ a \in Int
    BY <1>15, AmountsType DEF VoidDues, At, JobsInv, TypeOK, Job
  <2>2. rows[x].credit => rows[x].who = n /\ rows[x].amount = a
    BY <1>15 DEF VoidDues, At, CreditInv
  <2>3. ~rows'[x].credit /\ \A y \in Rows \ {x} : rows'[y] = rows[y]
    BY <1>0, <1>15, <2>1 DEF VoidDues, TypeOK, Row
  <2>4. /\ owed'[n] = IF OnRoster(n) THEN owed[n] + a ELSE owed[n]
        /\ assessed'[n] = assessed[n] + (IF OnRoster(n) THEN a ELSE 0)
                                      - (IF rows[x].credit THEN a ELSE 0)
        /\ \A m \in Members \ {n} : owed'[m] = owed[m] /\ assessed'[m] = assessed[m]
    BY <1>15, <2>1 DEF VoidDues, SetOwed, TypeOK, Claims
  <2> HIDE DEF x, n, a
  <2>5. \A m \in Members \ {n} : PaidIn(rows', m) = PaidIn(rows, m)
    <3> TAKE m \in Members \ {n}
    <3>1. \A y \in Rows :
            /\ rows'[y].credit /\ rows'[y].who = m <=> rows[y].credit /\ rows[y].who = m
            /\ rows[y].credit /\ rows[y].who = m => rows'[y].amount = rows[y].amount
      BY <2>2, <2>3
    <3> QED
      BY <1>r, <3>1, PaidSame
  <2>6. /\ PaidIn(rows', n) \in Int
        /\ PaidIn(rows, n) = PaidIn(rows', n) + (IF rows[x].credit THEN a ELSE 0)
    <3>0. PaidIn(rows', n) \in Int
      BY <1>r, PaidType
    <3>1. CASE rows[x].credit
      <4>1. \A y \in Rows \ {x} : rows[y] = rows'[y]
        BY <2>3
      <4>2. PaidIn(rows, n) = PaidIn(rows', n) + rows[x].amount
        BY <1>r, <2>1, <2>2, <2>3, <3>1, <4>1, PaidMore
      <4> QED
        BY <2>2, <3>0, <3>1, <4>2
    <3>2. CASE ~rows[x].credit
      <4>1. \A y \in Rows :
              /\ rows'[y].credit /\ rows'[y].who = n <=> rows[y].credit /\ rows[y].who = n
              /\ rows[y].credit /\ rows[y].who = n => rows'[y].amount = rows[y].amount
        BY <2>3, <3>2
      <4>2. PaidIn(rows', n) = PaidIn(rows, n)
        BY <1>r, <4>1, PaidSame
      <4> QED
        BY <3>0, <3>2, <4>2
    <3> QED
      BY <3>1, <3>2
  <2>7. owed'[n] + PaidIn(rows', n) = assessed'[n]
    <3> DEFINE c == IF rows[x].credit THEN a ELSE 0
               b == IF OnRoster(n) THEN a ELSE 0
    <3>1. c \in Int /\ b \in Int
      BY <2>1
    <3>2. /\ owed'[n] = owed[n] + b /\ assessed'[n] = assessed[n] + b - c
          /\ PaidIn(rows, n) = PaidIn(rows', n) + c
      BY <1>p, <2>1, <2>4, <2>6
    <3> HIDE DEF c, b
    <3> QED
      BY <1>p, <2>1, <2>6, <3>1, <3>2
  <2> QED
    BY <1>p, <2>4, <2>5, <2>7 DEF Explained
<1>16. ASSUME NEW w \in Workers, RefuseVoid(w) PROVE Explained'
  BY <1>a, <1>16 DEF RefuseVoid
<1>17. ASSUME NEW w \in Workers, VoidPlain(w) PROVE Explained'
  <2>1. job[w].row \in Rows
    BY <1>17 DEF VoidPlain, At, JobsInv
  <2>2. \A y \in Rows : /\ rows'[y].credit = rows[y].credit /\ rows'[y].who = rows[y].who
                        /\ rows'[y].amount = rows[y].amount
    BY <1>0, <1>17, <2>1 DEF VoidPlain, TypeOK, Row
  <2>3. UNCHANGED <<owed, assessed>>
    BY <1>17 DEF VoidPlain
  <2> QED
    BY <1>t, <2>2, <2>3, ExplainedFrame
<1>18. ASSUME NEW x \in Rows, Expire(x) PROVE Explained'
  <2>1. \A y \in Rows : /\ rows'[y].credit = rows[y].credit /\ rows'[y].who = rows[y].who
                        /\ rows'[y].amount = rows[y].amount
    BY <1>0, <1>18 DEF Expire, TypeOK, Row
  <2>2. UNCHANGED <<owed, assessed>>
    BY <1>18 DEF Expire
  <2> QED
    BY <1>t, <2>1, <2>2, ExplainedFrame
<1>19. ASSUME NEW m \in Members, Leave(m) PROVE Explained'
  <2>1. /\ owed'[m] = 0 /\ assessed'[m] = assessed[m] - owed[m]
        /\ \A n \in Members \ {m} : owed'[n] = owed[n] /\ assessed'[n] = assessed[n]
        /\ UNCHANGED rows
    BY <1>19 DEF Leave, SetOwed, TypeOK
  <2>2. owed'[m] + PaidIn(rows, m) = assessed'[m]
    BY <1>p, <2>1
  <2> QED
    BY <1>b, <2>1, <2>2
<1>20. ASSUME NEW m \in Members, Rejoin(m) PROVE Explained'
  BY <1>a, <1>20 DEF Rejoin
<1>21. ASSUME NEW m \in Members, rows' = Unnamed(m)
       PROVE  /\ PaidIn(rows', m) = 0
              /\ \A n \in Members \ {m} : PaidIn(rows', n) = PaidIn(rows, n)
  <2>1. \A y \in Rows : IF rows[y].who = m THEN ~rows'[y].credit ELSE rows'[y] = rows[y]
    BY <1>0, <1>21 DEF Unnamed, Row
  <2>2. \A y \in Rows : ~(rows'[y].credit /\ rows'[y].who = m)
    BY <2>1
  <2>3. ASSUME NEW n \in Members \ {m} PROVE PaidIn(rows', n) = PaidIn(rows, n)
    <3>1. \A y \in Rows :
            /\ rows'[y].credit /\ rows'[y].who = n <=> rows[y].credit /\ rows[y].who = n
            /\ rows[y].credit /\ rows[y].who = n => rows'[y].amount = rows[y].amount
      BY <2>1
    <3> QED
      BY <1>r, <3>1, PaidSame
  <2> QED
    BY <2>2, <2>3, PaidNone
<1>22. ASSUME NEW m \in Members, Erase(m) PROVE Explained'
  <2>1. /\ owed'[m] = 0 /\ assessed'[m] = 0 /\ rows' = Unnamed(m)
        /\ \A n \in Members \ {m} : owed'[n] = owed[n] /\ assessed'[n] = assessed[n]
    BY <1>22 DEF Erase, SetOwed, TypeOK
  <2> QED
    BY <1>p, <1>21, <2>1 DEF Explained
<1>23. ASSUME NEW m \in Members, EraseRecords(m) PROVE Explained'
  <2>1. /\ assessed'[m] = owed[m] /\ rows' = Unnamed(m)
        /\ \A n \in Members \ {m} : assessed'[n] = assessed[n]
        /\ UNCHANGED owed
    BY <1>23 DEF EraseRecords, TypeOK
  <2> QED
    BY <1>p, <1>21, <2>1 DEF Explained
<1>24. CASE UNCHANGED vars
  BY <1>a, <1>24 DEF vars
<1> QED
  BY <1>1, <1>2, <1>3, <1>4, <1>5, <1>6, <1>7, <1>8, <1>9, <1>10, <1>11, <1>12,
     <1>13, <1>14, <1>15, <1>16, <1>17, <1>18, <1>19, <1>20, <1>22, <1>23, <1>24
     DEF Next, Handler, Environment

\* A balance is what was charged, less waivers, the payments that still stand on the
\* ledger and what the snaps took, in cents or fractions of them: every payment, waiver, void, attribution,
\* edit and departure moves the two books by the same amount, however many
\* requests are under way (recordDuesPayment, adjustDues, softDeleteTransaction,
\* updateTransaction, leaveOrg, deleteBrother).
THEOREM BalanceExplainedAlways == IsFiniteSet(Rows) => (Spec => []BalanceExplained)
<1> SUFFICES ASSUME IsFiniteSet(Rows) PROVE Spec => []BalanceExplained
  OBVIOUS
<1>1. Init => Explained
  BY ExplainedInit
<1>2. IInv /\ Explained /\ [Next]_vars => Explained'
  BY ExplainedStep DEF IInv
<1>3. Explained => BalanceExplained
  BY ExplainedIsBalance
<1> QED
  BY <1>1, <1>2, <1>3, Inductive, PTL DEF Spec

-----------------------------------------------------------------------------
(* Dues implements DuesBooks whenever float arithmetic leaves no residue and all       *)
(* amounts are in cents: the argument of the MCDuesBooks run, for every value of the   *)
(* constants *)

Exact == ~Drift /\ WholeCents

\* Then nothing is ever snapped to zero.
NoSnap ==
  /\ \A m \in Members : ~drift[m]
  /\ \A w \in Workers : pc[w] # "snap"

LEMMA NoSnapInit == Init => NoSnap
BY DEF Init, NoSnap

LEMMA NoSnapStep ==
  Exact /\ TypeOK /\ JobsInv /\ AllSound /\ NoSnap /\ [Next]_vars => NoSnap'
<1> SUFFICES ASSUME Exact, TypeOK, JobsInv, AllSound, NoSnap, [Next]_vars PROVE NoSnap'
  OBVIOUS
<1>r. \A residue \in Residues : residue = FALSE
  BY DEF Exact, Residues
<1>a. ASSUME UNCHANGED drift, NEW w \in Workers, NEW step, NEW j, step # "snap",
             Goto(w, step, j)
      PROVE  NoSnap'
  BY <1>a DEF NoSnap, Goto, TypeOK
<1>b. ASSUME NEW m \in Members, NEW cents, NEW residue, ~residue,
             SetOwed(m, cents, residue)
      PROVE  \A n \in Members : ~drift'[n]
  BY <1>b DEF NoSnap, SetOwed, TypeOK
<1>c. ASSUME NEW w \in Workers, NEW step, NEW j, step # "snap", Goto(w, step, j)
      PROVE  \A v \in Workers : pc'[v] # "snap"
  BY <1>c DEF NoSnap, Goto, TypeOK
<1>1. ASSUME NEW w \in Workers, NEW in \in Inputs, NEW x \in Rows,
             StartPost(w, in, x)
      PROVE  NoSnap'
  BY <1>a, <1>1 DEF StartPost
<1>2. ASSUME NEW w \in Workers, SuppressDuplicate(w) PROVE NoSnap'
  BY <1>a, <1>2 DEF SuppressDuplicate, Finish
<1>3. ASSUME NEW w \in Workers, LockKey(w) PROVE NoSnap'
  BY <1>a, <1>3 DEF LockKey
<1>4. ASSUME NEW w \in Workers, InsertPlain(w) PROVE NoSnap'
  BY <1>a, <1>4 DEF InsertPlain, Finish
<1>5. ASSUME NEW w \in Workers, PostPayment(w) PROVE NoSnap'
  <2>1. job[w].input \in Inputs /\ job[w].input.who # None
    BY <1>5 DEF PostPayment, At, JobsInv, Creating, IsDuesPayment
  <2>2. job[w].input.who \in Members
    BY <2>1, InputType
  <2>3. \E rest : SetOwed(job[w].input.who, rest, FALSE)
    BY <1>r, <1>5 DEF PostPayment
  <2> QED
    BY <1>b, <1>c, <1>5, <2>2, <2>3 DEF PostPayment, Finish, NoSnap
<1>6. ASSUME NEW w \in Workers, RefusePayment(w) PROVE NoSnap'
  BY <1>a, <1>6 DEF RefusePayment, Finish
<1>7. ASSUME NEW w \in Workers, NEW m \in Members, NEW d \in Deltas,
             Adjust(w, m, d)
      PROVE  NoSnap'
  BY <1>b, <1>c, <1>r, <1>7 DEF Adjust, NoSnap
<1>8. ASSUME NEW w \in Workers, Reread(w) PROVE NoSnap'
  <2>0. job[w].who \in Members /\ ~drift[job[w].who]
    BY <1>8 DEF Reread, At, JobsInv, NoSnap
  <2>1. owed[job[w].who] \in Int /\ IsWhole(owed[job[w].who])
    BY <2>0 DEF AllSound, Sound, Exact, TypeOK
  <2>2. 0 \in Rounded(owed[job[w].who]) => owed[job[w].who] = 0
    BY <2>1, WholeRounded
  <2>3. Finish(w) /\ UNCHANGED drift
    BY <1>8, <2>0, <2>2 DEF Reread
  <2> QED
    BY <1>a, <2>3 DEF Finish
<1>9. ASSUME NEW w \in Workers, Snap(w) PROVE NoSnap'
  BY <1>9 DEF Snap, At, NoSnap
<1>10. ASSUME NEW w \in Workers, NEW m \in Members, NEW x \in Rows,
             ReadForAttribution(w, m, x)
       PROVE  NoSnap'
  BY <1>a, <1>10 DEF ReadForAttribution
<1>11. ASSUME NEW w \in Workers, Attribute(w) PROVE NoSnap'
  BY <1>a, <1>11 DEF Attribute, Finish
<1>12. ASSUME NEW w \in Workers, NEW x \in Rows, NEW p \in Patches,
             ReadForUpdate(w, x, p)
       PROVE  NoSnap'
  BY <1>a, <1>12 DEF ReadForUpdate
<1>13. ASSUME NEW w \in Workers, Update(w) PROVE NoSnap'
  BY <1>a, <1>13 DEF Update, Finish
<1>14. ASSUME NEW w \in Workers, NEW x \in Rows,
             ReadForVoid(w, x)
       PROVE  NoSnap'
  <2>1. UNCHANGED drift
    BY <1>14 DEF ReadForVoid
  <2>2. \E step \in {"voidDues", "voidPlain"} : \E j : Goto(w, step, j)
    BY <1>14 DEF ReadForVoid
  <2> QED
    BY <1>a, <2>1, <2>2
<1>15. ASSUME NEW w \in Workers, VoidDues(w) PROVE NoSnap'
  <2>1. job[w].who \in Members
    BY <1>15 DEF VoidDues, At, JobsInv
  <2>2. CASE OnRoster(job[w].who)
    BY <1>b, <1>c, <1>r, <1>15, <2>1, <2>2 DEF VoidDues, Finish, NoSnap
  <2>3. CASE ~OnRoster(job[w].who)
    BY <1>a, <1>15, <2>3 DEF VoidDues, Finish
  <2> QED
    BY <2>2, <2>3
<1>16. ASSUME NEW w \in Workers, RefuseVoid(w) PROVE NoSnap'
  BY <1>a, <1>16 DEF RefuseVoid, Finish
<1>17. ASSUME NEW w \in Workers, VoidPlain(w) PROVE NoSnap'
  BY <1>a, <1>17 DEF VoidPlain, Finish
<1>18. ASSUME NEW x \in Rows, Expire(x) PROVE NoSnap'
  BY <1>18 DEF Expire, NoSnap
<1>19. ASSUME NEW m \in Members, Leave(m) PROVE NoSnap'
  <2>1. SetOwed(m, 0, FALSE) /\ pc' = pc
    BY <1>19 DEF Leave
  <2> QED
    BY <1>b, <2>1 DEF NoSnap
<1>20. ASSUME NEW m \in Members, Rejoin(m) PROVE NoSnap'
  BY <1>20 DEF Rejoin, NoSnap
<1>21. ASSUME NEW m \in Members, Erase(m) PROVE NoSnap'
  <2>1. SetOwed(m, 0, FALSE) /\ pc' = pc
    BY <1>21 DEF Erase
  <2> QED
    BY <1>b, <2>1 DEF NoSnap
<1>22. ASSUME NEW m \in Members, EraseRecords(m) PROVE NoSnap'
  BY <1>22 DEF EraseRecords, NoSnap
<1>23. CASE UNCHANGED vars
  BY <1>23 DEF vars, NoSnap
<1> QED
  BY <1>1, <1>2, <1>3, <1>4, <1>5, <1>6, <1>7, <1>8, <1>9, <1>10, <1>11, <1>12, 
     <1>13, <1>14, <1>15, <1>16, <1>17, <1>18, <1>19, <1>20, <1>21, <1>22, <1>23
     DEF Next, Handler, Environment

-----------------------------------------------------------------------------
(* The refinement *)

\* What a step has to do to the rows for no credit to appear, go or change.
CreditsKept ==
  \A x \in Rows :
    /\ rows'[x].credit <=> rows[x].credit
    /\ rows[x].credit => /\ rows'[x].who = rows[x].who
                         /\ rows'[x].amount = rows[x].amount

LEMMA CreditsKeptStutter ==
  ASSUME CreditsKept, UNCHANGED <<roster, owed>>
  PROVE  UNCHANGED Books!vars
BY DEF CreditsKept, CreditOf, Books!vars

LEMMA CreditsKeptRows == UNCHANGED rows => CreditsKept
BY DEF CreditsKept

\* A step of the abstract books, or none.
BooksStep == Books!Next \/ UNCHANGED Books!vars

\* Taking the name off the rows of m takes the credits of m off the books.
LEMMA UnnamedCredits ==
  ASSUME TypeOK, NEW m \in Members, rows' = Unnamed(m)
  PROVE  CreditOf' = [x \in Rows |-> IF CreditOf[x].who = m THEN Books!NoCredit
                                     ELSE CreditOf[x]]
<1>1. m # None
  BY NoneAssumption
<1>2. \A x \in Rows :
        CreditOf'[x] = IF CreditOf[x].who = m THEN Books!NoCredit ELSE CreditOf[x]
  <2> SUFFICES ASSUME NEW x \in Rows
               PROVE  CreditOf'[x] = IF CreditOf[x].who = m THEN Books!NoCredit
                                     ELSE CreditOf[x]
    OBVIOUS
  <2>1. CASE rows[x].who = m
    BY <1>1, <2>1, EraseRows DEF CreditOf, Books!NoCredit
  <2>2. CASE rows[x].who # m
    BY <1>1, <2>2, EraseRows DEF CreditOf, Books!NoCredit
  <2> QED
    BY <2>1, <2>2
<1> QED
  BY <1>2 DEF CreditOf

LEMMA InitBooks == Init => Books!Init
BY DEF Init, FreeRow, CreditOf, Books!Init, Books!NoCredit

LEMMA StepBooks ==
  Exact /\ TypeOK /\ JobsInv /\ CreditInv /\ AllSound /\ NoSnap /\ [Next]_vars => BooksStep
<1> SUFFICES ASSUME Exact, TypeOK, JobsInv, CreditInv, AllSound, NoSnap, [Next]_vars
             PROVE  BooksStep
  OBVIOUS
<1>w. ASSUME NEW m \in Members, NEW a \in Amounts, Covers(m, a)
      PROVE  a <= owed[m] /\ IsWhole(owed[m] - a)
  <2>1. owed[m] \in Int /\ a \in Int /\ IsWhole(owed[m]) /\ IsWhole(a)
    BY AmountsType DEF TypeOK, AllSound, Sound, Exact, WholeCents
  <2> QED
    BY <1>w, <2>1, CoversEnough, WholeSum
<1>0. \A x \in Rows : rows[x] \in Row
  BY DEF TypeOK
<1>a. ASSUME UNCHANGED <<roster, owed, rows>> PROVE BooksStep
  BY <1>a, CreditsKeptStutter, CreditsKeptRows DEF BooksStep
<1>b. ASSUME UNCHANGED <<roster, owed>>, CreditsKept PROVE BooksStep
  BY <1>b, CreditsKeptStutter DEF BooksStep
<1>c. ASSUME UNCHANGED rows PROVE CreditOf' = CreditOf
  BY <1>c DEF CreditOf
<1>1. ASSUME NEW w \in Workers, NEW in \in Inputs, NEW x \in Rows,
             StartPost(w, in, x)
      PROVE  BooksStep
  BY <1>a, <1>1 DEF StartPost
<1>2. ASSUME NEW w \in Workers, SuppressDuplicate(w) PROVE BooksStep
  BY <1>a, <1>2 DEF SuppressDuplicate
<1>3. ASSUME NEW w \in Workers, LockKey(w) PROVE BooksStep
  BY <1>a, <1>3 DEF LockKey
<1>4. ASSUME NEW w \in Workers, InsertPlain(w) PROVE BooksStep
  <2>1. job[w].row \in Rows /\ rows[job[w].row].state = "free"
    BY <1>4 DEF InsertPlain, At, JobsInv, Creating
  <2>2. ~rows[job[w].row].credit
    BY <2>1 DEF CreditInv, CreditsStand
  <2>3. CreditsKept
    BY <1>4, <2>1, <2>2 DEF InsertPlain, NewRow, CreditsKept, TypeOK
  <2> QED
    BY <1>b, <1>4, <2>3 DEF InsertPlain
<1>5. ASSUME NEW w \in Workers, PostPayment(w) PROVE BooksStep
  <2> DEFINE in == job[w].input
             x == job[w].row
  <2>1. x \in Rows /\ in \in Inputs /\ rows[x].state = "free"
    BY <1>5 DEF PostPayment, At, JobsInv, Creating
  <2>2. in.who \in Members /\ in.who # None /\ in.amount \in Amounts
    BY <1>5, <2>1, InputType DEF PostPayment, IsDuesPayment
  <2>3. ~rows[x].credit
    BY <2>1 DEF CreditInv, CreditsStand
  <2>4. CreditOf[x] = Books!NoCredit
    BY <2>1, <2>3 DEF CreditOf, Books!NoCredit
  <2>5. \A y \in Rows :
          rows'[y] = IF y = x THEN NewRow(in, in.who, TRUE, TRUE) ELSE rows[y]
    BY <1>5, <2>1 DEF PostPayment, TypeOK
  <2>6. CreditOf' = [CreditOf EXCEPT ![x] = [who |-> in.who, amount |-> in.amount]]
    <3>1. /\ rows'[x].credit /\ rows'[x].who = in.who
          /\ rows'[x].amount = in.amount
      BY <2>1, <2>5 DEF NewRow
    <3>2. \A y \in Rows : CreditOf'[y] =
            IF y = x THEN [who |-> in.who, amount |-> in.amount] ELSE CreditOf[y]
      BY <2>5, <3>1 DEF CreditOf
    <3> HIDE DEF in, x
    <3> QED
      BY <3>2 DEF CreditOf
  <2>7. /\ roster[in.who] = "member" /\ in.amount <= owed[in.who]
        /\ owed' = [owed EXCEPT ![in.who] = @ - in.amount]
        /\ roster' = roster
    <3> DEFINE left == owed[in.who] - in.amount
    <3>1. Covers(in.who, in.amount) /\ roster' = roster
      BY <1>5 DEF PostPayment
    <3>2. in.amount <= owed[in.who] /\ IsWhole(left)
      BY <1>w, <2>2, <3>1
    <3>3. PICK residue : SetOwed(in.who, left, residue)
      BY <1>5, <3>2, PaymentPosted
    <3> HIDE DEF in
    <3> QED
      BY <3>1, <3>2, <3>3 DEF Covers, OnRoster, SetOwed
  <2>8. Books!Pay(in.who, in.amount, x)
    BY <2>4, <2>6, <2>7 DEF Books!Pay
  <2> QED
    BY <2>1, <2>2, <2>8 DEF BooksStep, Books!Next
<1>6. ASSUME NEW w \in Workers, RefusePayment(w) PROVE BooksStep
  BY <1>a, <1>6 DEF RefusePayment
<1>7. ASSUME NEW w \in Workers, NEW m \in Members, NEW d \in Deltas,
             Adjust(w, m, d)
      PROVE  BooksStep
  <2>1. roster[m] = "member" /\ roster' = roster /\ rows' = rows
        /\ owed' = [owed EXCEPT ![m] = owed[m] + d]
    BY <1>7 DEF Adjust, OnRoster, SetOwed
  <2>2. d \in Int /\ owed[m] \in Int
    BY DeltasType DEF TypeOK
  <2>3. CASE d > 0
    <3>1. d \in Amounts
      BY <2>3, DeltasAssumption, AmountsAssumption
    <3>2. Books!Charge(m, d)
      BY <1>c, <2>1 DEF Books!Charge
    <3> QED
      BY <3>1, <3>2 DEF BooksStep, Books!Next
  <2>4. CASE ~(d > 0)
    <3>1. d < 0 /\ -d \in Amounts
      BY <2>4, DeltasAssumption, AmountsAssumption
    <3>2. -d <= owed[m]
      BY <1>7, <1>w, <3>1 DEF Adjust
    <3>3. owed[m] - (-d) = owed[m] + d
      BY <2>2
    <3>4. Books!Waive(m, -d)
      BY <1>c, <2>1, <3>2, <3>3 DEF Books!Waive
    <3> QED
      BY <3>1, <3>4 DEF BooksStep, Books!Next
  <2> QED
    BY <2>3, <2>4
<1>8. ASSUME NEW w \in Workers, Reread(w) PROVE BooksStep
  BY <1>a, <1>8 DEF Reread
<1>9. ASSUME NEW w \in Workers, Snap(w) PROVE BooksStep
  BY <1>9 DEF Snap, At, NoSnap
<1>10. ASSUME NEW w \in Workers, NEW m \in Members, NEW x \in Rows,
             ReadForAttribution(w, m, x)
       PROVE  BooksStep
  BY <1>a, <1>10 DEF ReadForAttribution
<1>11. ASSUME NEW w \in Workers, Attribute(w) PROVE BooksStep
  <2>1. job[w].row \in Rows /\ ~rows[job[w].row].credit
    BY <1>11 DEF Attribute, At, JobsInv, CreditInv
  <2>2. CreditsKept
    <3>1. \A y \in Rows : y # job[w].row => rows'[y] = rows[y]
      BY <1>11, <2>1 DEF Attribute, TypeOK
    <3>2. rows'[job[w].row] \in {rows[job[w].row],
            [rows[job[w].row] EXCEPT !.who = job[w].who, !.input = None]}
      BY <1>11, <2>1 DEF Attribute, TypeOK
    <3>3. ~rows'[job[w].row].credit
      BY <1>0, <2>1, <3>2 DEF Row
    <3> QED
      BY <2>1, <3>1, <3>3 DEF CreditsKept
  <2> QED
    BY <1>b, <1>11, <2>2 DEF Attribute
<1>12. ASSUME NEW w \in Workers, NEW x \in Rows, NEW p \in Patches,
             ReadForUpdate(w, x, p)
       PROVE  BooksStep
  BY <1>a, <1>12 DEF ReadForUpdate
<1>13. ASSUME NEW w \in Workers, Update(w) PROVE BooksStep
  <2> DEFINE x == job[w].row
             p == job[w].patch
  <2>1. x \in Rows /\ p \in PatchSet
    BY <1>13, PatchesAssumption DEF Update, At, JobsInv
  <2>2. rows[x].credit => p.amount = Keep
    BY <1>13 DEF Update, At, CreditInv, Desyncs
  <2>3. \A y \in Rows : rows'[y] = IF y = x THEN Patched(rows[x], p) ELSE rows[y]
    BY <1>13, <2>1 DEF Update, TypeOK
  <2>4. LET r == Patched(rows[x], p) IN
        /\ r.credit = rows[x].credit /\ r.who = rows[x].who
        /\ r.amount = Set(p.amount, rows[x].amount)
    BY <1>0, <2>1 DEF Patched, Row
  <2>5. CreditsKept
    BY <2>2, <2>3, <2>4 DEF CreditsKept, Set
  <2> QED
    BY <1>b, <1>13, <2>5 DEF Update
<1>14. ASSUME NEW w \in Workers, NEW x \in Rows,
             ReadForVoid(w, x)
       PROVE  BooksStep
  BY <1>a, <1>14 DEF ReadForVoid
<1>15. ASSUME NEW w \in Workers, VoidDues(w) PROVE BooksStep
  <2> DEFINE x == job[w].row
             m == job[w].who
             a == job[w].amount
  <2>1. x \in Rows /\ m \in Members
    BY <1>15 DEF VoidDues, At, JobsInv
  <2>2. a \in Amounts
    BY DEF TypeOK, Job
  <2>3. \A y \in Rows :
          rows'[y] = IF y = x THEN [rows[x] EXCEPT !.state = "void", !.credit = FALSE]
                     ELSE rows[y]
    BY <1>15, <2>1 DEF VoidDues, TypeOK
  <2>4. ~[rows[x] EXCEPT !.state = "void", !.credit = FALSE].credit
    BY <1>0, <2>1 DEF Row
  <2>5. CreditOf' = [CreditOf EXCEPT ![x] = Books!NoCredit]
    BY <2>3, <2>4 DEF CreditOf, Books!NoCredit
  <2>6. /\ roster' = roster
        /\ owed' = IF roster[m] = "member" THEN [owed EXCEPT ![m] = @ + a] ELSE owed
    BY <1>15 DEF VoidDues, OnRoster, SetOwed
  <2>7. CASE rows[x].credit
    <3>1. rows[x].who = m /\ rows[x].amount = a
      BY <1>15, <2>7 DEF VoidDues, At, CreditInv
    <3>2. CreditOf[x] = [who |-> m, amount |-> a] /\ m # None
      BY <2>1, <2>7, <3>1, NoneAssumption DEF CreditOf
    <3>3. Books!Void(m, x)
      BY <2>5, <2>6, <3>2 DEF Books!Void, Books!NoCredit
    <3> QED
      BY <2>1, <3>3 DEF BooksStep, Books!Next
  <2>8. CASE ~rows[x].credit
    <3>1. CreditOf' = CreditOf
      BY <2>1, <2>5, <2>8 DEF CreditOf, Books!NoCredit
    <3>2. CASE roster[m] = "member"
      <4>1. Books!Charge(m, a)
        BY <2>6, <3>1, <3>2 DEF Books!Charge
      <4> QED
        BY <2>1, <2>2, <4>1 DEF BooksStep, Books!Next
    <3>3. CASE roster[m] # "member"
      BY <2>6, <3>1, <3>3 DEF BooksStep, Books!vars
    <3> QED
      BY <3>2, <3>3
  <2> QED
    BY <2>7, <2>8
<1>16. ASSUME NEW w \in Workers, RefuseVoid(w) PROVE BooksStep
  BY <1>a, <1>16 DEF RefuseVoid
<1>17. ASSUME NEW w \in Workers, VoidPlain(w) PROVE BooksStep
  <2>1. job[w].row \in Rows /\ ~rows[job[w].row].credit
    BY <1>17 DEF VoidPlain, At, JobsInv, CreditInv
  <2>2. CreditsKept
    BY <1>0, <1>17, <2>1 DEF VoidPlain, TypeOK, CreditsKept, Row
  <2> QED
    BY <1>b, <1>17, <2>2 DEF VoidPlain
<1>18. ASSUME NEW x \in Rows, Expire(x) PROVE BooksStep
  <2>1. CreditsKept
    BY <1>0, <1>18 DEF Expire, CreditsKept, Row
  <2> QED
    BY <1>b, <1>18, <2>1 DEF Expire
<1>19. ASSUME NEW m \in Members, Leave(m) PROVE BooksStep
  <2>1. Books!Leave(m)
    BY <1>c, <1>19 DEF Leave, OnRoster, SetOwed, Books!Leave
  <2> QED
    BY <2>1 DEF BooksStep, Books!Next
<1>20. ASSUME NEW m \in Members, Rejoin(m) PROVE BooksStep
  <2>1. Books!Rejoin(m)
    BY <1>c, <1>20 DEF Rejoin, Books!Rejoin
  <2> QED
    BY <2>1 DEF BooksStep, Books!Next
<1>21. ASSUME NEW m \in Members, Erase(m) PROVE BooksStep
  <2>3. CreditOf' = [x \in Rows |-> IF CreditOf[x].who = m THEN Books!NoCredit
                                    ELSE CreditOf[x]]
    BY <1>21, UnnamedCredits DEF Erase
  <2>4. /\ roster[m] = "member" /\ roster' = [roster EXCEPT ![m] = "erased"]
        /\ owed' = [owed EXCEPT ![m] = 0]
    BY <1>21 DEF Erase, OnRoster, SetOwed
  <2>5. Books!Erase(m)
    BY <2>3, <2>4 DEF Books!Erase
  <2> QED
    BY <2>5 DEF BooksStep, Books!Next
<1>22. ASSUME NEW m \in Members, EraseRecords(m) PROVE BooksStep
  <2>1. CreditOf' = [x \in Rows |-> IF CreditOf[x].who = m THEN Books!NoCredit
                                    ELSE CreditOf[x]]
    BY <1>22, UnnamedCredits DEF EraseRecords
  <2>2. roster[m] = "member" /\ roster' = roster /\ owed' = owed
    BY <1>22 DEF EraseRecords, OnRoster
  <2>3. Books!Forget(m)
    BY <2>1, <2>2 DEF Books!Forget
  <2> QED
    BY <2>3 DEF BooksStep, Books!Next
<1>23. CASE UNCHANGED vars
  BY <1>a, <1>23 DEF vars
<1> QED
  BY <1>1, <1>2, <1>3, <1>4, <1>5, <1>6, <1>7, <1>8, <1>9, <1>10, <1>11, <1>12, 
     <1>13, <1>14, <1>15, <1>16, <1>17, <1>18, <1>19, <1>20, <1>21, <1>22, <1>23
     DEF Next, Handler, Environment

\* The handlers implement the abstract books: a payment turns balance into
\* credit in one step, a void turns it back once, and nothing in between is ever
\* visible, as long as arithmetic is exact and amounts are in cents (dues-service.ts: the
\* books cannot move one without the other).
THEOREM DuesImplementsBooks == Exact => (Spec => ImplementsBooks)
<1> SUFFICES ASSUME Exact PROVE Spec => ImplementsBooks
  OBVIOUS
<1>1. Init => NoSnap /\ Books!Init
  BY NoSnapInit, InitBooks
<1>2. IInv /\ NoSnap /\ [Next]_vars => NoSnap'
  BY NoSnapStep, AllSoundSays DEF IInv
<1>3. IInv /\ NoSnap /\ [Next]_vars => [Books!Next]_(Books!vars)
  BY StepBooks, AllSoundSays DEF IInv, BooksStep
<1> QED
  BY <1>1, <1>2, <1>3, Inductive, PTL DEF Spec, ImplementsBooks, Books!Spec
=============================================================================
