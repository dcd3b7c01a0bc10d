---------------------------- MODULE RosterProofs ----------------------------
(***************************************************************************)
(* Theorems about Roster for any number of handlers, people and links, and *)
(* any limits.  IInv is inductive.  Both bounds have the same argument:    *)
(* what is used up, counted together with what handlers are about to use   *)
(* up, grows only when a check is passed, and then at most every handler   *)
(* adds one to a number that was below the bound (Overshoot).              *)
(***************************************************************************)
EXTENDS Roster, FiniteSetTheorems, TLAPS

\* Who the handlers are busy with.
Whos == {job[w].who : w \in Workers}

\* Whatever is used up, the handlers add at most one each to it.
LEMMA Overshoot ==
  ASSUME NEW A \in SUBSET Persons, NEW S \in SUBSET Whos
  PROVE  /\ IsFiniteSet(A \cup S)
         /\ Cardinality(A \cup S) <= Cardinality(A) + Cardinality(Workers)
<1>1. IsFiniteSet(Whos) /\ Cardinality(Whos) <= Cardinality(Workers)
  <2>1. [w \in Workers |-> job[w].who] \in Surjection(Workers, Whos)
    BY DEF Surjection, Whos
  <2> QED
    BY <2>1, FS_Surjection, SetsAssumption
<1>2. IsFiniteSet(A) /\ IsFiniteSet(S) /\ Cardinality(S) <= Cardinality(Whos)
  BY <1>1, FS_Subset, SetsAssumption
<1>3. IsFiniteSet(A \cap S)
  BY <1>2, FS_Subset
<1>4. /\ Cardinality(A) \in Nat /\ Cardinality(S) \in Nat /\ Cardinality(A \cap S) \in Nat
      /\ Cardinality(Whos) \in Nat /\ Cardinality(Workers) \in Nat
  BY <1>1, <1>2, <1>3, FS_CardinalityType, SetsAssumption
<1>5. /\ IsFiniteSet(A \cup S)
      /\ Cardinality(A \cup S) = Cardinality(A) + Cardinality(S) - Cardinality(A \cap S)
  BY <1>2, FS_Union
<1> QED
  BY <1>1, <1>2, <1>4, <1>5

\* A set of people that shrinks stays within the bound it was within.
LEMMA Shrinks ==
  ASSUME NEW A \in SUBSET Persons, NEW B \in SUBSET A, NEW m \in Int, NEW n \in Int,
         Cardinality(A) <= m - 1 + Cardinality(Workers), m <= n
  PROVE  Cardinality(B) <= n - 1 + Cardinality(Workers)
<1>1. IsFiniteSet(A)
  BY FS_Subset, SetsAssumption
<1>2. IsFiniteSet(B) /\ Cardinality(B) <= Cardinality(A)
  BY <1>1, FS_Subset
<1>3. Cardinality(A) \in Nat /\ Cardinality(B) \in Nat /\ Cardinality(Workers) \in Nat
  BY <1>1, <1>2, FS_CardinalityType, SetsAssumption
<1> QED
  BY <1>2, <1>3

\* What is used up, and what is about to be.
Seats == Active \cup Coming
Places(l) == Redeemers(l) \cup Queued(l) \cup Heading(l)

LEMMA NullJobType == NoJob \in Job /\ NoRequest \in Request
BY DEF NoJob, NoRequest, Job, Request

\* A chapter that has just been founded.
LEMMA InitIInv == Init => IInv
<1> SUFFICES ASSUME Init PROVE IInv
  OBVIOUS
<1>1. TypeOK
  BY NullJobType, SetsAssumption, LimitsAssumption
  DEF Init, TypeOK, Standing, Steps
<1>2. JobsInv /\ RequestsInv /\ QueueTruthful
  BY DEF Init, JobsInv, RequestsInv, QueueTruthful, NoRequest
<1>3. SeatsInv
  <2>1. Coming = {}
    BY DEF Init, Coming
  <2>2. Active = {Founder}
    BY SetsAssumption DEF Init, Active
  <2>3. Cardinality(Active \cup Coming) = 1
    BY <2>1, <2>2, FS_EmptySet, FS_AddElement
  <2>4. Cardinality(Workers) \in Nat /\ Cardinality(Workers) # 0
    BY FS_CardinalityType, FS_EmptySet, SetsAssumption
  <2> QED
    BY <2>3, <2>4, LimitsAssumption DEF Init, SeatsInv
<1>4. LinksInv
  <2> SUFFICES ASSUME NEW l \in Links
               PROVE  Cardinality(Places(l)) <= Cap[l] - 1 + Cardinality(Workers)
    BY DEF LinksInv, Places
  <2>1. Places(l) = {}
    BY DEF Init, Places, Redeemers, Queued, Heading, NoRequest
  <2>2. Cardinality(Workers) \in Nat
    BY FS_CardinalityType, SetsAssumption
  <2> QED
    BY <2>1, <2>2, FS_EmptySet, LimitsAssumption
<1> QED
  BY <1>1, <1>2, <1>3, <1>4 DEF IInv

\* Every step keeps the types.
LEMMA TypeStep ==
  ASSUME TypeOK, JobsInv, RequestsInv, Next
  PROVE  TypeOK'
<1>1. ASSUME NEW w \in Workers, NEW p \in Persons, NEW l \in Links, Knock(w, p, l)
      PROVE  TypeOK'
  BY <1>1, NullJobType DEF Knock, Begin, On, Goto, TypeOK, Job, Steps
<1>2. ASSUME NEW w \in Workers, Consider(w) PROVE TypeOK'
  <2>1. job[w] \in Job /\ job[w].who \in Persons
    BY <1>2 DEF Consider, TypeOK, JobsInv
  <2>2. [job[w] EXCEPT !.seen = requests[job[w].who]] \in Job
    BY <2>1 DEF TypeOK, Job
  <2>3. pc' \in [Workers -> Steps] /\ job' \in [Workers -> Job]
    BY <1>2, <2>2, NullJobType DEF Consider, Finish, Goto, TypeOK, Steps
  <2> QED
    BY <1>2, <2>3 DEF Consider, TypeOK
<1>3. ASSUME NEW w \in Workers, File(w) PROVE TypeOK'
  BY <1>3, NullJobType DEF File, Write, Cross, Finish, Goto, TypeOK, JobsInv, Request, Steps
<1>4. ASSUME NEW w \in Workers, NEW p \in Persons, NEW step \in {"approving", "rejecting"},
            Review(w, p, step) PROVE TypeOK'
  BY <1>4, NullJobType DEF Review, Begin, On, Goto, TypeOK, Job, Request, Steps
<1>5. ASSUME NEW w \in Workers, Gate(w) PROVE TypeOK'
  <2>1. pc' \in [Workers -> Steps] /\ job' \in [Workers -> Job]
    BY <1>5, NullJobType DEF Gate, Finish, Goto, TypeOK, Steps
  <2> QED
    BY <1>5, <2>1 DEF Gate, TypeOK
<1>6. ASSUME NEW w \in Workers, Admit(w) PROVE TypeOK'
  BY <1>6, NullJobType
     DEF Admit, Write, Cross, Finish, Goto, TypeOK, JobsInv, Request, Standing, Steps
<1>7. ASSUME NEW w \in Workers, Reject(w) PROVE TypeOK'
  BY <1>7, NullJobType
     DEF Reject, Write, Cross, Finish, Goto, TypeOK, JobsInv, Request, Steps
<1>8. ASSUME NEW w \in Workers, Abort(w) PROVE TypeOK'
  BY <1>8, NullJobType DEF Abort, Finish, Goto, TypeOK, Steps
<1>9. ASSUME NEW w \in Workers, NEW p \in Persons, NEW step \in {"leaving", "removing"},
            StartLeaving(w, p, step) PROVE TypeOK'
  BY <1>9, NullJobType DEF StartLeaving, Begin, On, Goto, TypeOK, Job, Steps
<1>10. ASSUME NEW w \in Workers, Leave(w) PROVE TypeOK'
  BY <1>10, NullJobType DEF Leave, DropRow, Finish, Goto, TypeOK, Standing, Steps
<1>11. ASSUME NEW w \in Workers, DeleteAccount(w) PROVE TypeOK'
  BY <1>11, NullJobType
     DEF DeleteAccount, DropRow, Unredeem, Finish, Goto, TypeOK, Standing, Steps
<1>12. ASSUME NEW w \in Workers, EraseRecords(w) PROVE TypeOK'
  BY <1>12 DEF EraseRecords, Unredeem, Goto, TypeOK, Steps
<1>13. ASSUME NEW w \in Workers, DeleteRow(w) PROVE TypeOK'
  BY <1>13, NullJobType DEF DeleteRow, DropRow, Finish, Goto, TypeOK, Standing, Steps
<1>14. ASSUME NEW w \in Workers, NEW p \in Persons, StartRestoring(w, p) PROVE TypeOK'
  BY <1>14, NullJobType DEF StartRestoring, Begin, On, Goto, TypeOK, Job, Steps
<1>15. ASSUME NEW w \in Workers, Restore(w) PROVE TypeOK'
  BY <1>15, NullJobType DEF Restore, Finish, Goto, TypeOK, Standing, Steps
<1>16. ASSUME NEW p \in Persons, Archive(p) PROVE TypeOK'
  BY <1>16 DEF Archive, TypeOK, Standing
<1>17. ASSUME NEW p \in Persons, SetAdmin(p) PROVE TypeOK'
  BY <1>17 DEF SetAdmin, TypeOK
<1>18. ASSUME NEW l \in Links, Close(l) PROVE TypeOK'
  BY <1>18 DEF Close, TypeOK
<1>19. ASSUME ChangeLimit PROVE TypeOK'
  BY <1>19, LimitsAssumption DEF ChangeLimit, TypeOK
<1> QED
  BY <1>1, <1>2, <1>3, <1>4, <1>5, <1>6, <1>7, <1>8, <1>9, <1>10, <1>11, <1>12, <1>13,
     <1>14, <1>15, <1>16, <1>17, <1>18, <1>19 DEF Next, Submit, Decision, Depart, Return

\* Every step keeps what handlers remember meaningful.
LEMMA JobsStep ==
  ASSUME TypeOK, JobsInv, RequestsInv, Next
  PROVE  JobsInv' /\ RequestsInv'
<1>1. ASSUME NEW w \in Workers, NEW p \in Persons, NEW l \in Links, Knock(w, p, l)
      PROVE  JobsInv' /\ RequestsInv'
  BY <1>1 DEF Knock, Begin, On, Goto, TypeOK, JobsInv, RequestsInv
<1>2. ASSUME NEW w \in Workers, Consider(w) PROVE JobsInv' /\ RequestsInv'
  BY <1>2 DEF Consider, Finish, Goto, TypeOK, JobsInv, RequestsInv, Job, Request
<1>3. ASSUME NEW w \in Workers, File(w) PROVE JobsInv' /\ RequestsInv'
  BY <1>3 DEF File, Write, Cross, Finish, Goto, TypeOK, JobsInv, RequestsInv
<1>4. ASSUME NEW w \in Workers, NEW p \in Persons, NEW step \in {"approving", "rejecting"},
            Review(w, p, step) PROVE JobsInv' /\ RequestsInv'
  BY <1>4 DEF Review, Begin, On, Goto, TypeOK, JobsInv, RequestsInv, Undecided
<1>5. ASSUME NEW w \in Workers, Gate(w) PROVE JobsInv' /\ RequestsInv'
  BY <1>5 DEF Gate, Finish, Goto, TypeOK, JobsInv, RequestsInv
<1>6. ASSUME NEW w \in Workers, Admit(w) PROVE JobsInv' /\ RequestsInv'
  BY <1>6 DEF Admit, Write, Cross, Finish, Goto, TypeOK, JobsInv, RequestsInv
<1>7. ASSUME NEW w \in Workers, Reject(w) PROVE JobsInv' /\ RequestsInv'
  BY <1>7 DEF Reject, Write, Cross, Finish, Goto, TypeOK, JobsInv, RequestsInv
<1>8. ASSUME NEW w \in Workers, Abort(w) PROVE JobsInv' /\ RequestsInv'
  BY <1>8 DEF Abort, Finish, Goto, TypeOK, JobsInv, RequestsInv
<1>9. ASSUME NEW w \in Workers, NEW p \in Persons, NEW step \in {"leaving", "removing"},
            StartLeaving(w, p, step) PROVE JobsInv' /\ RequestsInv'
  BY <1>9 DEF StartLeaving, Begin, On, Goto, TypeOK, JobsInv, RequestsInv
<1>10. ASSUME NEW w \in Workers, Leave(w) PROVE JobsInv' /\ RequestsInv'
  BY <1>10 DEF Leave, DropRow, Finish, Goto, TypeOK, JobsInv, RequestsInv
<1>11. ASSUME NEW w \in Workers, DeleteAccount(w) PROVE JobsInv' /\ RequestsInv'
  BY <1>11 DEF DeleteAccount, DropRow, Unredeem, Finish, Goto, TypeOK, JobsInv, RequestsInv
<1>12. ASSUME NEW w \in Workers, EraseRecords(w) PROVE JobsInv' /\ RequestsInv'
  BY <1>12 DEF EraseRecords, Unredeem, Goto, JobsInv, RequestsInv
<1>13. ASSUME NEW w \in Workers, DeleteRow(w) PROVE JobsInv' /\ RequestsInv'
  BY <1>13 DEF DeleteRow, DropRow, Finish, Goto, TypeOK, JobsInv, RequestsInv
<1>14. ASSUME NEW w \in Workers, NEW p \in Persons, StartRestoring(w, p)
       PROVE  JobsInv' /\ RequestsInv'
  BY <1>14 DEF StartRestoring, Begin, On, Goto, TypeOK, JobsInv, RequestsInv
<1>15. ASSUME NEW w \in Workers, Restore(w) PROVE JobsInv' /\ RequestsInv'
  BY <1>15 DEF Restore, Finish, Goto, TypeOK, JobsInv, RequestsInv
<1>16. ASSUME NEW p \in Persons, Archive(p) PROVE JobsInv' /\ RequestsInv'
  BY <1>16 DEF Archive, JobsInv, RequestsInv
<1>17. ASSUME NEW p \in Persons, SetAdmin(p) PROVE JobsInv' /\ RequestsInv'
  BY <1>17 DEF SetAdmin, JobsInv, RequestsInv
<1>18. ASSUME NEW l \in Links, Close(l) PROVE JobsInv' /\ RequestsInv'
  BY <1>18 DEF Close, JobsInv, RequestsInv
<1>19. ASSUME ChangeLimit PROVE JobsInv' /\ RequestsInv'
  BY <1>19 DEF ChangeLimit, JobsInv, RequestsInv
<1> QED
  BY <1>1, <1>2, <1>3, <1>4, <1>5, <1>6, <1>7, <1>8, <1>9, <1>10, <1>11, <1>12, <1>13,
     <1>14, <1>15, <1>16, <1>17, <1>18, <1>19 DEF Next, Submit, Decision, Depart, Return

\* Nobody is let in and left waiting, unless a decision was overtaken.
LEMMA QueueStep ==
  ASSUME TypeOK, JobsInv, QueueTruthful, Next
  PROVE  QueueTruthful'
<1>1. ASSUME NEW w \in Workers, NEW p \in Persons, NEW l \in Links, Knock(w, p, l)
      PROVE  QueueTruthful'
  BY <1>1 DEF Knock, Begin, Goto, QueueTruthful
<1>2. ASSUME NEW w \in Workers, Consider(w) PROVE QueueTruthful'
  BY <1>2 DEF Consider, Finish, Goto, QueueTruthful
<1>3. ASSUME NEW w \in Workers, File(w) PROVE QueueTruthful'
  BY <1>3 DEF File, Write, Cross, Finish, Goto, QueueTruthful
<1>4. ASSUME NEW w \in Workers, NEW p \in Persons, NEW step \in {"approving", "rejecting"},
            Review(w, p, step) PROVE QueueTruthful'
  BY <1>4 DEF Review, Begin, Goto, QueueTruthful
<1>5. ASSUME NEW w \in Workers, Gate(w) PROVE QueueTruthful'
  BY <1>5 DEF Gate, Finish, Goto, QueueTruthful
<1>6. ASSUME NEW w \in Workers, Admit(w) PROVE QueueTruthful'
  BY <1>6 DEF Admit, Write, Cross, Finish, Goto, TypeOK, QueueTruthful
<1>7. ASSUME NEW w \in Workers, Reject(w) PROVE QueueTruthful'
  BY <1>7 DEF Reject, Write, Cross, Finish, Goto, JobsInv, QueueTruthful
<1>8. ASSUME NEW w \in Workers, Abort(w) PROVE QueueTruthful'
  BY <1>8 DEF Abort, Finish, Goto, QueueTruthful
<1>9. ASSUME NEW w \in Workers, NEW p \in Persons, NEW step \in {"leaving", "removing"},
            StartLeaving(w, p, step) PROVE QueueTruthful'
  BY <1>9 DEF StartLeaving, Begin, Goto, QueueTruthful
<1>10. ASSUME NEW w \in Workers, Leave(w) PROVE QueueTruthful'
  BY <1>10 DEF Leave, DropRow, Finish, Goto, QueueTruthful
<1>11. ASSUME NEW w \in Workers, DeleteAccount(w) PROVE QueueTruthful'
  BY <1>11 DEF DeleteAccount, DropRow, Unredeem, Finish, Goto, QueueTruthful
<1>12. ASSUME NEW w \in Workers, EraseRecords(w) PROVE QueueTruthful'
  BY <1>12 DEF EraseRecords, Unredeem, Goto, QueueTruthful
<1>13. ASSUME NEW w \in Workers, DeleteRow(w) PROVE QueueTruthful'
  BY <1>13 DEF DeleteRow, DropRow, Finish, Goto, QueueTruthful
<1>14. ASSUME NEW w \in Workers, NEW p \in Persons, StartRestoring(w, p)
       PROVE  QueueTruthful'
  BY <1>14 DEF StartRestoring, Begin, Goto, QueueTruthful
<1>15. ASSUME NEW w \in Workers, Restore(w) PROVE QueueTruthful'
  BY <1>15 DEF Restore, Finish, Goto, QueueTruthful
<1>16. ASSUME NEW p \in Persons, Archive(p) PROVE QueueTruthful'
  BY <1>16 DEF Archive, QueueTruthful
<1>17. ASSUME NEW p \in Persons, SetAdmin(p) PROVE QueueTruthful'
  BY <1>17 DEF SetAdmin, QueueTruthful
<1>18. ASSUME NEW l \in Links, Close(l) PROVE QueueTruthful'
  BY <1>18 DEF Close, QueueTruthful
<1>19. ASSUME ChangeLimit PROVE QueueTruthful'
  BY <1>19 DEF ChangeLimit, QueueTruthful
<1> QED
  BY <1>1, <1>2, <1>3, <1>4, <1>5, <1>6, <1>7, <1>8, <1>9, <1>10, <1>11, <1>12, <1>13,
     <1>14, <1>15, <1>16, <1>17, <1>18, <1>19 DEF Next, Submit, Decision, Depart, Return

\* Whoever passes the gate was shown fewer members than the limit.
LEMMA GateBound ==
  ASSUME TypeOK, SeatFree, NEW S \in SUBSET Whos
  PROVE  Cardinality(Active \cup S) <= peak - 1 + Cardinality(Workers)
<1>1. Active \in SUBSET Persons
  BY DEF Active
<1>2. Cardinality(Active \cup S) <= Cardinality(Active) + Cardinality(Workers)
  BY <1>1, Overshoot
<1>3. /\ Cardinality(Active) \in Nat /\ Cardinality(Workers) \in Nat
      /\ Cardinality(Active \cup S) \in Nat
  BY <1>1, FS_Subset, FS_CardinalityType, Overshoot, SetsAssumption
<1> QED
  BY <1>2, <1>3, LimitsAssumption DEF TypeOK, SeatFree

\* Whoever is about to file a request was shown room for it.
LEMMA RoomBound ==
  ASSUME NEW l \in Links, HasRoom(l), NEW S \in SUBSET Whos
  PROVE  Cardinality(Redeemers(l) \cup Queued(l) \cup S)
           <= Cap[l] - 1 + Cardinality(Workers)
<1> DEFINE R == Redeemers(l)
           Q == Queued(l)
<1>1. R \in SUBSET Persons /\ Q \in SUBSET Persons /\ R \cup Q \in SUBSET Persons
  BY DEF Redeemers, Queued
<1>2. IsFiniteSet(R) /\ IsFiniteSet(Q) /\ IsFiniteSet(R \cap Q) /\ IsFiniteSet(R \cup Q)
  BY <1>1, FS_Subset, SetsAssumption
<1>3. Cardinality(R \cup Q) = Cardinality(R) + Cardinality(Q) - Cardinality(R \cap Q)
  BY <1>2, FS_Union
<1>4. /\ IsFiniteSet((R \cup Q) \cup S)
      /\ Cardinality((R \cup Q) \cup S) <= Cardinality(R \cup Q) + Cardinality(Workers)
  BY <1>1, Overshoot
<1>5. /\ Cardinality(R) \in Nat /\ Cardinality(Q) \in Nat /\ Cardinality(R \cap Q) \in Nat
      /\ Cardinality(R \cup Q) \in Nat /\ Cardinality(Workers) \in Nat
      /\ Cardinality((R \cup Q) \cup S) \in Nat
  BY <1>2, <1>4, FS_CardinalityType, SetsAssumption
<1>6. Cardinality(R) + Cardinality(Q) < Cap[l]
  BY DEF HasRoom
<1> HIDE DEF R, Q
<1>7. Cardinality((R \cup Q) \cup S) <= Cap[l] - 1 + Cardinality(Workers)
  BY <1>3, <1>4, <1>5, <1>6, LimitsAssumption
<1> QED
  BY <1>7 DEF R, Q

\* The largest limit so far only grows.
LEMMA PeakGrows ==
  ASSUME TypeOK, Next
  PROVE  peak \in Int /\ peak' \in Int /\ peak <= peak'
<1>1. ASSUME NEW w \in Workers, Submit(w) PROVE peak' = peak
  BY <1>1 DEF Submit, Knock, Consider, File
<1>2. ASSUME NEW w \in Workers, Decision(w) PROVE peak' = peak
  BY <1>2 DEF Decision, Review, Gate, Admit, Reject
<1>3. ASSUME NEW w \in Workers, Depart(w) PROVE peak' = peak
  BY <1>3 DEF Depart, StartLeaving, Leave, DeleteAccount, EraseRecords, DeleteRow
<1>4. ASSUME NEW w \in Workers, Return(w) \/ Abort(w) PROVE peak' = peak
  BY <1>4 DEF Return, StartRestoring, Restore, Abort
<1>5. ASSUME NEW p \in Persons, Archive(p) \/ SetAdmin(p) PROVE peak' = peak
  BY <1>5 DEF Archive, SetAdmin
<1>6. ASSUME NEW l \in Links, Close(l) PROVE peak' = peak
  BY <1>6 DEF Close
<1>7. peak \in Int
  BY LimitsAssumption DEF TypeOK
<1>8. CASE ChangeLimit
  BY <1>7, <1>8, LimitsAssumption DEF ChangeLimit
<1>9. CASE peak' = peak
  BY <1>7, <1>9
<1> QED
  BY <1>1, <1>2, <1>3, <1>4, <1>5, <1>6, <1>8, <1>9 DEF Next

\* Nothing but passing the gate adds to the seats taken or promised, and whoever
\* passes it was shown fewer members than the limit.
LEMMA SeatsStep ==
  ASSUME TypeOK, JobsInv, SeatsInv, Next
  PROVE  SeatsInv'
<1>1. ASSUME NEW w \in Workers, NEW p \in Persons, NEW l \in Links, Knock(w, p, l)
      PROVE  Seats' \subseteq Seats \/ SeatsInv'
  BY <1>1 DEF Knock, Begin, Goto, Seats, Active, Coming
<1>2. ASSUME NEW w \in Workers, Consider(w) PROVE Seats' \subseteq Seats \/ SeatsInv'
  BY <1>2 DEF Consider, Finish, Goto, TypeOK, Seats, Active, Coming
<1>3. ASSUME NEW w \in Workers, File(w) PROVE Seats' \subseteq Seats \/ SeatsInv'
  BY <1>3 DEF File, Write, Cross, Finish, Goto, Seats, Active, Coming
<1>4. ASSUME NEW w \in Workers, NEW p \in Persons, NEW step \in {"approving", "rejecting"},
            Review(w, p, step) PROVE Seats' \subseteq Seats \/ SeatsInv'
  BY <1>4 DEF Review, Begin, Goto, Seats, Active, Coming
<1>5. ASSUME NEW w \in Workers, Gate(w) PROVE Seats' \subseteq Seats \/ SeatsInv'
  <2>1. CASE SeatFree /\ pc[w] = "approving"
    <3>1. pc' = [pc EXCEPT ![w] = "admitting"] /\ job' = job
      BY <1>5, <2>1 DEF Gate, Goto, TypeOK
    <3>2. Active' = Active /\ Coming' \subseteq Whos
      BY <1>5, <3>1 DEF Gate, Active, Coming, Whos
    <3> QED
      BY <1>5, <2>1, <3>2, GateBound DEF Gate, SeatsInv
  <2>2. CASE SeatFree /\ pc[w] = "restoring"
    <3>1. pc' = [pc EXCEPT ![w] = "returning"] /\ job' = job
      BY <1>5, <2>2 DEF Gate, Goto, TypeOK
    <3>2. Active' = Active /\ Coming' \subseteq Whos
      BY <1>5, <3>1 DEF Gate, Active, Coming, Whos
    <3> QED
      BY <1>5, <2>2, <3>2, GateBound DEF Gate, SeatsInv
  <2>3. CASE ~SeatFree
    BY <1>5, <2>3 DEF Gate, Finish, Goto, TypeOK, Seats, Active, Coming
  <2> QED
    BY <1>5, <2>1, <2>2, <2>3 DEF Gate
<1>6. ASSUME NEW w \in Workers, Admit(w) PROVE Seats' \subseteq Seats \/ SeatsInv'
  BY <1>6 DEF Admit, Write, Cross, Finish, Goto, TypeOK, Seats, Active, Coming
<1>7. ASSUME NEW w \in Workers, Reject(w) PROVE Seats' \subseteq Seats \/ SeatsInv'
  BY <1>7 DEF Reject, Write, Cross, Finish, Goto, Seats, Active, Coming
<1>8. ASSUME NEW w \in Workers, Abort(w) PROVE Seats' \subseteq Seats \/ SeatsInv'
  BY <1>8 DEF Abort, Finish, Goto, TypeOK, Seats, Active, Coming
<1>9. ASSUME NEW w \in Workers, NEW p \in Persons, NEW step \in {"leaving", "removing"},
            StartLeaving(w, p, step) PROVE Seats' \subseteq Seats \/ SeatsInv'
  BY <1>9 DEF StartLeaving, Begin, Goto, Seats, Active, Coming
<1>10. ASSUME NEW w \in Workers, Leave(w) PROVE Seats' \subseteq Seats \/ SeatsInv'
  BY <1>10 DEF Leave, DropRow, Finish, Goto, Seats, Active, Coming
<1>11. ASSUME NEW w \in Workers, DeleteAccount(w) PROVE Seats' \subseteq Seats \/ SeatsInv'
  BY <1>11 DEF DeleteAccount, DropRow, Unredeem, Finish, Goto, Seats, Active, Coming
<1>12. ASSUME NEW w \in Workers, EraseRecords(w) PROVE Seats' \subseteq Seats \/ SeatsInv'
  BY <1>12 DEF EraseRecords, Unredeem, Goto, Seats, Active, Coming
<1>13. ASSUME NEW w \in Workers, DeleteRow(w) PROVE Seats' \subseteq Seats \/ SeatsInv'
  BY <1>13 DEF DeleteRow, DropRow, Finish, Goto, Seats, Active, Coming
<1>14. ASSUME NEW w \in Workers, NEW p \in Persons, StartRestoring(w, p)
       PROVE  Seats' \subseteq Seats \/ SeatsInv'
  <2>1. /\ job' = [job EXCEPT ![w] = On(p)] /\ On(p).who = p /\ roster' = roster
        /\ pc' = [pc EXCEPT ![w] = IF Ungated(p) THEN "returning" ELSE "restoring"]
    BY <1>14 DEF StartRestoring, Begin, Goto, On
  <2>2. Ungated(p) => p \in Active \/ roster[p] = "out"
    BY DEF Ungated, Active, TypeOK, Standing
  <2>3. \A v \in Workers \ {w} : pc'[v] = pc[v] /\ job'[v] = job[v]
    BY <2>1
  <2>4. /\ job'[w].who = p /\ pc'[w] # "admitting"
        /\ pc'[w] = "returning" /\ roster[p] # "out" => p \in Active
    BY <2>1, <2>2 DEF TypeOK
  <2>5. Active' = Active
    BY <2>1 DEF Active
  <2> QED
    BY <2>1, <2>3, <2>4, <2>5 DEF Seats, Coming
<1>15. ASSUME NEW w \in Workers, Restore(w) PROVE Seats' \subseteq Seats \/ SeatsInv'
  BY <1>15 DEF Restore, Finish, Goto, TypeOK, Seats, Active, Coming
<1>16. ASSUME NEW p \in Persons, Archive(p) PROVE Seats' \subseteq Seats \/ SeatsInv'
  BY <1>16 DEF Archive, Seats, Active, Coming
<1>17. ASSUME NEW p \in Persons, SetAdmin(p) PROVE Seats' \subseteq Seats \/ SeatsInv'
  BY <1>17 DEF SetAdmin, Seats, Active, Coming
<1>18. ASSUME NEW l \in Links, Close(l) PROVE Seats' \subseteq Seats \/ SeatsInv'
  BY <1>18 DEF Close, Seats, Active, Coming
<1>19. ASSUME ChangeLimit PROVE Seats' \subseteq Seats \/ SeatsInv'
  BY <1>19 DEF ChangeLimit, Seats, Active, Coming
<1>20. Seats' \subseteq Seats \/ SeatsInv'
  BY <1>1, <1>2, <1>3, <1>4, <1>5, <1>6, <1>7, <1>8, <1>9, <1>10, <1>11, <1>12, <1>13,
     <1>14, <1>15, <1>16, <1>17, <1>18, <1>19 DEF Next, Submit, Decision, Depart, Return
<1>21. Seats \in SUBSET Persons /\ peak \in Int /\ peak' \in Int /\ peak <= peak'
  BY PeakGrows DEF Seats, Active, Coming
<1> QED
  BY <1>20, <1>21, Shrinks DEF SeatsInv, Seats

\* The same of a link: only a new request adds to the places taken or asked for.
LEMMA LinksStep ==
  ASSUME TypeOK, JobsInv, RequestsInv, LinksInv, Next
  PROVE  LinksInv'
<1> SUFFICES ASSUME NEW k \in Links
             PROVE  Cardinality(Places(k)') <= Cap[k] - 1 + Cardinality(Workers)
  BY DEF LinksInv, Places
<1>1. ASSUME NEW w \in Workers, NEW p \in Persons, NEW l \in Links, Knock(w, p, l)
      PROVE  \/ Places(k)' \subseteq Places(k)
             \/ Cardinality(Places(k)') <= Cap[k] - 1 + Cardinality(Workers)
  BY <1>1 DEF Knock, Begin, Goto, Places, Redeemers, Queued, Heading
<1>2. ASSUME NEW w \in Workers, Consider(w)
      PROVE  \/ Places(k)' \subseteq Places(k)
             \/ Cardinality(Places(k)') <= Cap[k] - 1 + Cardinality(Workers)
  <2>1. CASE pc'[w] = "filing" /\ job'[w].link = k
    <3>1. /\ pc[w] = "asked" /\ job[w] \in Job /\ MayFile(requests[job[w].who], job[w].link)
          /\ HasRoom(job[w].link) /\ job' = [job EXCEPT ![w].seen = requests[job[w].who]]
      BY <1>2, <2>1 DEF Consider, Finish, Goto, TypeOK
    <3>2. /\ job'[w].who = job[w].who /\ job'[w].link = job[w].link
          /\ \A v \in Workers \ {w} : job'[v] = job[v]
      BY <3>1
    <3>3. HasRoom(k) /\ Heading(k)' \subseteq Whos
      BY <2>1, <3>1, <3>2 DEF Heading, Whos
    <3>4. Redeemers(k)' = Redeemers(k) /\ Queued(k)' = Queued(k)
      BY <1>2 DEF Consider, Redeemers, Queued
    <3> QED
      BY <3>3, <3>4, RoomBound DEF Places
  <2>2. CASE ~(pc'[w] = "filing" /\ job'[w].link = k)
    <3>1. Redeemers(k)' = Redeemers(k) /\ Queued(k)' = Queued(k)
      BY <1>2 DEF Consider, Redeemers, Queued
    <3>2. \A v \in Workers \ {w} : pc'[v] = pc[v] /\ job'[v] = job[v]
      BY <1>2 DEF Consider, Finish, Goto, TypeOK
    <3>3. pc'[w] \in {"idle", "filing"}
      BY <1>2 DEF Consider, Finish, Goto, TypeOK
    <3> QED
      BY <2>2, <3>1, <3>2, <3>3 DEF Places, Heading
  <2> QED
    BY <2>1, <2>2
<1>3. ASSUME NEW w \in Workers, File(w)
      PROVE  \/ Places(k)' \subseteq Places(k)
             \/ Cardinality(Places(k)') <= Cap[k] - 1 + Cardinality(Workers)
  BY <1>3 DEF File, Write, Cross, Finish, Goto, TypeOK, Places, Redeemers, Queued, Heading
<1>4. ASSUME NEW w \in Workers, NEW p \in Persons, NEW step \in {"approving", "rejecting"},
            Review(w, p, step)
      PROVE  \/ Places(k)' \subseteq Places(k)
             \/ Cardinality(Places(k)') <= Cap[k] - 1 + Cardinality(Workers)
  BY <1>4
     DEF Review, Begin, On, Goto, TypeOK, Request, Undecided, Places, Redeemers, Queued,
         Heading
<1>5. ASSUME NEW w \in Workers, Gate(w)
      PROVE  \/ Places(k)' \subseteq Places(k)
             \/ Cardinality(Places(k)') <= Cap[k] - 1 + Cardinality(Workers)
  BY <1>5 DEF Gate, Finish, Goto, TypeOK, Places, Redeemers, Queued, Heading
<1>6. ASSUME NEW w \in Workers, Admit(w)
      PROVE  \/ Places(k)' \subseteq Places(k)
             \/ Cardinality(Places(k)') <= Cap[k] - 1 + Cardinality(Workers)
  BY <1>6 DEF Admit, Write, Cross, Finish, Goto, TypeOK, Places, Redeemers, Queued, Heading
<1>7. ASSUME NEW w \in Workers, Reject(w)
      PROVE  \/ Places(k)' \subseteq Places(k)
             \/ Cardinality(Places(k)') <= Cap[k] - 1 + Cardinality(Workers)
  BY <1>7 DEF Reject, Write, Cross, Finish, Goto, Places, Redeemers, Queued, Heading
<1>8. ASSUME NEW w \in Workers, Abort(w)
      PROVE  \/ Places(k)' \subseteq Places(k)
             \/ Cardinality(Places(k)') <= Cap[k] - 1 + Cardinality(Workers)
  BY <1>8 DEF Abort, Finish, Goto, TypeOK, Places, Redeemers, Queued, Heading
<1>9. ASSUME NEW w \in Workers, NEW p \in Persons, NEW step \in {"leaving", "removing"},
            StartLeaving(w, p, step)
      PROVE  \/ Places(k)' \subseteq Places(k)
             \/ Cardinality(Places(k)') <= Cap[k] - 1 + Cardinality(Workers)
  BY <1>9 DEF StartLeaving, Begin, Goto, Places, Redeemers, Queued, Heading
<1>10. ASSUME NEW w \in Workers, Leave(w)
      PROVE  \/ Places(k)' \subseteq Places(k)
             \/ Cardinality(Places(k)') <= Cap[k] - 1 + Cardinality(Workers)
  BY <1>10 DEF Leave, DropRow, Finish, Goto, Places, Redeemers, Queued, Heading
<1>11. ASSUME NEW w \in Workers, DeleteAccount(w)
      PROVE  \/ Places(k)' \subseteq Places(k)
             \/ Cardinality(Places(k)') <= Cap[k] - 1 + Cardinality(Workers)
  BY <1>11
     DEF DeleteAccount, DropRow, Unredeem, Finish, Goto, Places, Redeemers, Queued, Heading
<1>12. ASSUME NEW w \in Workers, EraseRecords(w)
      PROVE  \/ Places(k)' \subseteq Places(k)
             \/ Cardinality(Places(k)') <= Cap[k] - 1 + Cardinality(Workers)
  BY <1>12 DEF EraseRecords, Unredeem, Goto, Places, Redeemers, Queued, Heading
<1>13. ASSUME NEW w \in Workers, DeleteRow(w)
      PROVE  \/ Places(k)' \subseteq Places(k)
             \/ Cardinality(Places(k)') <= Cap[k] - 1 + Cardinality(Workers)
  BY <1>13 DEF DeleteRow, DropRow, Finish, Goto, Places, Redeemers, Queued, Heading
<1>14. ASSUME NEW w \in Workers, NEW p \in Persons, StartRestoring(w, p)
      PROVE  \/ Places(k)' \subseteq Places(k)
             \/ Cardinality(Places(k)') <= Cap[k] - 1 + Cardinality(Workers)
  BY <1>14 DEF StartRestoring, Begin, Goto, Places, Redeemers, Queued, Heading
<1>15. ASSUME NEW w \in Workers, Restore(w)
      PROVE  \/ Places(k)' \subseteq Places(k)
             \/ Cardinality(Places(k)') <= Cap[k] - 1 + Cardinality(Workers)
  BY <1>15 DEF Restore, Finish, Goto, Places, Redeemers, Queued, Heading
<1>16. ASSUME NEW p \in Persons, Archive(p)
      PROVE  \/ Places(k)' \subseteq Places(k)
             \/ Cardinality(Places(k)') <= Cap[k] - 1 + Cardinality(Workers)
  BY <1>16 DEF Archive, Places, Redeemers, Queued, Heading
<1>17. ASSUME NEW p \in Persons, SetAdmin(p)
      PROVE  \/ Places(k)' \subseteq Places(k)
             \/ Cardinality(Places(k)') <= Cap[k] - 1 + Cardinality(Workers)
  BY <1>17 DEF SetAdmin, Places, Redeemers, Queued, Heading
<1>18. ASSUME NEW l \in Links, Close(l)
      PROVE  \/ Places(k)' \subseteq Places(k)
             \/ Cardinality(Places(k)') <= Cap[k] - 1 + Cardinality(Workers)
  BY <1>18 DEF Close, Places, Redeemers, Queued, Heading
<1>19. ASSUME ChangeLimit
      PROVE  \/ Places(k)' \subseteq Places(k)
             \/ Cardinality(Places(k)') <= Cap[k] - 1 + Cardinality(Workers)
  BY <1>19 DEF ChangeLimit, Places, Redeemers, Queued, Heading
<1>20. \/ Places(k)' \subseteq Places(k)
      \/ Cardinality(Places(k)') <= Cap[k] - 1 + Cardinality(Workers)
  BY <1>1, <1>2, <1>3, <1>4, <1>5, <1>6, <1>7, <1>8, <1>9, <1>10, <1>11, <1>12, <1>13,
     <1>14, <1>15, <1>16, <1>17, <1>18, <1>19 DEF Next, Submit, Decision, Depart, Return
<1>21. Places(k) \in SUBSET Persons /\ Cap[k] \in Int
  BY LimitsAssumption DEF Places, Redeemers, Queued, Heading
<1>22. Cardinality(Places(k)) <= Cap[k] - 1 + Cardinality(Workers)
  BY DEF LinksInv, Places
<1> HIDE DEF Places
<1> QED
  BY <1>20, <1>21, <1>22, Shrinks

LEMMA IInvStep == IInv /\ [Next]_vars => IInv'
<1> SUFFICES ASSUME IInv, [Next]_vars PROVE IInv'
  OBVIOUS
<1>1. CASE Next
  BY <1>1, TypeStep, JobsStep, SeatsStep, LinksStep, QueueStep DEF IInv
<1>2. CASE UNCHANGED vars
  BY <1>2
     DEF vars, IInv, TypeOK, JobsInv, RequestsInv, SeatsInv, LinksInv, QueueTruthful,
         Active,
     Coming, Redeemers, Queued, Heading
<1> QED
  BY <1>1, <1>2

(***************************************************************************)
(* The invariant holds whatever the handlers do.                           *)
(***************************************************************************)
THEOREM Inductive == Spec => []IInv
<1> QED
  BY InitIInv, IInvStep, PTL DEF Spec

(***************************************************************************)
(* Every reachable state is well typed: in particular every decided or     *)
(* waiting request came through a link, and every redemption is of one.    *)
(***************************************************************************)
THEOREM TypeCorrect == Spec => []TypeOK
<1>1. IInv => TypeOK
  BY DEF IInv
<1> QED
  BY <1>1, Inductive, PTL

(***************************************************************************)
(* guard.ts counts the members and lets its caller add one later: with n   *)
(* handlers the chapter never has more than n - 1 members too many, of the *)
(* largest limit it ever had.                                              *)
(***************************************************************************)
THEOREM SeatsBoundedAlways == Spec => []SeatsBounded
<1>1. IInv => SeatsBounded
  <2> SUFFICES ASSUME IInv PROVE SeatsBounded
    OBVIOUS
  <2>1. Seats \in SUBSET Persons /\ Active \in SUBSET Seats /\ peak \in Int
    BY LimitsAssumption DEF Seats, Active, Coming, IInv, TypeOK
  <2> QED
    BY <2>1, Shrinks DEF IInv, SeatsInv, SeatsBounded, Seats
<1> QED
  BY <1>1, Inductive, PTL

(***************************************************************************)
(* join-request-submit.ts calls the cap of a link soft, because the count  *)
(* is read before the request is filed: with n handlers a link lets in or  *)
(* queues at most n - 1 people too many.                                   *)
(***************************************************************************)
THEOREM LinkBoundedAlways == Spec => []LinkBounded
<1>1. IInv => LinkBounded
  <2> SUFFICES ASSUME IInv, NEW l \in Links
               PROVE  Cardinality(Redeemers(l) \cup Queued(l))
                        <= Cap[l] - 1 + Cardinality(Workers)
    BY DEF LinkBounded
  <2>1. /\ Places(l) \in SUBSET Persons /\ Redeemers(l) \cup Queued(l) \in SUBSET Places(l)
        /\ Cap[l] \in Int
    BY LimitsAssumption DEF Places, Redeemers, Queued, Heading
  <2>2. Cardinality(Places(l)) <= Cap[l] - 1 + Cardinality(Workers)
    BY DEF IInv, LinksInv, Places
  <2> QED
    BY <2>1, <2>2, Shrinks
<1> QED
  BY <1>1, Inductive, PTL

(***************************************************************************)
(* Whoever waits or was turned down is not a member, unless a decision on  *)
(* that person was overtaken by another.                                   *)
(***************************************************************************)
THEOREM QueueTruthfulAlways == Spec => []QueueTruthful
<1>1. IInv => QueueTruthful
  BY DEF IInv
<1> QED
  BY <1>1, Inductive, PTL

=============================================================================
