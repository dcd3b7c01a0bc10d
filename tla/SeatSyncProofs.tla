--------------------------- MODULE SeatSyncProofs ---------------------------
(***************************************************************************)
(* Theorems about SeatSync for any number of handlers, any roster sizes    *)
(* and any number of changes and checkouts.  IInv is inductive.  Its last  *)
(* conjunct, Soon, is taken apart into the three things it says, each in a *)
(* history without mishaps: the headcount of the row is right or being     *)
(* recounted, the row knows what Stripe has or is being told, and what     *)
(* Stripe has is right, flagged, or about to be.                           *)
(***************************************************************************)
EXTENDS SeatSync, TLAPS

Billed == row.billable \in {None, members} \/ RecountComing
Known == Paying => row.synced = stripe.quantity \/ RecordComing
Owed == Paying => \/ stripe.quantity = members \/ row.pending
                  \/ RecountComing \/ RecordComing

\* What stands for "nothing remembered" and "no subscription" is well-typed.
LEMMA NullJobType == NoJob \in Job /\ NoStripe \in Stripe
BY DEF NoJob, NoStripe, Job, Stripe, Maybe

\* The three parts make up Soon.
LEMMA SoonParts == Soon <=> (mishaps = {} => Billed /\ Known /\ Owed)
BY DEF Soon, Billed, Known, Owed

\* A chapter that starts with nothing, or in step, satisfies the invariant.
LEMMA InitIInv == Init => IInv
<1> SUFFICES ASSUME Init PROVE IInv
  OBVIOUS
<1>1. TypeOK
  BY NullJobType, SubscribedAssumption
  DEF Init, TypeOK, Row, Stripe, Maybe, Steps, Mishaps, NoStripe
<1>2. JobsInv /\ RowInv
  BY CountsAssumption, SubscribedAssumption DEF Init, JobsInv, RowInv, Counted, NoStripe
<1>3. Soon
  BY SubscribedAssumption DEF Init, Soon, Paying
<1> QED
  BY <1>1, <1>2, <1>3 DEF IInv

\* Every step keeps the types.
LEMMA TypeStep ==
  ASSUME TypeOK, JobsInv, RowInv, Next
  PROVE  TypeOK'
<1>1. ASSUME NEW n \in Counts, Change(n) PROVE TypeOK'
  BY <1>1 DEF Change, TypeOK
<1>2. ASSUME Drop PROVE TypeOK'
  BY <1>2 DEF Drop, Mishap, TypeOK, Mishaps
<1>3. ASSUME NEW w \in Workers, Dispatch(w) PROVE TypeOK'
  BY <1>3, NullJobType
     DEF Dispatch, Begin, Committed, Goto, TypeOK, Job, Maybe, Steps
<1>4. ASSUME NEW w \in Workers, Recount(w) PROVE TypeOK'
  BY <1>4, NullJobType DEF Recount, Begin, Goto, TypeOK, Job, Maybe, Steps
<1>5. ASSUME NEW w \in Workers, ReadRow(w) PROVE TypeOK'
  BY <1>5 DEF ReadRow, Goto, TypeOK, Steps
<1>6. ASSUME NEW w \in Workers, WriteLocal(w) PROVE TypeOK'
  <2>1. row' \in Row
    <3>1. job[w].count \in Counts /\ Flag(w) \in BOOLEAN
      BY <1>6 DEF WriteLocal, Flag, JobsInv, Counted
    <3> QED
      BY <1>6, <3>1 DEF WriteLocal, TypeOK, Row, Maybe
  <2>2. pc' \in [Workers -> Steps]
    BY <1>6 DEF WriteLocal, Finish, Goto, TypeOK, Steps
  <2>3. job' \in [Workers -> Job]
    BY <1>6, NullJobType DEF WriteLocal, Finish, Goto, TypeOK
  <2>4. mishaps' \subseteq Mishaps
    BY <1>6 DEF WriteLocal, Mishap, TypeOK, Mishaps
  <2> QED
    BY <1>6, <2>1, <2>2, <2>3, <2>4 DEF WriteLocal, TypeOK
<1>7. ASSUME NEW w \in Workers, Push(w) PROVE TypeOK'
  BY <1>7
     DEF Push, Mishap, Goto, TypeOK, JobsInv, Stripe, Maybe, Steps, Mishaps, Counted
<1>8. ASSUME NEW w \in Workers, PushFails(w) PROVE TypeOK'
  BY <1>8, NullJobType
     DEF PushFails, Finish, Mishap, Goto, TypeOK, JobsInv, Stripe, Maybe, Steps, Mishaps,
         Counted
<1>9. ASSUME NEW w \in Workers, WriteSynced(w) PROVE TypeOK'
  BY <1>9, NullJobType
     DEF WriteSynced, Recorded, Finish, Mishap, Goto, TypeOK, JobsInv, Row, Maybe, Steps,
         Mishaps, Counted
<1>10. ASSUME NEW w \in Workers, Die(w) PROVE TypeOK'
  BY <1>10, NullJobType
     DEF Die, Finish, Mishap, Goto, TypeOK, Steps, Mishaps
<1>11. ASSUME NEW w \in Workers, Retrieve(w) PROVE TypeOK'
  BY <1>11, NullJobType DEF Retrieve, Begin, Goto, TypeOK, Job, Steps
<1>12. ASSUME NEW w \in Workers, Apply(w) PROVE TypeOK'
  BY <1>12, NullJobType
     DEF Apply, Pulled, Finish, Mishap, Goto, TypeOK, JobsInv, Row, Maybe, Steps, Mishaps
<1>13. ASSUME NEW w \in Workers, StartCheckout(w) PROVE TypeOK'
  BY <1>13, NullJobType
     DEF StartCheckout, Begin, Goto, TypeOK, Job, Maybe, Steps
<1>14. ASSUME NEW w \in Workers, OpenSession(w) PROVE TypeOK'
  BY <1>14
     DEF OpenSession, Goto, TypeOK, JobsInv, Steps, Counted
<1>15. ASSUME NEW w \in Workers, RefuseCheckout(w) PROVE TypeOK'
  BY <1>15, NullJobType DEF RefuseCheckout, Finish, Goto, TypeOK, Steps
<1>16. ASSUME NEW w \in Workers, RecordCheckout(w) PROVE TypeOK'
  BY <1>16, NullJobType
     DEF RecordCheckout, Finish, Mishap, Goto, TypeOK, JobsInv, Row, Maybe, Steps, Mishaps,
         Counted
<1>17. ASSUME NEW n \in Counts, Subscribe(n) PROVE TypeOK'
  BY <1>17 DEF Subscribe, TypeOK, Stripe, Maybe
<1>18. ASSUME End PROVE TypeOK'
  BY <1>18 DEF End, TypeOK, Stripe
<1> QED
  BY <1>1, <1>2, <1>3, <1>4, <1>5, <1>6, <1>7, <1>8, <1>9, <1>10, <1>11, <1>12, <1>13,
     <1>14, <1>15, <1>16, <1>17, <1>18 DEF Next, Handler, Reconcile, Pull, Checkout

\* Every step keeps what handlers remember meaningful.
LEMMA JobsStep ==
  ASSUME TypeOK, JobsInv, RowInv, Next
  PROVE  JobsInv'
<1>1. ASSUME NEW n \in Counts, Change(n) PROVE JobsInv'
  BY <1>1 DEF Change, JobsInv
<1>2. ASSUME Drop PROVE JobsInv'
  BY <1>2 DEF Drop, JobsInv
<1>3. ASSUME NEW w \in Workers, Dispatch(w) PROVE JobsInv'
  BY <1>3 DEF Dispatch, Begin, Goto, TypeOK, JobsInv
<1>4. ASSUME NEW w \in Workers, Recount(w) PROVE JobsInv'
  BY <1>4 DEF Recount, Begin, Goto, TypeOK, JobsInv
<1>5. ASSUME NEW w \in Workers, ReadRow(w) PROVE JobsInv'
  BY <1>5 DEF ReadRow, Goto, JobsInv, Counted
<1>6. ASSUME NEW w \in Workers, WriteLocal(w) PROVE JobsInv'
  BY <1>6 DEF WriteLocal, Finish, Goto, TypeOK, JobsInv, Counted
<1>7. ASSUME NEW w \in Workers, Push(w) PROVE JobsInv'
  BY <1>7 DEF Push, Goto, JobsInv, Counted
<1>8. ASSUME NEW w \in Workers, PushFails(w) PROVE JobsInv'
  <2>1. stripe'.state = stripe.state
    BY <1>8 DEF PushFails, TypeOK, Stripe
  <2>2. pc' = [pc EXCEPT ![w] = "idle"] /\ job' = [job EXCEPT ![w] = NoJob]
    BY <1>8 DEF PushFails, Finish, Goto
  <2> QED
    BY <2>1, <2>2 DEF TypeOK, JobsInv, Counted
<1>9. ASSUME NEW w \in Workers, WriteSynced(w) PROVE JobsInv'
  BY <1>9 DEF WriteSynced, Finish, Goto, TypeOK, JobsInv, Counted
<1>10. ASSUME NEW w \in Workers, Die(w) PROVE JobsInv'
  BY <1>10 DEF Die, Finish, Goto, TypeOK, JobsInv, Counted
<1>11. ASSUME NEW w \in Workers, Retrieve(w) PROVE JobsInv'
  BY <1>11 DEF Retrieve, Begin, Goto, TypeOK, JobsInv, RowInv, Counted
<1>12. ASSUME NEW w \in Workers, Apply(w) PROVE JobsInv'
  BY <1>12 DEF Apply, Finish, Goto, TypeOK, JobsInv, Counted
<1>13. ASSUME NEW w \in Workers, StartCheckout(w) PROVE JobsInv'
  BY <1>13 DEF StartCheckout, Begin, Goto, TypeOK, JobsInv
<1>14. ASSUME NEW w \in Workers, OpenSession(w) PROVE JobsInv'
  BY <1>14 DEF OpenSession, Goto, JobsInv, Counted
<1>15. ASSUME NEW w \in Workers, RefuseCheckout(w) PROVE JobsInv'
  BY <1>15 DEF RefuseCheckout, Finish, Goto, TypeOK, JobsInv, Counted
<1>16. ASSUME NEW w \in Workers, RecordCheckout(w) PROVE JobsInv'
  BY <1>16 DEF RecordCheckout, Finish, Goto, TypeOK, JobsInv, Counted
<1>17. ASSUME NEW n \in Counts, Subscribe(n) PROVE JobsInv'
  BY <1>17 DEF Subscribe, JobsInv
<1>18. ASSUME End PROVE JobsInv'
  BY <1>18 DEF End, JobsInv
<1> QED
  BY <1>1, <1>2, <1>3, <1>4, <1>5, <1>6, <1>7, <1>8, <1>9, <1>10, <1>11, <1>12, <1>13,
     <1>14, <1>15, <1>16, <1>17, <1>18 DEF Next, Handler, Reconcile, Pull, Checkout

\* Every step keeps the row behind the subscription: no item before there is one.
LEMMA RowStep ==
  ASSUME TypeOK, JobsInv, RowInv, Next
  PROVE  RowInv'
<1>1. ASSUME NEW n \in Counts, Change(n) PROVE RowInv'
  BY <1>1 DEF Change, RowInv
<1>2. ASSUME Drop PROVE RowInv'
  BY <1>2 DEF Drop, RowInv
<1>3. ASSUME NEW w \in Workers, Dispatch(w) PROVE RowInv'
  BY <1>3 DEF Dispatch, Begin, Goto, RowInv
<1>4. ASSUME NEW w \in Workers, Recount(w) PROVE RowInv'
  BY <1>4 DEF Recount, Begin, Goto, RowInv
<1>5. ASSUME NEW w \in Workers, ReadRow(w) PROVE RowInv'
  BY <1>5 DEF ReadRow, Goto, RowInv
<1>6. ASSUME NEW w \in Workers, WriteLocal(w) PROVE RowInv'
  <2>1. job[w].count # None
    BY <1>6, CountsAssumption DEF WriteLocal, JobsInv, Counted
  <2> QED
    BY <1>6, <2>1 DEF WriteLocal, RowInv
<1>7. ASSUME NEW w \in Workers, Push(w) PROVE RowInv'
  BY <1>7 DEF Push, Goto, JobsInv, RowInv, Counted
<1>8. ASSUME NEW w \in Workers, PushFails(w) PROVE RowInv'
  BY <1>8 DEF PushFails, Goto, TypeOK, JobsInv, RowInv, Counted, Stripe
<1>9. ASSUME NEW w \in Workers, WriteSynced(w) PROVE RowInv'
  BY <1>9, CountsAssumption DEF WriteSynced, Recorded, Goto, JobsInv, RowInv, Counted
<1>10. ASSUME NEW w \in Workers, Die(w) PROVE RowInv'
  BY <1>10 DEF Die, Goto, RowInv
<1>11. ASSUME NEW w \in Workers, Retrieve(w) PROVE RowInv'
  BY <1>11 DEF Retrieve, Begin, Goto, RowInv
<1>12. ASSUME NEW w \in Workers, Apply(w) PROVE RowInv'
  BY <1>12, CountsAssumption DEF Apply, Pulled, Goto, JobsInv, RowInv
<1>13. ASSUME NEW w \in Workers, StartCheckout(w) PROVE RowInv'
  BY <1>13 DEF StartCheckout, Begin, Goto, RowInv
<1>14. ASSUME NEW w \in Workers, OpenSession(w) PROVE RowInv'
  BY <1>14 DEF OpenSession, Goto, RowInv
<1>15. ASSUME NEW w \in Workers, RefuseCheckout(w) PROVE RowInv'
  BY <1>15 DEF RefuseCheckout, Goto, RowInv
<1>16. ASSUME NEW w \in Workers, RecordCheckout(w) PROVE RowInv'
  BY <1>16, CountsAssumption DEF RecordCheckout, Goto, JobsInv, RowInv, Counted
<1>17. ASSUME NEW n \in Counts, Subscribe(n) PROVE RowInv'
  BY <1>17 DEF Subscribe, RowInv
<1>18. ASSUME End PROVE RowInv'
  BY <1>18 DEF End, RowInv
<1> QED
  BY <1>1, <1>2, <1>3, <1>4, <1>5, <1>6, <1>7, <1>8, <1>9, <1>10, <1>11, <1>12, <1>13,
     <1>14, <1>15, <1>16, <1>17, <1>18 DEF Next, Handler, Reconcile, Pull, Checkout

\* A history that has had no mishap after a step had none before it.
LEMMA MishapsStay ==
  ASSUME Next, mishaps' = {} PROVE mishaps = {}
BY DEF Next, Handler, Reconcile, Pull, Checkout, Change, Drop, Dispatch, Recount, ReadRow,
       WriteLocal, Push, PushFails, WriteSynced, Die, Retrieve, Apply, StartCheckout,
       OpenSession, RefuseCheckout, RecordCheckout, Subscribe, End, Mishap

\* A handler that writes a headcount wrote today's, or another one is to be told.
LEMMA BilledStep ==
  ASSUME TypeOK, JobsInv, RowInv, Billed, Known, Owed, mishaps = {}, mishaps' = {}, Next
  PROVE  Billed'
<1>1. ASSUME NEW n \in Counts, Change(n) PROVE Billed'
  BY <1>1 DEF Change, Billed, RecountComing, TypeOK
<1>2. ASSUME Drop PROVE Billed'
  BY <1>2 DEF Drop, Mishap, Billed, RecountComing
<1>3. ASSUME NEW w \in Workers, Dispatch(w) PROVE Billed'
  BY <1>3 DEF Dispatch, Begin, Goto, Billed, RecountComing, TypeOK, Unwritten
<1>4. ASSUME NEW w \in Workers, Recount(w) PROVE Billed'
  BY <1>4 DEF Recount, Begin, Goto, Billed, RecountComing, Unwritten
<1>5. ASSUME NEW w \in Workers, ReadRow(w) PROVE Billed'
  BY <1>5 DEF ReadRow, Goto, Billed, RecountComing, Unwritten
<1>6. ASSUME NEW w \in Workers, WriteLocal(w) PROVE Billed'
  <2>1. row'.billable = job[w].count
    BY <1>6 DEF WriteLocal
  <2>2. job[w].count = members \/ todo > 0
    BY <1>6 DEF WriteLocal, Mishap, CountIsStale, TypeOK
  <2> QED
    BY <1>6, <2>1, <2>2 DEF WriteLocal, Billed, RecountComing
<1>7. ASSUME NEW w \in Workers, Push(w) PROVE Billed'
  BY <1>7 DEF Push, Goto, Billed, RecountComing, Unwritten
<1>8. ASSUME NEW w \in Workers, PushFails(w) PROVE Billed'
  BY <1>8 DEF PushFails, Finish, Goto, Billed, RecountComing, Unwritten
<1>9. ASSUME NEW w \in Workers, WriteSynced(w) PROVE Billed'
  <2>1. row'.billable = job[w].count
    BY <1>9 DEF WriteSynced, Recorded
  <2>2. job[w].count = members \/ todo > 0
    BY <1>9 DEF WriteSynced, Mishap, CountIsStale, TypeOK
  <2> QED
    BY <1>9, <2>1, <2>2 DEF WriteSynced, Billed, RecountComing
<1>10. ASSUME NEW w \in Workers, Die(w) PROVE Billed'
  BY <1>10 DEF Die, Finish, Mishap, Goto, Billed, RecountComing, Unwritten
<1>11. ASSUME NEW w \in Workers, Retrieve(w) PROVE Billed'
  BY <1>11 DEF Retrieve, Begin, Goto, Billed, RecountComing, Unwritten
<1>12. ASSUME NEW w \in Workers, Apply(w) PROVE Billed'
  BY <1>12 DEF Apply, Pulled, Finish, Mishap, Goto, Billed, RecountComing, RowInv, Unwritten
<1>13. ASSUME NEW w \in Workers, StartCheckout(w) PROVE Billed'
  BY <1>13 DEF StartCheckout, Begin, Goto, Billed, RecountComing, Unwritten
<1>14. ASSUME NEW w \in Workers, OpenSession(w) PROVE Billed'
  BY <1>14 DEF OpenSession, Goto, Billed, RecountComing, Unwritten
<1>15. ASSUME NEW w \in Workers, RefuseCheckout(w) PROVE Billed'
  BY <1>15 DEF RefuseCheckout, Finish, Goto, Billed, RecountComing, Unwritten
<1>16. ASSUME NEW w \in Workers, RecordCheckout(w) PROVE Billed'
  <2>1. row'.billable = job[w].count
    BY <1>16 DEF RecordCheckout
  <2>2. job[w].count = members \/ todo > 0
    BY <1>16 DEF RecordCheckout, Mishap, CountIsStale, TypeOK
  <2> QED
    BY <1>16, <2>1, <2>2 DEF RecordCheckout, Billed, RecountComing
<1>17. ASSUME NEW n \in Counts, Subscribe(n) PROVE Billed'
  BY <1>17 DEF Subscribe, Billed, RecountComing
<1>18. ASSUME End PROVE Billed'
  BY <1>18 DEF End, Billed, RecountComing
<1> QED
  BY <1>1, <1>2, <1>3, <1>4, <1>5, <1>6, <1>7, <1>8, <1>9, <1>10, <1>11, <1>12, <1>13,
     <1>14, <1>15, <1>16, <1>17, <1>18 DEF Next, Handler, Reconcile, Pull, Checkout

\* Whoever changes the quantity at Stripe goes on to record it.
LEMMA KnownStep ==
  ASSUME TypeOK, JobsInv, RowInv, Billed, Known, Owed, mishaps = {}, mishaps' = {}, Next
  PROVE  Known'
<1>1. ASSUME NEW n \in Counts, Change(n) PROVE Known'
  BY <1>1 DEF Change, Known, RecordComing, Paying
<1>2. ASSUME Drop PROVE Known'
  BY <1>2 DEF Drop, Known, RecordComing, Paying
<1>3. ASSUME NEW w \in Workers, Dispatch(w) PROVE Known'
  BY <1>3 DEF Dispatch, Begin, Goto, Known, RecordComing, Paying
<1>4. ASSUME NEW w \in Workers, Recount(w) PROVE Known'
  BY <1>4 DEF Recount, Begin, Goto, Known, RecordComing, Paying
<1>5. ASSUME NEW w \in Workers, ReadRow(w) PROVE Known'
  BY <1>5 DEF ReadRow, Goto, Known, RecordComing, Paying
<1>6. ASSUME NEW w \in Workers, WriteLocal(w) PROVE Known'
  BY <1>6 DEF WriteLocal, Finish, Goto, Known, RecordComing, Paying, TypeOK
<1>7. ASSUME NEW w \in Workers, Push(w) PROVE Known'
  BY <1>7 DEF Push, Goto, Known, RecordComing, Paying, TypeOK
<1>8. ASSUME NEW w \in Workers, PushFails(w) PROVE Known'
  BY <1>8 DEF PushFails, Finish, Mishap, Goto, Known, RecordComing, Paying
<1>9. ASSUME NEW w \in Workers, WriteSynced(w) PROVE Known'
  BY <1>9 DEF WriteSynced, Recorded, Mishap, Goto, Known, RecordComing, Paying
<1>10. ASSUME NEW w \in Workers, Die(w) PROVE Known'
  BY <1>10 DEF Die, Finish, Mishap, Goto, Known, RecordComing, Paying
<1>11. ASSUME NEW w \in Workers, Retrieve(w) PROVE Known'
  BY <1>11 DEF Retrieve, Begin, Goto, Known, RecordComing, Paying
<1>12. ASSUME NEW w \in Workers, Apply(w) PROVE Known'
  BY <1>12 DEF Apply, Pulled, Mishap, Goto, Known, RecordComing, Paying
<1>13. ASSUME NEW w \in Workers, StartCheckout(w) PROVE Known'
  BY <1>13 DEF StartCheckout, Begin, Goto, Known, RecordComing, Paying
<1>14. ASSUME NEW w \in Workers, OpenSession(w) PROVE Known'
  BY <1>14 DEF OpenSession, Goto, Known, RecordComing, Paying
<1>15. ASSUME NEW w \in Workers, RefuseCheckout(w) PROVE Known'
  BY <1>15 DEF RefuseCheckout, Finish, Goto, Known, RecordComing, Paying
<1>16. ASSUME NEW w \in Workers, RecordCheckout(w) PROVE Known'
  BY <1>16 DEF RecordCheckout, Finish, Goto, Known, RecordComing, Paying
<1>17. ASSUME NEW n \in Counts, Subscribe(n) PROVE Known'
  BY <1>17 DEF Subscribe, Known, RecordComing, Paying, RowInv
<1>18. ASSUME End PROVE Known'
  BY <1>18 DEF End, Known, RecordComing, Paying
<1> QED
  BY <1>1, <1>2, <1>3, <1>4, <1>5, <1>6, <1>7, <1>8, <1>9, <1>10, <1>11, <1>12, <1>13,
     <1>14, <1>15, <1>16, <1>17, <1>18 DEF Next, Handler, Reconcile, Pull, Checkout

\* The flag goes down only when Stripe has, or will soon have, the headcount.
LEMMA OwedStep ==
  ASSUME TypeOK, JobsInv, RowInv, Billed, Known, Owed, mishaps = {}, mishaps' = {}, Next
  PROVE  Owed'
<1>1. ASSUME NEW n \in Counts, Change(n) PROVE Owed'
  BY <1>1 DEF Change, Owed, RecountComing, RecordComing, Paying, TypeOK
<1>2. ASSUME Drop PROVE Owed'
  BY <1>2 DEF Drop, Mishap, Owed, RecountComing, RecordComing, Paying
<1>3. ASSUME NEW w \in Workers, Dispatch(w) PROVE Owed'
  BY <1>3
     DEF Dispatch, Begin, Goto, Owed, RecountComing, RecordComing, Paying, TypeOK, Unwritten
<1>4. ASSUME NEW w \in Workers, Recount(w) PROVE Owed'
  BY <1>4 DEF Recount, Begin, Goto, Owed, RecountComing, RecordComing, Paying, Unwritten
<1>5. ASSUME NEW w \in Workers, ReadRow(w) PROVE Owed'
  BY <1>5 DEF ReadRow, Goto, Owed, RecountComing, RecordComing, Paying, Unwritten
<1>6. ASSUME NEW w \in Workers, WriteLocal(w) PROVE Owed'
  <2>1. row'.pending = Flag(w) /\ row'.item = row.item
    BY <1>6 DEF WriteLocal
  <2>2. CASE pc[w] = "owed"
    BY <2>1, <2>2 DEF Owed, Flag
  <2>3. CASE pc[w] = "local"
    <3> SUFFICES ASSUME Paying, ~RecordComing PROVE stripe.quantity = members \/ todo > 0
      <4>1. stripe' = stripe /\ members' = members /\ todo' = todo
        BY <1>6 DEF WriteLocal
      <4>2. Paying' => Paying
        BY <4>1, <2>1 DEF Paying
      <4>3. RecordComing => RecordComing'
        BY <1>6, <2>3, <4>1 DEF WriteLocal, Finish, Goto, RecordComing, TypeOK
      <4> QED
        BY <4>1, <4>2, <4>3 DEF Owed, RecountComing
    <3>1. job[w].count = members \/ todo > 0
      BY <1>6 DEF WriteLocal, Mishap, CountIsStale, TypeOK
    <3>2. ~NeedsPush(w)
      BY <1>6, <2>3 DEF WriteLocal, Mishap
    <3>3. stripe.quantity = job[w].count
      BY <3>2 DEF NeedsPush, Known, Paying
    <3> QED
      BY <3>1, <3>3
  <2> QED
    BY <1>6, <2>2, <2>3 DEF WriteLocal
<1>7. ASSUME NEW w \in Workers, Push(w) PROVE Owed'
  BY <1>7 DEF Push, Goto, Owed, RecountComing, RecordComing, Paying, TypeOK
<1>8. ASSUME NEW w \in Workers, PushFails(w) PROVE Owed'
  BY <1>8
     DEF PushFails, Finish, Mishap, Goto, Owed, RecountComing, RecordComing, Paying,
         Unwritten
<1>9. ASSUME NEW w \in Workers, WriteSynced(w) PROVE Owed'
  <2>1. job[w].count = members \/ todo > 0
    BY <1>9 DEF WriteSynced, Mishap, CountIsStale, TypeOK
  <2>2. stripe.quantity = job[w].count
    BY <1>9 DEF WriteSynced, Mishap
  <2> QED
    BY <1>9, <2>1, <2>2 DEF WriteSynced, Owed, RecountComing
<1>10. ASSUME NEW w \in Workers, Die(w) PROVE Owed'
  BY <1>10
     DEF Die, Finish, Mishap, Goto, Owed, RecountComing, RecordComing, Paying, Unwritten
<1>11. ASSUME NEW w \in Workers, Retrieve(w) PROVE Owed'
  BY <1>11 DEF Retrieve, Begin, Goto, Owed, RecountComing, RecordComing, Paying, Unwritten
<1>12. ASSUME NEW w \in Workers, Apply(w) PROVE Owed'
  BY <1>12
     DEF Apply, Pulled, Finish, Mishap, Goto, Owed, RecountComing, RecordComing, Paying,
         Unwritten
<1>13. ASSUME NEW w \in Workers, StartCheckout(w) PROVE Owed'
  BY <1>13
     DEF StartCheckout, Begin, Goto, Owed, RecountComing, RecordComing, Paying, Unwritten
<1>14. ASSUME NEW w \in Workers, OpenSession(w) PROVE Owed'
  BY <1>14 DEF OpenSession, Goto, Owed, RecountComing, RecordComing, Paying
<1>15. ASSUME NEW w \in Workers, RefuseCheckout(w) PROVE Owed'
  BY <1>15
     DEF RefuseCheckout, Finish, Goto, Owed, RecountComing, RecordComing, Paying, Unwritten
<1>16. ASSUME NEW w \in Workers, RecordCheckout(w) PROVE Owed'
  BY <1>16
     DEF RecordCheckout, Finish, Goto, Owed, RecountComing, RecordComing, Paying, Unwritten
<1>17. ASSUME NEW n \in Counts, Subscribe(n) PROVE Owed'
  BY <1>17 DEF Subscribe, Owed, RecountComing, RecordComing, Paying, RowInv
<1>18. ASSUME End PROVE Owed'
  BY <1>18 DEF End, Owed, RecountComing, RecordComing, Paying
<1> QED
  BY <1>1, <1>2, <1>3, <1>4, <1>5, <1>6, <1>7, <1>8, <1>9, <1>10, <1>11, <1>12, <1>13,
     <1>14, <1>15, <1>16, <1>17, <1>18 DEF Next, Handler, Reconcile, Pull, Checkout

\* The invariant is inductive.
LEMMA IInvStep == IInv /\ [Next]_vars => IInv'
<1> SUFFICES ASSUME IInv, [Next]_vars PROVE IInv'
  OBVIOUS
<1>1. CASE Next
  <2>1. TypeOK' /\ JobsInv' /\ RowInv'
    BY <1>1, TypeStep, JobsStep, RowStep DEF IInv
  <2>2. ASSUME mishaps' = {} PROVE Billed' /\ Known' /\ Owed'
    <3>1. mishaps = {} /\ Billed /\ Known /\ Owed
      BY <1>1, <2>2, MishapsStay, SoonParts DEF IInv
    <3> QED
      BY <1>1, <2>2, <3>1, BilledStep, KnownStep, OwedStep DEF IInv
  <2>3. Soon'
    BY <2>2 DEF Soon, Billed, Known, Owed
  <2> QED
    BY <2>1, <2>3 DEF IInv
<1>2. CASE UNCHANGED vars
  BY <1>2 DEF vars, IInv, TypeOK, JobsInv, RowInv, Soon, RecountComing, RecordComing, Paying
<1> QED
  BY <1>1, <1>2

(***************************************************************************)
(* The inductive invariant holds of every history of sync.ts, apply.ts and *)
(* startCheckout: until things are at rest, somebody is on the way who     *)
(* will put right what is not right yet, unless a mishap has happened.     *)
(***************************************************************************)
THEOREM Inductive == Spec => []IInv
<1>1. Init => IInv
  BY InitIInv
<1>2. IInv /\ [Next]_vars => IInv'
  BY IInvStep
<1> QED
  BY <1>1, <1>2, PTL DEF Spec

(***************************************************************************)
(* The row, the subscription and the handlers have their types throughout. *)
(* In particular a change is handled at most once: todo is never negative. *)
(***************************************************************************)
THEOREM TypeCorrect == Spec => []TypeOK
<1>1. IInv => TypeOK
  BY DEF IInv
<1> QED
  BY <1>1, Inductive, PTL

(***************************************************************************)
(* reconcileSeats and applySubscription, however they interleave, leave    *)
(* the row with the true headcount and with what Stripe has.               *)
(***************************************************************************)
THEOREM InStepAlways == Spec => []InStep
<1>1. IInv => InStep
  BY DEF IInv, Soon, InStep, AtRest, Idle, RecountComing, RecordComing, Paying, TypeOK,
     Unwritten
<1> QED
  BY <1>1, Inductive, PTL

(***************************************************************************)
(* The promise of sync.ts's header: at rest and without a mishap, Stripe   *)
(* bills for the roster or the row says that a push is owed.               *)
(***************************************************************************)
THEOREM OwedIsFlaggedAlways == Spec => []OwedIsFlagged
<1>1. IInv => OwedIsFlagged
  BY DEF IInv, Soon, OwedIsFlagged, AtRest, Idle, RecountComing, RecordComing, Paying,
     TypeOK, Unwritten
<1> QED
  BY <1>1, Inductive, PTL

=============================================================================
