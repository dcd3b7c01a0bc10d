------------------------- MODULE StripeEventsProofs -------------------------
(***************************************************************************)
(* Theorems about StripeEvents for any number of requests, subscriptions,  *)
(* sessions, changes and faults.  IInv is inductive.  Versions and what is *)
(* written only grow (Onward), so that a request that once knew a version  *)
(* goes on knowing it; and whatever is acknowledged was written before.    *)
(***************************************************************************)
EXTENDS StripeEvents, SequenceTheorems, TLAPS

USE BoundsAssumption DEF Subs

\* What only grows, and what stays as it was once it exists.
Onward ==
  /\ \A s \in Subs : Len(stripe[s]) <= Len(stripe'[s]) /\ written[s] <= written'[s]
  /\ \A s \in Subs : Exists(s) => Exists(s)'

\* The handle that a row must have, or must not, for its status.
RowFits(r) ==
  /\ r.status \in {"active", "past_due"} => r.sub # None
  /\ r.status = "canceled" => r.sub = None

\* The type without the requests.
TablesOK ==
  /\ stripe \in [Subs -> Seq(Statuses)]
  /\ outbox \subseteq Event /\ lost \subseteq Event
  /\ sessions \in Nat
  /\ alive \in BOOLEAN
  /\ row \in Row /\ RowFits(row)
  /\ DOMAIN log \subseteq Event
  /\ \A e \in DOMAIN log : log[e] \in BOOLEAN
  /\ orphans \subseteq Subs
  /\ faults \in Nat
  /\ written \in [Subs -> Nat]
  /\ disorder \in BOOLEAN
  /\ mishaps \subseteq Mishaps

JobsType == pc \in [Workers -> Steps] /\ job \in [Workers -> Job]

\* All that IInv says but of the requests.
Books == TablesOK /\ EventsInv /\ LogInv /\ RowInv /\ AckedIsWritten

LEMMA Parts ==
  ASSUME IInv
  PROVE  JobsType /\ JobsInv /\ Books /\ CheckoutInv
BY DEF IInv, TypeOK, TablesOK, RowFits, JobsType, Books

LEMMA NullJobType == NoJob \in Job
BY DEF NoJob, Job

\* A step of w leaves the other requests alone.
LEMMA Moves ==
  ASSUME JobsType, NEW w \in Workers, NEW step \in Steps, NEW j \in Job, Goto(w, step, j)
  PROVE  /\ JobsType'
         /\ pc'[w] = step /\ job'[w] = j
         /\ \A v \in Workers \ {w} : pc'[v] = pc[v] /\ job'[v] = job[v]
BY DEF JobsType, Goto

\* A request that does not move knows what it knew.
LEMMA KnowsStill ==
  ASSUME TablesOK, JobsType, Onward, NEW v \in Workers, JobOK(v),
         pc'[v] = pc[v], job'[v] = job[v], TablesOK'
  PROVE  JobOK(v)'
<1>1. job[v] \in Job /\ (Delivering(v) => job[v].event \in Event) /\ Delivering(v)' = Delivering(v)
  BY DEF JobsType, Job, Delivering
<1>2. \A s \in Subs : Len(stripe[s]) \in Nat /\ Len(stripe'[s]) \in Nat
                      /\ written[s] \in Nat /\ written'[s] \in Nat
  BY DEF TablesOK
<1>3. ASSUME pc[v] = "pulling", job[v].sub # None
      PROVE  Exists(job[v].sub)'
  <2>1. job[v].sub \in Subs
    BY <1>1, <1>3 DEF Job
  <2> QED
    BY <1>3, <2>1 DEF JobOK, Onward, Exists
<1>4. ASSUME pc[v] = "retrieved"
      PROVE  job[v].sub \in Subs /\ job[v].version \in Versions(job[v].sub)'
  BY <1>1, <1>2, <1>4 DEF JobOK, Onward, Versions, Job
<1>5. ASSUME pc[v] = "applied"
      PROVE  Delivering(v) /\ job[v].event.version <= written'[job[v].event.sub]
  <2>1. job[v].event \in Event /\ Delivering(v)
        /\ job[v].event.version <= written[job[v].event.sub]
    BY <1>1, <1>5 DEF JobOK
  <2> QED
    BY <1>2, <2>1 DEF Onward, Event
<1> QED
  BY <1>1, <1>3, <1>4, <1>5 DEF JobOK

LEMMA JobsStand ==
  ASSUME TablesOK, TablesOK', JobsType, JobsInv, Onward, NEW w \in Workers,
         \A v \in Workers \ {w} : pc'[v] = pc[v] /\ job'[v] = job[v], JobOK(w)'
  PROVE  JobsInv'
<1>1. ASSUME NEW v \in Workers PROVE JobOK(v)'
  <2>1. CASE v = w
    BY <2>1
  <2>2. CASE v # w
    BY <2>2, KnowsStill DEF JobsInv
  <2> QED
    BY <2>1, <2>2
<1> QED
  BY <1>1 DEF JobsInv

\* Nothing of the tables that a request reads has changed.
LEMMA SameIsOnward ==
  ASSUME TablesOK, UNCHANGED <<stripe, written>>
  PROVE  Onward
BY DEF TablesOK, Onward, Exists

LEMMA SameBooks ==
  ASSUME Books, UNCHANGED <<stripe, outbox, lost, row, log, written>>,
         sessions' \in Nat, alive' \in BOOLEAN, orphans' \subseteq Subs, faults' \in Nat,
         disorder' \in BOOLEAN, mishaps' \subseteq Mishaps
  PROVE  Books'
BY DEF Books, TablesOK, EventsInv, Versions, LogInv, RowInv, Exists, AckedIsWritten

\* No request is cleared that was not, and no subscription comes to life.
LEMMA CheckoutStands ==
  ASSUME CheckoutInv, mishaps \subseteq mishaps', sessions' = sessions,
         \A v \in Workers : pc'[v] = "cleared" => pc[v] = "cleared",
         \A s \in Subs : Live(s)' => Live(s)
  PROVE  CheckoutInv'
BY DEF CheckoutInv

LEMMA InitIInv == Init => IInv
<1> SUFFICES ASSUME Init PROVE IInv
  OBVIOUS
<1>1. TypeOK
  <2>1. row \in Row /\ RowFits(row)
    BY DEF Init, FreeRow, Row, RowFits
  <2>2. DOMAIN log = {}
    BY DEF Init
  <2>3. stripe \in [Subs -> Seq(Statuses)] /\ written \in [Subs -> Nat]
    BY DEF Init
  <2>4. pc \in [Workers -> Steps] /\ job \in [Workers -> Job]
    BY NullJobType DEF Init, Steps
  <2>5. /\ outbox = {} /\ lost = {} /\ sessions = 0 /\ alive = TRUE /\ orphans = {}
        /\ faults = 0 /\ disorder = FALSE /\ mishaps = {}
    BY DEF Init
  <2> QED
    BY <2>1, <2>2, <2>3, <2>4, <2>5 DEF TypeOK, RowFits
<1>2. \A s \in Subs : stripe[s] = <<>> /\ ~Live(s)
  BY DEF Init, Live, Exists
<1>3. EventsInv /\ LogInv /\ RowInv
  BY DEF Init, EventsInv, LogInv, RowInv, FreeRow
<1>4. JobsInv
  BY DEF Init, JobsInv, JobOK
<1>5. AckedIsWritten
  BY <1>2 DEF AckedIsWritten
<1>6. CheckoutInv
  BY <1>2 DEF Init, CheckoutInv
<1> QED
  BY <1>1, <1>3, <1>4, <1>5, <1>6 DEF IInv

LEMMA StutterIInv == IInv /\ UNCHANGED vars => IInv'
<1> SUFFICES ASSUME IInv, UNCHANGED vars PROVE IInv'
  OBVIOUS
<1>1. Books' /\ JobsType'
  BY Parts, SameBooks DEF vars, Books, TablesOK, JobsType
<1>2. JobsInv'
  BY Parts DEF vars, JobsInv, JobOK, Exists, Versions, Delivering
<1>3. CheckoutInv'
  BY Parts DEF vars, CheckoutInv, Live, Exists, Status
<1> QED
  BY <1>1, <1>2, <1>3 DEF IInv, TypeOK, TablesOK, RowFits, JobsType, Books

-----------------------------------------------------------------------------
(* Requests that only move on *)

\* The steps that change no table.
LEMMA QuietIInv ==
  ASSUME IInv, NEW w \in Workers, NEW step \in Steps, NEW j \in Job, Goto(w, step, j),
         UNCHANGED <<theirs, sessions, alive, row, log, written, mishaps>>,
         orphans' \subseteq Subs, faults' \in Nat, disorder' \in BOOLEAN,
         step # "cleared",
         JobOK(w)'
  PROVE  IInv'
<1>0. JobsType /\ JobsInv /\ Books /\ CheckoutInv
  BY Parts
<1>1. /\ JobsType' /\ pc'[w] = step
      /\ \A v \in Workers \ {w} : pc'[v] = pc[v] /\ job'[v] = job[v]
  BY <1>0, Moves
<1>2. Books'
  BY <1>0, SameBooks DEF theirs, Books, TablesOK
<1>3. Onward
  BY <1>0, SameIsOnward DEF theirs, Books
<1>4. JobsInv'
  BY <1>0, <1>1, <1>2, <1>3, JobsStand DEF Books
<1>5. CheckoutInv'
  <2>1. \A s \in Subs : Live(s)' => Live(s)
    BY DEF theirs, Live, Exists, Status
  <2>2. \A v \in Workers : pc'[v] = "cleared" => pc[v] = "cleared"
    BY <1>1
  <2> QED
    BY <1>0, <2>1, <2>2, CheckoutStands
<1> QED
  BY <1>1, <1>2, <1>4, <1>5 DEF IInv, TypeOK, TablesOK, RowFits, JobsType, Books

LEMMA IdleIsOK ==
  ASSUME NEW w \in Workers, JobsType, NEW step \in Steps, NEW j \in Job, Goto(w, step, j),
         step \in {"idle", "quoting", "cleared", "tearing"}
  PROVE  JobOK(w)'
BY Moves DEF JobOK

LEMMA RefreshIInv ==
  ASSUME IInv, NEW w \in Workers, Refresh(w)
  PROVE  IInv'
<1> DEFINE j == [NoJob EXCEPT !.sub = row.sub]
<1>0. JobsType /\ JobsInv /\ Books /\ CheckoutInv
  BY Parts
<1>1. j \in Job /\ j.sub = row.sub
  BY <1>0, NullJobType DEF Books, TablesOK, Row, Job, NoJob
<1>2. Goto(w, "pulling", j) /\ UNCHANGED <<theirs, sessions, alive, row, log, orphans, ghosts>>
  BY DEF Refresh, Begin
<1>3. pc'[w] = "pulling" /\ job'[w] = j
  BY <1>0, <1>1, <1>2, Moves DEF Steps
<1>4. JobOK(w)'
  <2>1. row.sub # None => stripe'[row.sub] # <<>>
    BY <1>0, <1>2 DEF Books, RowInv, Exists, theirs
  <2>2. job'[w].sub = row.sub /\ job'[w].event = None
    BY <1>1, <1>3 DEF NoJob
  <2> QED
    BY <1>3, <2>1, <2>2 DEF JobOK, Exists, Delivering
<1> HIDE DEF j
<1> QED
  BY <1>0, <1>1, <1>2, <1>4, QuietIInv DEF Steps, ghosts, history, theirs, Books, TablesOK

LEMMA RetrieveIInv ==
  ASSUME IInv, NEW w \in Workers, Retrieve(w)
  PROVE  IInv'
<1>0. JobsType /\ JobsInv /\ Books /\ CheckoutInv
  BY Parts
<1>1. UNCHANGED <<theirs, sessions, alive, row, log, orphans, ghosts>>
  BY DEF Retrieve
<1>2. CASE Finish(w)
  BY <1>0, <1>1, <1>2, NullJobType, QuietIInv, IdleIsOK
     DEF Finish, Steps, ghosts, history, theirs, Books, TablesOK
<1>3. ASSUME NEW s \in Subs, Exists(s), NEW j, pc[w] = "pulling",
             j = [job[w] EXCEPT !.sub = s, !.version = Len(stripe[s])],
             Goto(w, "retrieved", j)
      PROVE  IInv'
  <2>1. stripe[s] \in Seq(Statuses) /\ Len(stripe[s]) \in Nat /\ Len(stripe[s]) >= 1
    BY <1>0, <1>3 DEF Books, TablesOK, Exists
  <2>2. job[w] \in Job /\ job[w].event = None
    BY <1>0, <1>3 DEF JobsType, JobsInv, JobOK, Delivering
  <2>3. j \in Job /\ j.sub = s /\ j.version = Len(stripe[s]) /\ j.event = None
    BY <1>3, <2>1, <2>2 DEF Job
  <2>4. pc'[w] = "retrieved" /\ job'[w] = j
    BY <1>0, <1>3, <2>3, Moves DEF Steps
  <2>5. JobOK(w)'
    BY <1>1, <2>1, <2>3, <2>4 DEF JobOK, Delivering, Versions, theirs
  <2> QED
    BY <1>0, <1>1, <1>3, <2>3, <2>5, QuietIInv DEF Steps, ghosts, history, theirs, Books, TablesOK
<1>4. CASE job[w].sub # None
  <2>1. Exists(job[w].sub) /\ job[w].sub \in Subs /\ job[w] \in Job
    BY <1>0, <1>4 DEF Retrieve, JobsInv, JobOK, JobsType, Job
  <2>2. [job[w] EXCEPT !.version = Len(stripe[job[w].sub])]
          = [job[w] EXCEPT !.sub = job[w].sub, !.version = Len(stripe[job[w].sub])]
    BY <2>1 DEF Job
  <2> QED
    BY <1>3, <1>4, <2>1, <2>2 DEF Retrieve
<1>5. CASE job[w].sub = None
  BY <1>2, <1>3, <1>5 DEF Retrieve, Newest
<1> QED
  BY <1>4, <1>5

LEMMA StartsIInv ==
  ASSUME IInv, NEW w \in Workers, NEW step \in {"quoting", "tearing", "canceling"}, NEW j \in Job,
         Goto(w, step, j), step = "canceling" => j.sub \in Subs,
         UNCHANGED <<theirs, sessions, alive, row, log, orphans, ghosts>>
  PROVE  IInv'
<1>0. JobsType /\ JobsInv /\ Books /\ CheckoutInv
  BY Parts
<1>1. pc'[w] = step /\ job'[w] = j
  BY <1>0, Moves DEF Steps
<1>2. JobOK(w)'
  BY <1>1 DEF JobOK
<1> QED
  BY <1>0, <1>2, QuietIInv DEF Steps, ghosts, history, theirs, Books, TablesOK

LEMMA CheckoutOrDeletionStarts ==
  ASSUME IInv, NEW w \in Workers, StartCheckout(w) \/ ReadForDeletion(w)
  PROVE  IInv'
<1>0. JobsType /\ JobsInv /\ Books /\ CheckoutInv
  BY Parts
<1>1. row.customer \in BOOLEAN /\ row.sub \in Subs \cup {None}
  BY <1>0 DEF Books, TablesOK, Row
<1>2. CASE StartCheckout(w)
  <2>1. PICK j \in Job : Goto(w, "quoting", j)
    BY <1>1, <1>2 DEF StartCheckout, Begin, NoJob, Job
  <2> QED
    BY <1>2, <2>1, StartsIInv DEF StartCheckout
<1>3. CASE ReadForDeletion(w)
  <2>1. PICK j \in Job : j.sub = row.sub
                         /\ Goto(w, IF row.sub = None THEN "tearing" ELSE "canceling", j)
    BY <1>1, <1>3 DEF ReadForDeletion, Begin, NoJob, Job
  <2> QED
    BY <1>1, <1>3, <2>1, StartsIInv DEF ReadForDeletion
<1> QED
  BY <1>2, <1>3

LEMMA CancelFailsIInv ==
  ASSUME IInv, NEW w \in Workers, CancelFails(w)
  PROVE  IInv'
<1>0. JobsType /\ JobsInv /\ Books /\ CheckoutInv
  BY Parts
<1>1. job[w] \in Job /\ job[w].sub \in Subs
  BY <1>0 DEF CancelFails, JobsInv, JobOK, JobsType
<1>2. Goto(w, "tearing", job[w]) /\ UNCHANGED <<theirs, sessions, alive, row, log, written>>
      /\ faults' = faults /\ disorder' = disorder
  BY DEF CancelFails
<1>3. orphans' \subseteq Subs /\ mishaps \subseteq mishaps' /\ mishaps' \subseteq Mishaps
  BY <1>0, <1>1 DEF CancelFails, BookOrphan, Mishap, Mishaps, Books, TablesOK
<1>4. /\ JobsType' /\ pc'[w] = "tearing"
      /\ \A v \in Workers \ {w} : pc'[v] = pc[v] /\ job'[v] = job[v]
  BY <1>0, <1>1, <1>2, Moves DEF Steps
<1>5. Books'
  BY <1>0, <1>2, <1>3, SameBooks DEF theirs, Books, TablesOK
<1>6. Onward
  BY <1>0, <1>2, SameIsOnward DEF theirs, Books
<1>7. JobsInv'
  <2>1. JobOK(w)'
    BY <1>4 DEF JobOK
  <2> QED
    BY <1>0, <1>4, <1>5, <1>6, <2>1, JobsStand DEF Books
<1>8. CheckoutInv'
  <2>1. \A s \in Subs : Live(s)' => Live(s)
    BY <1>2 DEF theirs, Live, Exists, Status
  <2>2. \A v \in Workers : pc'[v] = "cleared" => pc[v] = "cleared"
    BY <1>4
  <2> QED
    BY <1>0, <1>2, <1>3, <2>1, <2>2, CheckoutStands
<1> QED
  BY <1>4, <1>5, <1>7, <1>8 DEF IInv, TypeOK, TablesOK, RowFits, JobsType, Books

-----------------------------------------------------------------------------
(* The webhook *)

LEMMA LoggedFacts ==
  ASSUME DOMAIN log \subseteq Event, \A e \in DOMAIN log : log[e] \in BOOLEAN,
         NEW e \in Event, NEW success \in BOOLEAN, log' = Logged(e, success)
  PROVE  /\ DOMAIN log' \subseteq Event /\ \A x \in DOMAIN log' : log'[x] \in BOOLEAN
         /\ \A x \in DOMAIN log' : log'[x] => (x = e /\ success) \/ (x \in DOMAIN log /\ log[x])
BY DEF Logged

\* A step of the ledger and the outbox: what leaves the outbox is lost, or was written.
LEMMA LedgerBooks ==
  ASSUME Books, UNCHANGED <<stripe, sessions, alive, row, orphans, written, disorder, mishaps>>,
         faults' \in Nat,
         DOMAIN log' \subseteq Event, \A e \in DOMAIN log' : log'[e] \in BOOLEAN,
         \A e \in DOMAIN log' : log'[e] => e.version <= written[e.sub],
         outbox' \subseteq outbox, lost \subseteq lost', lost' \subseteq lost \cup outbox,
         \A e \in outbox : e \in outbox' \cup lost' \/ e.version <= written[e.sub]
  PROVE  Books'
<1>1. TablesOK'
  BY DEF Books, TablesOK
<1>2. EventsInv'
  BY DEF Books, EventsInv, Versions
<1>3. LogInv' /\ RowInv'
  BY DEF Books, LogInv, RowInv, Exists
<1>4. AckedIsWritten'
  <2> SUFFICES ASSUME NEW s \in Subs, NEW v \in 1..Len(stripe[s]), v > written[s]
               PROVE  \E e \in outbox' \cup lost' : e.sub = s /\ e.version = v
    BY DEF AckedIsWritten
  <2>1. PICK e \in outbox \cup lost : e.sub = s /\ e.version = v
    BY DEF Books, AckedIsWritten
  <2>2. written[s] \in Nat /\ v \in Int
    BY DEF Books, TablesOK
  <2> QED
    BY <2>1, <2>2
<1> QED
  BY <1>1, <1>2, <1>3, <1>4 DEF Books

LEMMA HandleEventIInv ==
  ASSUME IInv, NEW w \in Workers, NEW e \in outbox, HandleEvent(w, e)
  PROVE  IInv'
<1> DEFINE j == [NoJob EXCEPT !.event = e, !.sub = e.sub, !.version = SeenOf(e)]
<1>0. JobsType /\ JobsInv /\ Books /\ CheckoutInv
  BY Parts
<1>1. e \in Event /\ e.sub \in Subs /\ e.version \in Nat /\ e.version \in Versions(e.sub)
      /\ stripe[e.sub] \in Seq(Statuses) /\ Len(stripe[e.sub]) \in Nat
  BY <1>0 DEF Books, TablesOK, Event, EventsInv
<1>2. SeenOf(e) \in Versions(e.sub) /\ e.version <= SeenOf(e) /\ SeenOf(e) \in Nat
  BY <1>1 DEF SeenOf, Versions
<1>3. j \in Job /\ j.event = e /\ j.sub = e.sub /\ j.version = SeenOf(e)
  BY <1>1, <1>2 DEF Job, NoJob
<1>4. Goto(w, "retrieved", j) /\ UNCHANGED <<theirs, sessions, alive, row, orphans, ghosts>>
      /\ (log' = log \/ log' = Logged(e, FALSE))
  BY DEF HandleEvent, Begin
<1> HIDE DEF j
<1>5. /\ JobsType' /\ pc'[w] = "retrieved" /\ job'[w] = j
      /\ \A v \in Workers \ {w} : pc'[v] = pc[v] /\ job'[v] = job[v]
  BY <1>0, <1>3, <1>4, Moves DEF Steps
<1>6. DOMAIN log' \subseteq Event /\ (\A x \in DOMAIN log' : log'[x] \in BOOLEAN)
      /\ \A x \in DOMAIN log' : log'[x] => x.version <= written[x.sub]
  BY <1>0, <1>1, <1>4, LoggedFacts DEF Books, TablesOK, LogInv
<1>7. Books'
  BY <1>0, <1>4, <1>6, LedgerBooks DEF theirs, ghosts, history, Books, TablesOK
<1>8. Onward
  BY <1>0, <1>4, SameIsOnward DEF theirs, ghosts, history, Books
<1>9. JobsInv'
  <2>1. JobOK(w)'
    BY <1>2, <1>3, <1>4, <1>5, <1>1 DEF JobOK, Delivering, Versions, theirs
  <2> QED
    BY <1>0, <1>5, <1>7, <1>8, <2>1, JobsStand DEF Books
<1>10. CheckoutInv'
  <2>1. \A s \in Subs : Live(s)' => Live(s)
    BY <1>4 DEF theirs, Live, Exists, Status
  <2>2. \A v \in Workers : pc'[v] = "cleared" => pc[v] = "cleared"
    BY <1>5
  <2> QED
    BY <1>0, <1>4, <2>1, <2>2, CheckoutStands DEF ghosts, history
<1> QED
  BY <1>5, <1>7, <1>9, <1>10 DEF IInv, TypeOK, TablesOK, RowFits, JobsType, Books

\* The steps that change the ledger or the outbox and at most end a request.
LEMMA LedgerIInv ==
  ASSUME IInv, Books', UNCHANGED <<stripe, sessions, written, mishaps>>,
         UNCHANGED <<pc, job>> \/ \E w \in Workers : Finish(w)
  PROVE  IInv'
<1>0. JobsType /\ JobsInv /\ Books /\ CheckoutInv
  BY Parts
<1>1. Onward
  BY <1>0, SameIsOnward DEF Books
<1>2. \A s \in Subs : Live(s)' => Live(s)
  BY DEF Live, Exists, Status
<1>3. CASE UNCHANGED <<pc, job>>
  <2>1. JobsType' /\ JobsInv'
    BY <1>0, <1>1, <1>3, KnowsStill DEF JobsType, JobsInv, Books
  <2>2. CheckoutInv'
    BY <1>0, <1>2, <1>3, CheckoutStands
  <2> QED
    BY <2>1, <2>2 DEF IInv, TypeOK, TablesOK, RowFits, JobsType, Books
<1>4. CASE \E w \in Workers : Finish(w)
  <2>1. PICK w \in Workers : Goto(w, "idle", NoJob)
    BY <1>4 DEF Finish
  <2>2. /\ JobsType' /\ pc'[w] = "idle"
        /\ \A v \in Workers \ {w} : pc'[v] = pc[v] /\ job'[v] = job[v]
    BY <1>0, <2>1, Moves, NullJobType DEF Steps
  <2>3. JobOK(w)'
    BY <2>2 DEF JobOK
  <2>4. JobsInv'
    BY <1>0, <1>1, <2>2, <2>3, JobsStand DEF Books
  <2>5. CheckoutInv'
    BY <1>0, <1>2, <2>2, CheckoutStands
  <2> QED
    BY <2>2, <2>4, <2>5 DEF IInv, TypeOK, TablesOK, RowFits, JobsType, Books
<1> QED
  BY <1>3, <1>4

\* GiveUp, Replay and Refuse.
LEMMA EventsIInv ==
  ASSUME IInv, NEW e \in outbox, GiveUp(e) \/ Replay(e) \/ Refuse(e)
  PROVE  IInv'
<1>0. JobsType /\ JobsInv /\ Books /\ CheckoutInv
  BY Parts
<1>1. e \in Event /\ faults \in Nat
  BY <1>0 DEF Books, TablesOK
<1>2. CASE GiveUp(e)
  <2>1. /\ UNCHANGED <<stripe, sessions, alive, row, log, orphans, written, disorder, mishaps>>
        /\ outbox' = outbox \ {e} /\ lost' = lost \cup {e} /\ faults' \in Nat
        /\ UNCHANGED <<pc, job>>
    BY <1>1, <1>2 DEF GiveUp, Fault, history
  <2>2. /\ DOMAIN log \subseteq Event /\ \A x \in DOMAIN log : log[x] \in BOOLEAN
        /\ \A x \in DOMAIN log : log[x] => x.version <= written[x.sub]
    BY <1>0 DEF Books, TablesOK, LogInv
  <2>3. Books'
    BY <1>0, <2>1, <2>2, LedgerBooks
  <2> QED
    BY <2>1, <2>3, LedgerIInv
<1>3. CASE Replay(e)
  <2>1. e.version <= written[e.sub]
    BY <1>0, <1>3 DEF Replay, Succeeded, Books, LogInv
  <2>2. Books'
    BY <1>0, <1>1, <1>3, <2>1, LedgerBooks
       DEF Replay, Acknowledge, ghosts, history, Books, TablesOK, LogInv
  <2> QED
    BY <1>3, <2>2, LedgerIInv DEF Replay, Acknowledge, ghosts, history
<1>4. CASE Refuse(e)
  <2>1. DOMAIN log' \subseteq Event /\ (\A x \in DOMAIN log' : log'[x] \in BOOLEAN)
        /\ \A x \in DOMAIN log' : log'[x] => x.version <= written[x.sub]
    BY <1>0, <1>1, <1>4, LoggedFacts DEF Refuse, Books, TablesOK, LogInv
  <2>2. Books'
    BY <1>0, <1>1, <1>4, <2>1, LedgerBooks DEF Refuse, theirs, ghosts, history, Books, TablesOK
  <2> QED
    BY <1>4, <2>2, LedgerIInv DEF Refuse, theirs, ghosts, history
<1> QED
  BY <1>2, <1>3, <1>4

LEMMA FailIInv ==
  ASSUME IInv, NEW w \in Workers, Fail(w)
  PROVE  IInv'
<1>0. JobsType /\ JobsInv /\ Books /\ CheckoutInv
  BY Parts
<1>1. Finish(w) /\ UNCHANGED <<theirs, sessions, alive, row, orphans, history>> /\ faults' \in Nat
  BY <1>0 DEF Fail, Fault, Books, TablesOK
<1>2. DOMAIN log' \subseteq Event /\ (\A x \in DOMAIN log' : log'[x] \in BOOLEAN)
      /\ \A x \in DOMAIN log' : log'[x] => x.version <= written[x.sub]
  <2>1. CASE log' = log
    BY <1>0, <2>1 DEF Books, TablesOK, LogInv
  <2>2. CASE Delivering(w) /\ log' = Logged(job[w].event, FALSE)
    <3>1. job[w].event \in Event
      BY <1>0, <2>2 DEF JobsType, Job, Delivering
    <3> QED
      BY <1>0, <2>2, <3>1, LoggedFacts DEF Books, TablesOK, LogInv
  <2> QED
    BY <2>1, <2>2 DEF Fail
<1>3. Books'
  BY <1>0, <1>1, <1>2, LedgerBooks DEF theirs, history, Books, TablesOK
<1> QED
  BY <1>1, <1>3, LedgerIInv DEF theirs, history

LEMMA MarkProcessedIInv ==
  ASSUME IInv, NEW w \in Workers, MarkProcessed(w)
  PROVE  IInv'
<1> DEFINE e == job[w].event
<1>0. JobsType /\ JobsInv /\ Books /\ CheckoutInv
  BY Parts
<1>1. e \in Event /\ e.version <= written[e.sub]
  BY <1>0 DEF MarkProcessed, JobsInv, JobOK, JobsType, Job, Delivering
<1>2. Finish(w) /\ UNCHANGED <<stripe, lost, sessions, alive, row, orphans, history>>
      /\ faults' \in Nat
  <2>1. faults \in Nat
    BY <1>0 DEF Books, TablesOK
  <2>2. faults' = faults \/ faults' = faults + 1
    BY DEF MarkProcessed, Fault
  <2>3. UNCHANGED <<stripe, lost>>
    BY DEF MarkProcessed, Closed, ClosedBadly, Acknowledge, theirs
  <2> QED
    BY <2>1, <2>2, <2>3 DEF MarkProcessed
<1>3. (log' = log \/ log' = Logged(e, TRUE)) /\ (outbox' = outbox \/ outbox' = outbox \ {e})
  BY DEF MarkProcessed, Closed, ClosedBadly, Acknowledge, theirs
<1> HIDE DEF e
<1>4. DOMAIN log' \subseteq Event /\ (\A x \in DOMAIN log' : log'[x] \in BOOLEAN)
      /\ \A x \in DOMAIN log' : log'[x] => x.version <= written[x.sub]
  BY <1>0, <1>1, <1>3, LoggedFacts DEF Books, TablesOK, LogInv
<1>5. Books'
  BY <1>0, <1>1, <1>2, <1>3, <1>4, LedgerBooks DEF history, Books, TablesOK
<1> QED
  BY <1>2, <1>5, LedgerIInv DEF history

-----------------------------------------------------------------------------
(* The write of a row *)

LEMMA ApplySubscriptionIInv ==
  ASSUME IInv, NEW w \in Workers, ApplySubscription(w)
  PROVE  IInv'
<1> DEFINE s == job[w].sub
           v == job[w].version
<1>0. JobsType /\ JobsInv /\ Books /\ CheckoutInv
  BY Parts
<1>1. /\ s \in Subs /\ v \in 1..Len(stripe[s]) /\ job[w] \in Job
      /\ Delivering(w) => s = job[w].event.sub /\ job[w].event.version <= v
  BY <1>0 DEF ApplySubscription, JobsInv, JobOK, JobsType, Versions
<1>2. /\ row' = Applied(s, v)
      /\ written' = [written EXCEPT ![s] = IF v > @ THEN v ELSE @]
      /\ disorder' = Older(s, v)
      /\ UNCHANGED <<stripe, outbox, lost, sessions, alive, log, orphans, faults, mishaps>>
      /\ IF Delivering(w) THEN Goto(w, "applied", [NoJob EXCEPT !.event = job[w].event])
         ELSE Goto(w, "idle", NoJob)
  BY DEF ApplySubscription, Finish, theirs
<1>3. stripe[s] \in Seq(Statuses) /\ stripe[s][v] \in Statuses /\ v \in Nat
      /\ written \in [Subs -> Nat]
  BY <1>0, <1>1 DEF Books, TablesOK
<1> HIDE DEF s, v
<1>4. /\ written' \in [Subs -> Nat] /\ written'[s] >= v
      /\ \A t \in Subs : written[t] <= written'[t]
  BY <1>1, <1>2, <1>3
<1>5. row' \in Row /\ RowFits(row') /\ (row'.sub # None => row'.sub = s)
  BY <1>1, <1>2, <1>3 DEF Applied, Mapped, Row, RowFits, Statuses, LiveStatuses
<1>6. Books'
  <2>1. TablesOK'
    BY <1>0, <1>2, <1>4, <1>5 DEF Books, TablesOK, Older
  <2>2. EventsInv'
    BY <1>0, <1>2 DEF Books, EventsInv, Versions
  <2>3. LogInv'
    <3> SUFFICES ASSUME NEW e \in DOMAIN log, log[e]
                 PROVE  e.version <= written'[e.sub]
      BY <1>2 DEF LogInv
    <3>1. e \in Event /\ e.version <= written[e.sub]
      BY <1>0 DEF Books, TablesOK, LogInv
    <3> QED
      BY <1>3, <1>4, <3>1 DEF Event
  <2>4. RowInv'
    <3>1. stripe[s] # <<>>
      BY <1>1, <1>3
    <3> QED
      BY <1>2, <1>5, <3>1 DEF RowInv, Exists
  <2>5. AckedIsWritten'
    <3> SUFFICES ASSUME NEW t \in Subs, NEW u \in 1..Len(stripe[t]), u > written'[t]
                 PROVE  \E e \in outbox \cup lost : e.sub = t /\ e.version = u
      BY <1>2 DEF AckedIsWritten
    <3>1. u > written[t]
      BY <1>3, <1>4
    <3> QED
      BY <1>0, <3>1 DEF Books, AckedIsWritten
  <2> QED
    BY <2>1, <2>2, <2>3, <2>4, <2>5 DEF Books
<1>7. Onward
  BY <1>0, <1>2, <1>4 DEF Onward, Books, TablesOK, Exists
<1>8. /\ JobsType' /\ pc'[w] \in {"applied", "idle"}
      /\ pc'[w] = "applied" => Delivering(w) /\ job'[w].event = job[w].event
      /\ \A x \in Workers \ {w} : pc'[x] = pc[x] /\ job'[x] = job[x]
  <2>1. CASE Delivering(w)
    <3> DEFINE j == [NoJob EXCEPT !.event = job[w].event]
    <3>1. j \in Job /\ j.event = job[w].event
      BY <1>1 DEF NoJob, Job
    <3>2. Goto(w, "applied", j)
      BY <1>2, <2>1
    <3> HIDE DEF j
    <3> QED
      BY <1>0, <2>1, <3>1, <3>2, Moves DEF Steps
  <2>2. CASE ~Delivering(w)
    BY <1>0, <1>2, <2>2, Moves, NullJobType DEF Steps
  <2> QED
    BY <2>1, <2>2
<1>9. JobsInv'
  <2>1. pc'[w] = "applied" => job[w].event.version <= written'[job[w].event.sub]
    <3> SUFFICES ASSUME Delivering(w)
                 PROVE  job[w].event.version <= written'[job[w].event.sub]
      BY <1>8
    <3>1. job[w].event.version \in Nat /\ job[w].event.version <= v /\ job[w].event.sub = s
      BY <1>1 DEF Job, Event, Delivering
    <3> QED
      BY <1>1, <1>3, <1>4, <3>1
  <2>2. JobOK(w)'
    BY <1>8, <2>1 DEF JobOK, Delivering
  <2> QED
    BY <1>0, <1>6, <1>7, <1>8, <2>2, JobsStand DEF Books
<1>10. CheckoutInv'
  <2>1. \A t \in Subs : Live(t)' => Live(t)
    BY <1>2 DEF Live, Exists, Status
  <2>2. \A x \in Workers : pc'[x] = "cleared" => pc[x] = "cleared"
    BY <1>8
  <2> QED
    BY <1>0, <1>2, <2>1, <2>2, CheckoutStands
<1> QED
  BY <1>6, <1>8, <1>9, <1>10 DEF IInv, TypeOK, TablesOK, RowFits, JobsType, Books

-----------------------------------------------------------------------------
(* A subscription changes *)

LEMMA BecomesFacts ==
  ASSUME Books, NEW s \in Subs, NEW status \in Statuses, Becomes(s, status)
  PROVE  /\ stripe' \in [Subs -> Seq(Statuses)]
         /\ Len(stripe[s]) \in Nat /\ Len(stripe'[s]) = Len(stripe[s]) + 1
         /\ \A t \in Subs \ {s} : stripe'[t] = stripe[t]
         /\ stripe'[s] # <<>> /\ stripe'[s][Len(stripe[s]) + 1] = status
         /\ lost' = lost
         /\ outbox \subseteq outbox' /\ outbox' \subseteq Event
         /\ \A e \in outbox' \ outbox : e.sub = s /\ e.version = Len(stripe[s]) + 1
         /\ \E e \in outbox' : e.sub = s /\ e.version = Len(stripe[s]) + 1
<1>1. stripe \in [Subs -> Seq(Statuses)] /\ stripe[s] \in Seq(Statuses) /\ outbox \subseteq Event
  BY DEF Books, TablesOK
<1>2. stripe' = [stripe EXCEPT ![s] = Append(stripe[s], status)]
  BY DEF Becomes
<1>3. /\ Append(stripe[s], status) \in Seq(Statuses)
      /\ Len(stripe[s]) \in Nat /\ Len(Append(stripe[s], status)) = Len(stripe[s]) + 1
      /\ Append(stripe[s], status)[Len(stripe[s]) + 1] = status
  BY <1>1, AppendProperties
<1>4. stripe'[s] = Append(stripe[s], status)
  BY <1>1, <1>2
<1>5. stripe'[s] # <<>>
  BY <1>3, <1>4
<1> DEFINE e == [kind |-> IF status = "canceled" THEN "deleted" ELSE "changed",
                 sub |-> s, version |-> Len(stripe[s]) + 1]
<1>6. outbox' = outbox \cup {e} /\ lost' = lost
  BY DEF Becomes
<1>7. e \in Event /\ e.sub = s /\ e.version = Len(stripe[s]) + 1
  BY <1>3 DEF Event
<1> HIDE DEF e
<1> QED
  BY <1>1, <1>2, <1>3, <1>4, <1>5, <1>6, <1>7

LEMMA BecomesBooks ==
  ASSUME Books, NEW s \in Subs, NEW status \in Statuses, Becomes(s, status),
         UNCHANGED <<alive, row, log, orphans, ghosts>>, sessions' \in Nat
  PROVE  Books' /\ Onward
<1> USE BecomesFacts
<1>0. /\ UNCHANGED <<alive, row, log, orphans, faults, written, disorder, mishaps>>
      /\ stripe \in [Subs -> Seq(Statuses)] /\ written \in [Subs -> Nat]
  BY DEF Books, TablesOK, ghosts, history
<1>1. TablesOK'
  <2>1. /\ stripe' \in [Subs -> Seq(Statuses)]
        /\ outbox' \subseteq Event /\ lost' = lost
    OBVIOUS
  <2> QED
    BY <1>0, <2>1 DEF Books, TablesOK
<1>2. Onward
  <2>1. ASSUME NEW t \in Subs
        PROVE  Len(stripe[t]) <= Len(stripe'[t]) /\ (stripe[t] # <<>> => stripe'[t] # <<>>)
    <3>1. Len(stripe[t]) \in Nat
      BY <1>0, LenProperties
    <3>2. CASE t = s
      BY <3>1, <3>2
    <3>3. CASE t # s
      BY <3>1, <3>3
    <3> QED
      BY <3>2, <3>3
  <2>2. \A t \in Subs : written[t] <= written'[t]
    BY <1>0
  <2> QED
    BY <2>1, <2>2 DEF Onward, Exists
<1>3. EventsInv'
  <2> SUFFICES ASSUME NEW e \in outbox' \cup lost'
               PROVE  e.version \in 1..Len(stripe'[e.sub])
    BY DEF EventsInv, Versions
  <2>1. CASE e \in outbox \cup lost
    <3>1. e \in Event /\ e.version \in 1..Len(stripe[e.sub])
      BY <2>1 DEF Books, TablesOK, EventsInv, Versions
    <3>2. e.sub \in Subs
      BY <3>1 DEF Event
    <3>3. Len(stripe[e.sub]) <= Len(stripe'[e.sub])
      BY <1>2, <3>2 DEF Onward
    <3>4. stripe[e.sub] \in Seq(Statuses) /\ stripe'[e.sub] \in Seq(Statuses)
      BY <1>0, <3>2
    <3>5. Len(stripe[e.sub]) \in Nat /\ Len(stripe'[e.sub]) \in Nat
      BY <3>4, LenProperties
    <3> QED
      BY <3>1, <3>3, <3>5
  <2>2. CASE e \in outbox' \ outbox
    <3>1. e.sub = s /\ e.version = Len(stripe[s]) + 1
      BY <2>2
    <3>2. Len(stripe[s]) \in Nat /\ Len(stripe'[s]) = Len(stripe[s]) + 1
      OBVIOUS
    <3> QED
      BY <3>1, <3>2
  <2> QED
    BY <2>1, <2>2
<1>4. LogInv'
  BY DEF Books, LogInv, ghosts, history
<1>5. RowInv'
  BY <1>2 DEF Books, TablesOK, Row, RowInv, Onward, Exists
<1>6. AckedIsWritten'
  <2> SUFFICES ASSUME NEW t \in Subs, NEW v \in 1..Len(stripe'[t]), v > written[t]
               PROVE  \E e \in outbox' \cup lost' : e.sub = t /\ e.version = v
    BY DEF AckedIsWritten, ghosts, history
  <2>1. CASE v \in 1..Len(stripe[t])
    BY <2>1 DEF Books, AckedIsWritten
  <2>2. CASE v \notin 1..Len(stripe[t])
    <3>1. t = s
      BY <2>2
    <3>2. v = Len(stripe[s]) + 1
      BY <2>2, <3>1
    <3> QED
      BY <3>1, <3>2
  <2> QED
    BY <2>1, <2>2
<1> QED
  BY <1>1, <1>2, <1>3, <1>4, <1>5, <1>6 DEF Books

\* Who is alive after a change: those who were, and the one that is changed.
LEMMA BecomesLive ==
  ASSUME Books, NEW s \in Subs, NEW status \in Statuses, Becomes(s, status)
  PROVE  /\ \A t \in Subs \ {s} : Live(t)' <=> Live(t)
         /\ Live(s)' <=> status \in LiveStatuses
<1>1. \A t \in Subs \ {s} : Live(t)' <=> Live(t)
  BY BecomesFacts DEF Live, Exists, Status
<1>2. Live(s)' <=> status \in LiveStatuses
  BY BecomesFacts DEF Live, Exists, Status
<1> QED
  BY <1>1, <1>2

LEMMA PayIInv ==
  ASSUME IInv, NEW s \in Subs, NEW status \in Statuses, Pay(s, status)
  PROVE  IInv'
<1>0. JobsType /\ JobsInv /\ Books /\ CheckoutInv /\ sessions \in Nat
  BY Parts DEF Books, TablesOK
<1>1. status \in LiveStatuses
  BY DEF Pay, LiveStatuses
<1>2. Becomes(s, status) /\ sessions > 0 /\ sessions' = sessions - 1
      /\ UNCHANGED <<alive, row, log, orphans, pc, job, ghosts>>
  BY DEF Pay, Runs
<1>3. Books' /\ Onward
  BY <1>0, <1>1, <1>2, BecomesBooks
<1>4. JobsType' /\ JobsInv'
  BY <1>0, <1>2, <1>3, KnowsStill DEF JobsType, JobsInv, Books
<1>5. CheckoutInv'
  BY <1>0, <1>1, <1>2, BecomesLive DEF CheckoutInv, ghosts, history
<1> QED
  BY <1>3, <1>4, <1>5 DEF IInv, TypeOK, TablesOK, RowFits, JobsType, Books

LEMMA ChangeIInv ==
  ASSUME IInv, NEW s \in Subs, NEW status \in Statuses, Change(s, status)
  PROVE  IInv'
<1>0. JobsType /\ JobsInv /\ Books /\ CheckoutInv /\ sessions \in Nat
  BY Parts DEF Books, TablesOK
<1>1. Becomes(s, status) /\ Live(s)
      /\ UNCHANGED <<sessions, alive, row, log, orphans, pc, job, ghosts>>
  BY DEF Change, Runs
<1>2. Books' /\ Onward
  BY <1>0, <1>1, BecomesBooks
<1>3. JobsType' /\ JobsInv'
  BY <1>0, <1>1, <1>2, KnowsStill DEF JobsType, JobsInv, Books
<1>4. CheckoutInv'
  <2>1. \A t \in Subs : Live(t)' => Live(t)
    BY <1>0, <1>1, BecomesLive
  <2> QED
    BY <1>0, <1>1, <2>1, CheckoutStands DEF ghosts, history
<1> QED
  BY <1>2, <1>3, <1>4 DEF IInv, TypeOK, TablesOK, RowFits, JobsType, Books

LEMMA CancelAtStripeIInv ==
  ASSUME IInv, NEW w \in Workers, CancelAtStripe(w)
  PROVE  IInv'
<1> DEFINE s == job[w].sub
<1>0. JobsType /\ JobsInv /\ Books /\ CheckoutInv /\ sessions \in Nat
  BY Parts DEF Books, TablesOK
<1>1. s \in Subs /\ job[w] \in Job /\ "canceled" \in Statuses
  BY <1>0 DEF CancelAtStripe, JobsInv, JobOK, JobsType, Statuses
<1>2. Becomes(s, "canceled") /\ Live(s) /\ Goto(w, "tearing", job[w])
      /\ UNCHANGED <<sessions, alive, row, log, orphans, ghosts>>
  BY DEF CancelAtStripe
<1> HIDE DEF s
<1>3. Books' /\ Onward
  BY <1>0, <1>1, <1>2, BecomesBooks
<1>4. /\ JobsType' /\ pc'[w] = "tearing"
      /\ \A v \in Workers \ {w} : pc'[v] = pc[v] /\ job'[v] = job[v]
  BY <1>0, <1>1, <1>2, Moves DEF Steps
<1>5. JobsInv'
  <2>1. JobOK(w)'
    BY <1>4 DEF JobOK
  <2> QED
    BY <1>0, <1>3, <1>4, <2>1, JobsStand DEF Books
<1>6. CheckoutInv'
  <2>1. \A t \in Subs : Live(t)' => Live(t)
    BY <1>0, <1>1, <1>2, BecomesLive
  <2>2. \A v \in Workers : pc'[v] = "cleared" => pc[v] = "cleared"
    BY <1>4
  <2> QED
    BY <1>0, <1>2, <2>1, <2>2, CheckoutStands DEF ghosts, history
<1> QED
  BY <1>3, <1>4, <1>5, <1>6 DEF IInv, TypeOK, TablesOK, RowFits, JobsType, Books
-----------------------------------------------------------------------------
(* Checkouts, and the end of the chapter *)

LEMMA FindLiveIInv ==
  ASSUME IInv, NEW w \in Workers, FindLive(w)
  PROVE  IInv'
<1>0. JobsType /\ JobsInv /\ Books /\ CheckoutInv /\ mishaps \subseteq Mishaps
  BY Parts DEF Books, TablesOK
<1>1. UNCHANGED <<stripe, outbox, lost, sessions, alive, row, log, orphans, faults, written, disorder>>
  BY DEF FindLive, theirs
<1>2. job[w] \in Job
  BY <1>0 DEF JobsType
<1>3. mishaps \subseteq mishaps' /\ mishaps' \subseteq Mishaps
  BY <1>0 DEF FindLive, Mishap, Mishaps
<1>4. /\ JobsType' /\ pc'[w] \in {"cleared", "idle"} /\ (pc'[w] = "cleared" => Cleared(w))
      /\ \A v \in Workers \ {w} : pc'[v] = pc[v] /\ job'[v] = job[v]
  <2>1. CASE Cleared(w)
    BY <1>0, <2>1, Moves, NullJobType DEF FindLive, Steps
  <2>2. CASE ~Cleared(w)
    BY <1>0, <2>2, Moves, NullJobType DEF FindLive, Finish, Steps
  <2> QED
    BY <2>1, <2>2
<1>5. Books'
  BY <1>0, <1>1, <1>3, SameBooks DEF Books, TablesOK
<1>6. JobsInv'
  <2>1. Onward
    BY <1>0, <1>1, SameIsOnward DEF Books
  <2>2. JobOK(w)'
    BY <1>4 DEF JobOK
  <2> QED
    BY <1>0, <1>4, <1>5, <2>1, <2>2, JobsStand DEF Books
<1>7. CheckoutInv'
  <2>1. \A s \in Subs : Live(s)' <=> Live(s)
    BY <1>1 DEF Live, Exists, Status
  <2>2. CASE pc'[w] = "idle"
    <3>1. \A v \in Workers : pc'[v] = "cleared" => pc[v] = "cleared"
      BY <1>4, <2>2
    <3> QED
      BY <1>0, <1>1, <1>3, <2>1, <3>1, CheckoutStands
  <2>3. CASE pc'[w] = "cleared"
    <3> SUFFICES ASSUME "overlap" \notin mishaps'
                 PROVE  CheckoutInv'
      BY DEF CheckoutInv
    <3>1. ~Overlaps(w) /\ Cleared(w) /\ "overlap" \notin mishaps
      BY <1>3, <1>4, <2>3 DEF FindLive, Mishap
    <3>2. /\ ~(sessions > 0) /\ sessions \in Nat
          /\ \A x \in Workers : x # w => pc[x] # "cleared"
          /\ \A s \in Subs : ~Live(s)
      <4>1. \A s \in Subs : ~Live(s)
        BY <1>0, <1>2, <3>1 DEF Overlaps, Cleared, Job
      <4> QED
        BY <1>0, <3>1, <4>1 DEF Overlaps, Books, TablesOK
    <3>3. \A x \in Workers : pc'[x] = "cleared" => x = w
      BY <1>4, <3>2
    <3> QED
      BY <1>1, <2>1, <3>2, <3>3 DEF CheckoutInv
  <2> QED
    BY <1>4, <2>2, <2>3
<1> QED
  BY <1>4, <1>5, <1>6, <1>7 DEF IInv, TypeOK, TablesOK, RowFits, JobsType, Books

\* A step that ends a request of a chapter and writes its row.
LEMMA RowBooks ==
  ASSUME Books, UNCHANGED <<stripe, outbox, lost, log, orphans, faults, written, disorder>>,
         row' \in Row, RowFits(row'),
         row'.sub \in {row.sub, None},
         sessions' \in Nat, alive' \in BOOLEAN, mishaps' \subseteq Mishaps
  PROVE  Books'
<1>1. TablesOK'
  BY DEF Books, TablesOK
<1>2. EventsInv' /\ LogInv' /\ AckedIsWritten'
  BY DEF Books, EventsInv, Versions, LogInv, AckedIsWritten
<1>3. RowInv'
  BY DEF Books, RowInv, Exists
<1> QED
  BY <1>1, <1>2, <1>3 DEF Books

LEMMA OpenSessionIInv ==
  ASSUME IInv, NEW w \in Workers, OpenSession(w)
  PROVE  IInv'
<1>0. JobsType /\ JobsInv /\ Books /\ CheckoutInv
      /\ sessions \in Nat /\ alive \in BOOLEAN /\ mishaps \subseteq Mishaps /\ row \in Row
      /\ RowFits(row)
  BY Parts DEF Books, TablesOK
<1>1. /\ UNCHANGED <<stripe, outbox, lost, log, alive, orphans, faults, written, disorder, mishaps>>
      /\ sessions' = sessions + 1 /\ Goto(w, "idle", NoJob) /\ pc[w] = "cleared"
  BY DEF OpenSession, Finish, theirs, ghosts, history
<1>2. row' \in Row /\ row'.sub = row.sub /\ RowFits(row')
  BY <1>0 DEF OpenSession, Row, RowFits
<1>3. Books'
  BY <1>0, <1>1, <1>2, RowBooks
<1>4. /\ JobsType' /\ pc'[w] = "idle"
      /\ \A v \in Workers \ {w} : pc'[v] = pc[v] /\ job'[v] = job[v]
  BY <1>0, <1>1, Moves, NullJobType DEF Steps
<1>5. JobsInv'
  <2>1. Onward
    BY <1>0, <1>1, SameIsOnward DEF Books
  <2>2. JobOK(w)'
    BY <1>4 DEF JobOK
  <2> QED
    BY <1>0, <1>3, <1>4, <2>1, <2>2, JobsStand DEF Books
<1>6. CheckoutInv'
  <2> SUFFICES ASSUME "overlap" \notin mishaps
               PROVE  CheckoutInv'
    BY <1>1 DEF CheckoutInv
  <2>1. \A s \in Subs : Live(s)' <=> Live(s)
    BY <1>1 DEF Live, Exists, Status
  <2>2. /\ sessions = 0
        /\ \A s \in Subs : ~Live(s)
        /\ \A x \in Workers : pc[x] = "cleared" => x = w
    BY <1>0, <1>1 DEF CheckoutInv
  <2>3. \A x \in Workers : pc'[x] # "cleared"
    BY <1>4, <2>2
  <2> QED
    BY <1>1, <2>1, <2>2, <2>3 DEF CheckoutInv
<1> QED
  BY <1>3, <1>4, <1>5, <1>6 DEF IInv, TypeOK, TablesOK, RowFits, JobsType, Books

LEMMA TeardownIInv ==
  ASSUME IInv, NEW w \in Workers, Teardown(w)
  PROVE  IInv'
<1>0. JobsType /\ JobsInv /\ Books /\ CheckoutInv
      /\ sessions \in Nat /\ mishaps \subseteq Mishaps
  BY Parts DEF Books, TablesOK
<1>1. /\ UNCHANGED <<stripe, outbox, lost, sessions, log, orphans, faults, written, disorder>>
      /\ alive' = FALSE /\ row' = FreeRow /\ Goto(w, "idle", NoJob)
  BY DEF Teardown, Finish, theirs
<1>2. mishaps \subseteq mishaps' /\ mishaps' \subseteq Mishaps
  BY <1>0 DEF Teardown, Mishap, Mishaps
<1>3. row' \in Row /\ row'.sub = None /\ RowFits(row')
  BY <1>1 DEF FreeRow, Row, RowFits
<1>4. Books'
  BY <1>0, <1>1, <1>2, <1>3, RowBooks
<1>5. /\ JobsType' /\ pc'[w] = "idle"
      /\ \A v \in Workers \ {w} : pc'[v] = pc[v] /\ job'[v] = job[v]
  BY <1>0, <1>1, Moves, NullJobType DEF Steps
<1>6. JobsInv'
  <2>1. Onward
    BY <1>0, <1>1, SameIsOnward DEF Books
  <2>2. JobOK(w)'
    BY <1>5 DEF JobOK
  <2> QED
    BY <1>0, <1>4, <1>5, <2>1, <2>2, JobsStand DEF Books
<1>7. CheckoutInv'
  <2>1. \A s \in Subs : Live(s)' => Live(s)
    BY <1>1 DEF Live, Exists, Status
  <2>2. \A v \in Workers : pc'[v] = "cleared" => pc[v] = "cleared"
    BY <1>5
  <2> QED
    BY <1>0, <1>1, <1>2, <2>1, <2>2, CheckoutStands
<1> QED
  BY <1>4, <1>5, <1>6, <1>7 DEF IInv, TypeOK, TablesOK, RowFits, JobsType, Books

-----------------------------------------------------------------------------

LEMMA NextIInv == IInv /\ Next => IInv'
<1> SUFFICES ASSUME IInv, Next PROVE IInv'
  OBVIOUS
<1>1. ASSUME NEW w \in Workers, Webhook(w) PROVE IInv'
  BY <1>1, HandleEventIInv, MarkProcessedIInv DEF Webhook
<1>2. ASSUME NEW w \in Workers, Pull(w) PROVE IInv'
  BY <1>2, RefreshIInv, RetrieveIInv DEF Pull, RefreshIfStale
<1>3. ASSUME NEW w \in Workers, Checkout(w) PROVE IInv'
  BY <1>3, CheckoutOrDeletionStarts, FindLiveIInv, OpenSessionIInv DEF Checkout
<1>4. ASSUME NEW w \in Workers, DeleteOrg(w) PROVE IInv'
  BY <1>4, CheckoutOrDeletionStarts, CancelAtStripeIInv, CancelFailsIInv, TeardownIInv
     DEF DeleteOrg
<1>5. ASSUME NEW w \in Workers, Request(w) PROVE IInv'
  BY <1>1, <1>2, <1>3, <1>4, <1>5, ApplySubscriptionIInv, FailIInv DEF Request
<1>6. ASSUME NEW s \in Subs, NEW status \in Statuses, Pay(s, status) \/ Change(s, status)
      PROVE  IInv'
  BY <1>6, PayIInv, ChangeIInv
<1>7. ASSUME NEW e \in outbox, GiveUp(e) \/ Replay(e) \/ Refuse(e) PROVE IInv'
  BY <1>7, EventsIInv
<1> QED
  BY <1>5, <1>6, <1>7 DEF Next

\* The strengthening of the properties below holds in every state: a delivery writes what
\* is at least as new as its event, and the ledger says of nothing that it has succeeded
\* before it was written (webhook.ts, handleStripeEvent).
THEOREM Inductive == Spec => []IInv
<1>1. IInv /\ [Next]_vars => IInv'
  BY NextIInv, StutterIInv
<1> QED
  BY InitIInv, <1>1, PTL DEF Spec

\* The tables and the requests have their types; in particular a row that says its chapter
\* pays, or is late, holds a handle, and one that says canceled holds none (apply.ts).
THEOREM TypeCorrect == Spec => []TypeOK
<1>1. IInv => TypeOK
  BY DEF IInv
<1> QED
  BY Inductive, <1>1, PTL

\* webhook.ts: whatever fails and in whatever order events come, a change is written to the
\* row before Stripe may stop reporting it, unless Stripe gives up.
THEOREM AckedIsWrittenAlways == Spec => []AckedIsWritten
<1>1. IInv => AckedIsWritten
  BY DEF IInv
<1> QED
  BY Inductive, <1>1, PTL

\* startCheckout: without two checkouts that overlap, no chapter has two running
\* subscriptions.
THEOREM BilledOnceAlways == Spec => []BilledOnce
<1>1. IInv => BilledOnce
  BY DEF IInv, CheckoutInv, BilledOnce
<1> QED
  BY Inductive, <1>1, PTL

-----------------------------------------------------------------------------
(* The row at rest, and what a deleted chapter leaves behind *)

\* A deletion in progress, seen by another step: what it read still exists, and what it
\* has ended or booked stays so.
LEMMA DeletionStill ==
  ASSUME JobsType, NEW v \in Workers, DeletionOK(v),
         pc'[v] = pc[v], job'[v] = job[v], mishaps \subseteq mishaps', orphans \subseteq orphans',
         \A s \in Subs : Exists(s) => Exists(s)',
         \A s \in Subs : Exists(s) /\ Live(s)' => Live(s)
  PROVE  DeletionOK(v)'
<1>1. PICK j \in Job : j = job[v] /\ job'[v] = j
  BY DEF JobsType
<1>2. j.sub # None => j.sub \in Subs
  BY DEF Job
<1>3. pc[v] \in {"canceling", "tearing"} /\ j.sub # None => Exists(j.sub) /\ Exists(j.sub)'
  BY <1>1, <1>2 DEF DeletionOK
<1>4. pc[v] = "tearing" /\ j.sub # None /\ mishaps = {} => ~Live(j.sub) \/ j.sub \in orphans
  BY <1>1 DEF DeletionOK
<1>5. pc[v] = "tearing" /\ j.sub # None /\ mishaps' = {} => ~Live(j.sub)' \/ j.sub \in orphans'
  BY <1>2, <1>3, <1>4
<1> QED
  BY <1>1, <1>3, <1>5 DEF DeletionOK, Live, Exists, Status

\* The steps that leave Stripe, the row and the order of writes alone.
LEMMA QuietAccount ==
  ASSUME IInv, AccountInv,
         UNCHANGED <<stripe, alive, written, disorder>>,
         row'.sub = row.sub, row'.status = row.status,
         mishaps \subseteq mishaps', orphans \subseteq orphans',
         \A v \in Workers : \/ pc'[v] = pc[v] /\ job'[v] = job[v]
                            \/ pc'[v] \notin {"canceling", "tearing"}
                            \/ DeletionOK(v)'
  PROVE  AccountInv'
<1>1. HistoryInv' /\ SuccessionInv'
  BY DEF AccountInv, HistoryInv, SuccessionInv, Versions, Exists, Live, Status
<1>2. RowSays'
  BY DEF AccountInv, RowSays, Says
<1>3. NoSilentCharge'
  BY DEF AccountInv, NoSilentCharge, Live, Exists, Status
<1>4. DeletionsInv'
  <2> SUFFICES ASSUME NEW v \in Workers PROVE DeletionOK(v)'
    BY DEF DeletionsInv
  <2>1. CASE pc'[v] = pc[v] /\ job'[v] = job[v]
    <3>1. JobsType /\ DeletionOK(v)
      BY Parts DEF AccountInv, DeletionsInv
    <3>2. \A s \in Subs : (Exists(s) => Exists(s)') /\ (Live(s)' => Live(s))
      BY DEF Live, Exists, Status
    <3> QED
      BY <2>1, <3>1, <3>2, DeletionStill
  <2>2. CASE pc'[v] \notin {"canceling", "tearing"}
    BY <2>2 DEF DeletionOK
  <2> QED
    BY <2>1, <2>2
<1> QED
  BY <1>1, <1>2, <1>3, <1>4 DEF AccountInv

\* A request goes to a step that is not one of a deletion.
LEMMA GoesElsewhere ==
  ASSUME IInv, AccountInv, NEW w \in Workers, NEW step \in Steps, NEW j,
         Goto(w, step, j), step \notin {"canceling", "tearing"},
         UNCHANGED <<stripe, alive, written, disorder>>,
         row'.sub = row.sub, row'.status = row.status,
         mishaps \subseteq mishaps', orphans \subseteq orphans'
  PROVE  AccountInv'
<1>1. pc \in [Workers -> Steps] /\ job \in [Workers -> Job]
  BY Parts DEF JobsType
<1>2. pc'[w] = step /\ \A v \in Workers \ {w} : pc'[v] = pc[v] /\ job'[v] = job[v]
  BY <1>1 DEF Goto
<1> QED
  BY <1>2, QuietAccount

LEMMA ElsewhereAccount ==
  ASSUME IInv, AccountInv, NEW w \in Workers,
         Webhook(w) \/ Pull(w) \/ Fail(w) \/ StartCheckout(w) \/ FindLive(w) \/ OpenSession(w)
  PROVE  AccountInv'
<1>1. row \in Row
  BY Parts DEF Books, TablesOK
<1>2. CASE \E e \in outbox : HandleEvent(w, e)
  BY <1>2, GoesElsewhere DEF HandleEvent, Begin, Steps, theirs, ghosts, history
<1>3. CASE MarkProcessed(w)
  BY <1>3, GoesElsewhere DEF MarkProcessed, Closed, ClosedBadly, Acknowledge, Finish, Steps,
     theirs, history
<1>4. CASE Refresh(w)
  BY <1>4, GoesElsewhere DEF Refresh, Begin, Steps, theirs, ghosts, history
<1>5. CASE Retrieve(w)
  <2>1. UNCHANGED <<stripe, alive, row, orphans, written, disorder, mishaps>>
    BY <1>5 DEF Retrieve, theirs, ghosts, history
  <2>2. PICK step \in {"retrieved", "idle"} : \E j : Goto(w, step, j)
    BY <1>5 DEF Retrieve, Finish
  <2>3. PICK j : Goto(w, step, j)
    BY <2>2
  <2> QED
    BY <2>1, <2>3, GoesElsewhere DEF Steps
<1>6. CASE Fail(w)
  BY <1>6, GoesElsewhere DEF Fail, Finish, Steps, theirs, history
<1>7. CASE StartCheckout(w)
  BY <1>7, GoesElsewhere DEF StartCheckout, Begin, Steps, theirs, ghosts, history
<1>8. CASE FindLive(w)
  <2>1. UNCHANGED <<stripe, alive, row, orphans, written, disorder>> /\ mishaps \subseteq mishaps'
    BY <1>8 DEF FindLive, Mishap, theirs
  <2>2. PICK step \in {"cleared", "idle"} : \E j : Goto(w, step, j)
    BY <1>8 DEF FindLive, Finish
  <2>3. PICK j : Goto(w, step, j)
    BY <2>2
  <2> QED
    BY <2>1, <2>3, GoesElsewhere DEF Steps
<1>9. CASE OpenSession(w)
  <2>1. row'.sub = row.sub /\ row'.status = row.status
    BY <1>1, <1>9 DEF OpenSession, Row
  <2>2. UNCHANGED <<stripe, alive, orphans, written, disorder, mishaps>> /\ Finish(w)
    BY <1>9 DEF OpenSession, theirs, ghosts, history
  <2> QED
    BY <2>1, <2>2, GoesElsewhere DEF Finish, Steps
<1> QED
  BY <1>2, <1>3, <1>4, <1>5, <1>6, <1>7, <1>8, <1>9 DEF Webhook, Pull, RefreshIfStale

\* A delivery that no request carries.
LEMMA EventsAccount ==
  ASSUME IInv, AccountInv, NEW e \in outbox, GiveUp(e) \/ Replay(e) \/ Refuse(e)
  PROVE  AccountInv'
<1>1. UNCHANGED <<stripe, alive, row, orphans, pc, job, written, disorder, mishaps>>
  BY DEF GiveUp, Replay, Refuse, Acknowledge, theirs, ghosts, history
<1> QED
  BY <1>1, QuietAccount

LEMMA ReadForDeletionAccount ==
  ASSUME IInv, AccountInv, NEW w \in Workers, ReadForDeletion(w)
  PROVE  AccountInv'
<1>1. /\ JobsType /\ row.sub \in Subs \cup {None}
      /\ UNCHANGED <<stripe, alive, row, orphans, written, disorder, mishaps>>
  BY Parts DEF Books, TablesOK, Row, ReadForDeletion, theirs, ghosts, history
<1>2. PICK j \in Job : j.sub = row.sub
                       /\ Goto(w, IF row.sub = None THEN "tearing" ELSE "canceling", j)
  BY <1>1 DEF ReadForDeletion, Begin, NoJob, Job
<1>3. /\ pc'[w] = (IF row.sub = None THEN "tearing" ELSE "canceling") /\ job'[w].sub = row.sub
      /\ \A v \in Workers \ {w} : pc'[v] = pc[v] /\ job'[v] = job[v]
  BY <1>1, <1>2, Moves DEF Steps
<1>4. DeletionOK(w)'
  <2>1. row.sub # None => stripe'[row.sub] # <<>>
    BY <1>1, Parts DEF Books, RowInv, Exists
  <2> QED
    BY <1>3, <2>1 DEF DeletionOK, Exists
<1> QED
  BY <1>1, <1>3, <1>4, QuietAccount

LEMMA CancelFailsAccount ==
  ASSUME IInv, AccountInv, NEW w \in Workers, CancelFails(w)
  PROVE  AccountInv'
<1>1. /\ JobsType /\ JobsInv /\ pc[w] = "canceling" /\ DeletionOK(w)
      /\ UNCHANGED <<stripe, alive, row, written, disorder>>
      /\ Goto(w, "tearing", job[w])
      /\ mishaps \subseteq mishaps' /\ orphans \subseteq orphans'
      /\ mishaps' # {} \/ job[w].sub \in orphans'
  BY Parts DEF CancelFails, BookOrphan, Mishap, theirs, AccountInv, DeletionsInv
<1>2. job[w] \in Job
  BY <1>1 DEF JobsType
<1>3. /\ pc'[w] = "tearing" /\ job'[w] = job[w]
      /\ \A v \in Workers \ {w} : pc'[v] = pc[v] /\ job'[v] = job[v]
  BY <1>1, <1>2, Moves DEF Steps
<1>4. DeletionOK(w)'
  BY <1>1, <1>3 DEF DeletionOK, Exists
<1> QED
  BY <1>1, <1>3, <1>4, QuietAccount

\* The write: what is written at last is the newest, or it is known that it is not.
LEMMA ApplySubscriptionAccount ==
  ASSUME IInv, AccountInv, NEW w \in Workers, ApplySubscription(w)
  PROVE  AccountInv'
<1>0. JobsType /\ JobsInv /\ Books
  BY Parts
<1>1. PICK s \in Subs, v \in Nat :
        s = job[w].sub /\ v = job[w].version /\ v \in 1..Len(stripe[s])
  BY <1>0 DEF ApplySubscription, JobsInv, JobOK, JobsType, Versions
<1>2. /\ row' = Applied(s, v)
      /\ written' = [written EXCEPT ![s] = IF v > @ THEN v ELSE @]
      /\ disorder' = Older(s, v)
      /\ alive /\ UNCHANGED <<stripe, alive, orphans, mishaps>>
      /\ \E step \in {"applied", "idle"} : \E j : Goto(w, step, j)
  BY <1>1 DEF ApplySubscription, Finish, theirs
<1>3. \A t \in Subs : Len(stripe[t]) \in Nat /\ written[t] \in Nat
  BY <1>0 DEF Books, TablesOK
<1>4. written \in [Subs -> Nat] /\ pc \in [Workers -> Steps] /\ job \in [Workers -> Job]
  BY <1>0 DEF Books, TablesOK, JobsType
<1>5. /\ written'[s] = IF v > written[s] THEN v ELSE written[s]
      /\ \A t \in Subs \ {s} : written'[t] = written[t]
  BY <1>1, <1>2, <1>4
<1>6. HistoryInv'
  <2>1. \A t \in Subs : written'[t] <= Len(stripe'[t])
    BY <1>1, <1>2, <1>3, <1>5 DEF AccountInv, HistoryInv
  <2> QED
    BY <1>2, <2>1 DEF AccountInv, HistoryInv, Versions, Exists
<1>7. SuccessionInv'
  BY <1>2 DEF AccountInv, SuccessionInv, Live, Exists, Status
<1>8. RowSays'
  <2> SUFFICES ASSUME ~Older(s, v) PROVE Says(s)'
    BY <1>1, <1>2 DEF RowSays
  <2>1. written'[s] = v /\ v > 0
    BY <1>1, <1>3, <1>5 DEF Older
  <2>2. ASSUME NEW t \in Subs, t > s PROVE written'[t] = 0
    BY <1>1, <1>3, <1>5, <2>2 DEF Older
  <2>3. /\ row'.status = Mapped(stripe'[s][v])
        /\ row'.sub = IF stripe'[s][v] = "canceled" THEN None ELSE s
    BY <1>2 DEF Applied
  <2> QED
    BY <2>1, <2>2, <2>3 DEF Says
<1>9. DeletionsInv'
  <2> SUFFICES ASSUME NEW x \in Workers PROVE DeletionOK(x)'
    BY DEF DeletionsInv
  <2>1. CASE x = w
    <3>1. pc'[w] \in {"applied", "idle"}
      BY <1>2, <1>4 DEF Goto
    <3> QED
      BY <2>1, <3>1 DEF DeletionOK
  <2>2. CASE x # w
    <3>1. pc'[x] = pc[x] /\ job'[x] = job[x]
      BY <1>2, <1>4, <2>2 DEF Goto
    <3>2. \A t \in Subs : (Exists(t) => Exists(t)') /\ (Live(t)' => Live(t))
      BY <1>2 DEF Live, Exists, Status
    <3> QED
      BY <1>0, <1>2, <3>1, <3>2, DeletionStill DEF AccountInv, DeletionsInv
  <2> QED
    BY <2>1, <2>2
<1>10. NoSilentCharge'
  BY <1>2 DEF NoSilentCharge
<1> QED
  BY <1>6, <1>7, <1>8, <1>9, <1>10 DEF AccountInv
-----------------------------------------------------------------------------
(* A subscription starts, changes or ends *)

\* A subscription that starts, or that goes on from a status that is not its end.
LEMMA BecomesAccount ==
  ASSUME IInv, AccountInv, NEW s \in Subs, NEW status \in Statuses, Becomes(s, status),
         Live(s) \/ (~Exists(s) /\ \A t \in Subs : t < s => Exists(t)),
         ~Exists(s) => "overlap" \in mishaps \/ \A t \in Subs : ~Live(t),
         UNCHANGED <<alive, row, orphans, written, disorder, mishaps>>
  PROVE  /\ HistoryInv' /\ SuccessionInv' /\ RowSays' /\ NoSilentCharge'
         /\ \A t \in Subs : (Exists(t) => Exists(t)') /\ (Exists(t) /\ Live(t)' => Live(t))
<1>0. Books
  BY Parts
<1>1. /\ stripe \in [Subs -> Seq(Statuses)]
      /\ Len(stripe[s]) \in Nat /\ Len(stripe'[s]) = Len(stripe[s]) + 1
      /\ \A t \in Subs \ {s} : stripe'[t] = stripe[t]
      /\ stripe'[s] # <<>> /\ stripe'[s][Len(stripe[s]) + 1] = status
      /\ stripe' = [stripe EXCEPT ![s] = Append(stripe[s], status)]
  BY <1>0, BecomesFacts DEF Books, TablesOK, Becomes
<1>2. \A t \in Subs : Len(stripe[t]) \in Nat /\ written[t] \in Nat
  BY <1>0, <1>1 DEF Books, TablesOK
<1>3. \A v \in 1..Len(stripe[s]) : stripe'[s][v] = stripe[s][v]
  BY <1>1, AppendProperties
<1>4. /\ \A t \in Subs \ {s} : (Exists(t)' <=> Exists(t)) /\ (Live(t)' <=> Live(t))
      /\ Exists(s)' /\ (Exists(s) => Live(s))
  BY <1>1 DEF Live, Exists, Status
<1>5. HistoryInv'
  <2>1. ASSUME NEW t \in Subs PROVE written'[t] <= Len(stripe'[t])
    BY <1>1, <1>2 DEF AccountInv, HistoryInv
  <2>2. ASSUME NEW v \in 1..Len(stripe'[s]), stripe'[s][v] \notin LiveStatuses
        PROVE  v = Len(stripe'[s])
    <3>1. CASE v = Len(stripe[s]) + 1
      BY <1>1, <3>1
    <3>2. CASE v \in 1..Len(stripe[s])
      <4>1. stripe[s][v] \notin LiveStatuses /\ v = Len(stripe[s]) /\ stripe[s] # <<>>
        BY <1>1, <1>3, <2>2, <3>2 DEF AccountInv, HistoryInv, Versions
      <4>2. Live(s)
        BY <4>1 DEF Exists
      <4> QED
        BY <4>1, <4>2 DEF Live, Status
    <3> QED
      BY <1>1, <3>1, <3>2
  <2>3. ASSUME NEW t \in Subs, NEW v \in 1..Len(stripe'[t]), stripe'[t][v] \notin LiveStatuses
        PROVE  v = Len(stripe'[t])
    BY <1>1, <2>2, <2>3 DEF AccountInv, HistoryInv, Versions
  <2>4. ASSUME NEW t \in Subs, NEW u \in Subs, Exists(t)', u < t
        PROVE  Exists(u)'
    <3>1. CASE t = s /\ ~Exists(s)
      <4>1. Exists(u) /\ u # s
        BY <2>4, <3>1 DEF Live
      <4> QED
        BY <1>4, <4>1
    <3>2. CASE Exists(t)
      <4>1. Exists(u)
        BY <2>4, <3>2 DEF AccountInv, HistoryInv
      <4> QED
        BY <1>4, <4>1
    <3> QED
      BY <1>4, <2>4, <3>1, <3>2
  <2> QED
    BY <2>1, <2>3, <2>4 DEF HistoryInv, Versions
<1>6. SuccessionInv'
  <2> SUFFICES ASSUME "overlap" \notin mishaps, NEW t \in Subs, NEW u \in Subs, Exists(t)', u < t
               PROVE  ~Live(u)'
    BY DEF SuccessionInv
  <2>1. CASE Exists(s)
    BY <1>4, <2>1 DEF AccountInv, SuccessionInv
  <2>2. CASE ~Exists(s)
    <3>1. u # s
      BY <1>4, <2>2 DEF AccountInv, HistoryInv
    <3> QED
      BY <1>4, <2>2, <3>1
  <2> QED
    BY <2>1, <2>2
<1>7. RowSays'
  <2>1. ASSUME NEW t \in Subs, Says(t) PROVE Says(t)'
    <3>1. written[t] \in 1..Len(stripe[t])
      BY <1>2, <2>1 DEF Says, AccountInv, HistoryInv
    <3>2. stripe'[t][written[t]] = stripe[t][written[t]]
      BY <1>1, <1>3, <3>1
    <3> QED
      BY <2>1, <3>2 DEF Says
  <2>2. CASE alive /\ ~disorder
    <3>1. CASE (\A t \in Subs : written[t] = 0) /\ row.sub = None /\ row.status = "free"
      BY <3>1 DEF RowSays
    <3>2. CASE \E t \in Subs : Says(t)
      <4>1. \E t \in Subs : Says(t)'
        BY <2>1, <3>2
      <4> QED
        BY <4>1 DEF RowSays
    <3> QED
      BY <2>2, <3>1, <3>2 DEF AccountInv, RowSays
  <2> QED
    BY <2>2 DEF RowSays
<1>8. NoSilentCharge'
  <2> SUFFICES ASSUME ~alive, mishaps = {}, ~disorder, NEW t \in Subs, Live(t)'
               PROVE  t \in orphans \/ written[t] = 0
    BY DEF NoSilentCharge
  <2>1. CASE Live(t)
    BY <2>1 DEF AccountInv, NoSilentCharge
  <2>2. CASE ~Live(t)
    <3>1. t = s /\ ~Exists(s)
      BY <1>4, <2>2
    <3> QED
      BY <1>1, <1>2, <3>1 DEF AccountInv, HistoryInv, Exists
  <2> QED
    BY <2>1, <2>2
<1> QED
  BY <1>4, <1>5, <1>6, <1>7, <1>8

LEMMA PayOrChangeAccount ==
  ASSUME IInv, AccountInv, NEW s \in Subs, NEW status \in Statuses,
         Pay(s, status) \/ Change(s, status)
  PROVE  AccountInv'
<1>0. JobsType /\ CheckoutInv
  BY Parts
<1>1. UNCHANGED <<alive, row, orphans, written, disorder, mishaps, pc, job>>
  BY DEF Pay, Change, ghosts, history
<1>2. Becomes(s, status)
  BY DEF Pay, Change, Runs
<1>3. /\ Live(s) \/ (~Exists(s) /\ \A t \in Subs : t < s => Exists(t))
      /\ ~Exists(s) => "overlap" \in mishaps \/ \A t \in Subs : ~Live(t)
  BY <1>0 DEF Pay, Change, Live, CheckoutInv
<1>4. /\ HistoryInv' /\ SuccessionInv' /\ RowSays' /\ NoSilentCharge'
      /\ \A t \in Subs : (Exists(t) => Exists(t)') /\ (Exists(t) /\ Live(t)' => Live(t))
  BY <1>1, <1>2, <1>3, BecomesAccount
<1>5. ASSUME NEW v \in Workers PROVE DeletionOK(v)'
  BY <1>0, <1>1, <1>4, DeletionStill DEF AccountInv, DeletionsInv
<1> QED
  BY <1>4, <1>5 DEF AccountInv, DeletionsInv

\* The subscription that a deletion ends is over.
LEMMA CancelAtStripeAccount ==
  ASSUME IInv, AccountInv, NEW w \in Workers, CancelAtStripe(w)
  PROVE  AccountInv'
<1>0. JobsType /\ JobsInv /\ Books
  BY Parts
<1>1. PICK s \in Subs : s = job[w].sub
  BY <1>0 DEF CancelAtStripe, JobsInv, JobOK
<1>2. /\ "canceled" \in Statuses /\ Becomes(s, "canceled") /\ Live(s) /\ Exists(s)
      /\ Goto(w, "tearing", job[w]) /\ job[w] \in Job
      /\ UNCHANGED <<alive, row, orphans, written, disorder, mishaps>>
  BY <1>0, <1>1 DEF CancelAtStripe, Statuses, Live, JobsType, ghosts, history
<1>3. /\ HistoryInv' /\ SuccessionInv' /\ RowSays' /\ NoSilentCharge'
      /\ \A t \in Subs : (Exists(t) => Exists(t)') /\ (Exists(t) /\ Live(t)' => Live(t))
  BY <1>2, BecomesAccount
<1>4. /\ pc'[w] = "tearing" /\ job'[w].sub = s
      /\ \A v \in Workers \ {w} : pc'[v] = pc[v] /\ job'[v] = job[v]
  BY <1>0, <1>1, <1>2, Moves DEF Steps
<1>5. Exists(s)' /\ ~Live(s)'
  BY <1>0, <1>2, <1>3, BecomesLive DEF LiveStatuses
<1>6. ASSUME NEW v \in Workers PROVE DeletionOK(v)'
  <2>1. CASE v = w
    BY <1>4, <1>5, <2>1 DEF DeletionOK, Exists, Live, Status
  <2>2. CASE v # w
    BY <1>0, <1>2, <1>3, <1>4, <2>2, DeletionStill DEF AccountInv, DeletionsInv
  <2> QED
    BY <2>1, <2>2
<1> QED
  BY <1>3, <1>6 DEF AccountInv, DeletionsInv

\* The end of the chapter: the row named the newest subscription that was ever written, the
\* request had read the same, and the ones before it were over.
LEMMA TeardownAccount ==
  ASSUME IInv, AccountInv, NEW w \in Workers, Teardown(w)
  PROVE  AccountInv'
<1>0. JobsType /\ Books
  BY Parts
<1>1. PICK j \in Job : j = job[w]
  BY <1>0 DEF JobsType
<1>2. /\ pc[w] = "tearing" /\ alive /\ alive' = FALSE
      /\ UNCHANGED <<stripe, orphans, written, disorder>>
      /\ mishaps \subseteq mishaps' /\ (mishaps' = {} => row.sub = j.sub)
      /\ Goto(w, "idle", NoJob)
  BY <1>1 DEF Teardown, Mishap, Finish, theirs
<1>3. \A t \in Subs : (Exists(t)' <=> Exists(t)) /\ (Live(t)' <=> Live(t))
  BY <1>2 DEF Live, Exists, Status
<1>4. HistoryInv' /\ SuccessionInv'
  BY <1>2 DEF AccountInv, HistoryInv, SuccessionInv, Versions, Exists, Live, Status
<1>5. RowSays'
  BY <1>2 DEF RowSays
<1>6. ASSUME NEW v \in Workers PROVE DeletionOK(v)'
  <2>1. CASE v = w
    <3>1. pc'[w] = "idle"
      BY <1>0, <1>2 DEF Goto, JobsType
    <3> QED
      BY <2>1, <3>1 DEF DeletionOK
  <2>2. CASE v # w
    <3>1. pc'[v] = pc[v] /\ job'[v] = job[v]
      BY <1>0, <1>2, <2>2 DEF Goto, JobsType
    <3> QED
      BY <1>0, <1>2, <1>3, <3>1, DeletionStill DEF AccountInv, DeletionsInv
  <2> QED
    BY <2>1, <2>2
<1>7. NoSilentCharge'
  <2> SUFFICES ASSUME mishaps' = {}, ~disorder, NEW t \in Subs, Live(t)
               PROVE  t \in orphans \/ written[t] = 0
    BY <1>2, <1>3 DEF NoSilentCharge
  <2>1. mishaps = {} /\ row.sub = j.sub /\ DeletionOK(w)
    BY <1>2 DEF AccountInv, DeletionsInv
  <2>2. written[t] \in Nat /\ Len(stripe[t]) \in Nat
    BY <1>0 DEF Books, TablesOK
  <2>3. CASE \A s \in Subs : written[s] = 0
    BY <2>3
  <2>4. ASSUME NEW s \in Subs, Says(s)
        PROVE  t \in orphans \/ written[t] = 0
    <3>1. CASE t > s
      BY <2>4, <3>1 DEF Says
    <3>2. written[s] \in 1..Len(stripe[s]) /\ stripe[s] # <<>>
      BY <1>0, <2>4 DEF Says, AccountInv, HistoryInv, Books, TablesOK
    <3>3. CASE t < s
      BY <2>1, <3>2, <3>3 DEF AccountInv, SuccessionInv, Exists
    <3>4. CASE t = s /\ row.sub = None
      <4>1. stripe[s][written[s]] = "canceled" /\ written[s] = Len(stripe[s])
        BY <2>4, <3>2, <3>4 DEF Says, AccountInv, HistoryInv, Versions, LiveStatuses
      <4> QED
        BY <3>4, <4>1 DEF Live, Status, LiveStatuses
    <3>5. CASE t = s /\ row.sub # None
      <4>1. j.sub = s
        BY <2>1, <2>4, <3>5 DEF Says
      <4> QED
        BY <1>1, <1>2, <2>1, <3>5, <4>1 DEF DeletionOK
    <3> QED
      BY <3>1, <3>3, <3>4, <3>5
  <2> QED
    BY <1>2, <2>3, <2>4 DEF AccountInv, RowSays
<1> QED
  BY <1>4, <1>5, <1>6, <1>7 DEF AccountInv, DeletionsInv

-----------------------------------------------------------------------------

LEMMA InitAccount == Init => AccountInv
<1> SUFFICES ASSUME Init PROVE AccountInv
  OBVIOUS
<1>1. \A s \in Subs : stripe[s] = <<>> /\ written[s] = 0 /\ ~Live(s) /\ ~Exists(s)
  BY DEF Init, Live, Exists
<1>2. HistoryInv /\ SuccessionInv
  BY <1>1 DEF HistoryInv, SuccessionInv, Versions
<1>3. RowSays /\ NoSilentCharge /\ DeletionsInv
  BY <1>1 DEF Init, RowSays, FreeRow, NoSilentCharge, DeletionsInv, DeletionOK
<1> QED
  BY <1>2, <1>3 DEF AccountInv

LEMMA NextAccount == IInv /\ AccountInv /\ [Next]_vars => AccountInv'
<1> SUFFICES ASSUME IInv, AccountInv, [Next]_vars PROVE AccountInv'
  OBVIOUS
<1>1. CASE UNCHANGED vars
  BY <1>1, QuietAccount DEF vars
<1>2. ASSUME NEW w \in Workers, Webhook(w) \/ Pull(w) \/ Fail(w) PROVE AccountInv'
  BY <1>2, ElsewhereAccount
<1>3. ASSUME NEW w \in Workers, Checkout(w) PROVE AccountInv'
  BY <1>3, ElsewhereAccount DEF Checkout
<1>4. ASSUME NEW w \in Workers, DeleteOrg(w) PROVE AccountInv'
  BY <1>4, ReadForDeletionAccount, CancelAtStripeAccount, CancelFailsAccount, TeardownAccount
     DEF DeleteOrg
<1>5. ASSUME NEW w \in Workers, Request(w) PROVE AccountInv'
  BY <1>2, <1>3, <1>4, <1>5, ApplySubscriptionAccount DEF Request
<1>6. ASSUME NEW s \in Subs, NEW status \in Statuses, Pay(s, status) \/ Change(s, status)
      PROVE  AccountInv'
  BY <1>6, PayOrChangeAccount
<1>7. ASSUME NEW e \in outbox, GiveUp(e) \/ Replay(e) \/ Refuse(e) PROVE AccountInv'
  BY <1>7, EventsAccount
<1> QED
  BY <1>1, <1>5, <1>6, <1>7 DEF Next

\* What the last two properties rest on: the row is as the last write in order left it, and
\* a deletion has ended, booked or visibly missed the subscription it went past.
THEOREM AccountAlways == Spec => []AccountInv
<1>1. AccountInv /\ IInv /\ [Next]_vars => AccountInv'
  BY NextAccount
<1> QED
  BY InitAccount, Inductive, <1>1, PTL DEF Spec

\* webhook.ts: when all is delivered and the last write was not decided from something older
\* than a write before it, the row is what Stripe has.
THEOREM InOrderIsTrueAlways == Spec => []InOrderIsTrue
<1>1. IInv /\ AccountInv => InOrderIsTrue
  <2> SUFFICES ASSUME IInv, AccountInv, AtRest, lost = {}, ~disorder PROVE Reflects
    BY DEF InOrderIsTrue
  <2>1. /\ Books /\ alive
        /\ \A s \in Subs : written[s] \in Nat /\ Len(stripe[s]) \in Nat /\ stripe[s] \in Seq(Statuses)
    BY Parts DEF AtRest, Books, TablesOK
  <2>2. \A s \in Subs : written[s] = Len(stripe[s])
    <3> SUFFICES ASSUME NEW s \in Subs PROVE written[s] = Len(stripe[s])
      OBVIOUS
    <3>1. written[s] <= Len(stripe[s])
      BY DEF AccountInv, HistoryInv
    <3>2. ~(Len(stripe[s]) > written[s])
      BY <2>1 DEF Books, AckedIsWritten, AtRest
    <3> QED
      BY <2>1, <3>1, <3>2
  <2>3. \A s \in Subs : Exists(s) <=> written[s] > 0
    BY <2>1, <2>2 DEF Exists
  <2>4. CASE (\A s \in Subs : written[s] = 0) /\ row.sub = None /\ row.status = "free"
    BY <2>3, <2>4 DEF Reflects
  <2>5. ASSUME NEW s \in Subs, Says(s) PROVE Reflects
    <3>1. Newest(s)
      BY <2>1, <2>3, <2>5 DEF Says, Newest
    <3>2. /\ row.status = Mapped(Status(s))
          /\ row.sub = IF Status(s) = "canceled" THEN None ELSE s
      BY <2>2, <2>5 DEF Says, Status
    <3> QED
      BY <3>1, <3>2 DEF Reflects, Newest
  <2> QED
    BY <2>1, <2>4, <2>5 DEF AccountInv, RowSays
<1> QED
  BY Inductive, AccountAlways, <1>1, PTL

\* deleteOrg: a subscription that a deleted chapter goes on paying for is on record, or was
\* never heard of, unless one of the moments came that the code does not check for.
THEOREM NoSilentChargeAlways == Spec => []NoSilentCharge
<1>1. AccountInv => NoSilentCharge
  BY DEF AccountInv
<1> QED
  BY AccountAlways, <1>1, PTL

=============================================================================
