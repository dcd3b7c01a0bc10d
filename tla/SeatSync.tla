------------------------------ MODULE SeatSync ------------------------------
(***************************************************************************)
(* Keeping Stripe's seat quantity in step with one chapter's roster, as    *)
(* lib/billing/sync.ts, lib/billing/apply.ts and startCheckout do it.      *)
(*                                                                         *)
(* Every roster change commits first and then dispatches a handler, which  *)
(* recounts, writes the Subscription row and only then calls Stripe.  A    *)
(* webhook or a refresh goes the other way: it retrieves the subscription  *)
(* and writes what it saw into the row.  Handlers run concurrently, each   *)
(* statement and each call to Stripe is an action, and a handler may die   *)
(* between any two (dispatch.ts stops waiting after three seconds and the  *)
(* platform may freeze what is still running).                             *)
(*                                                                         *)
(* One Stripe subscription, which starts, lives and ends.  The price band  *)
(* is a function of the count it is written with, so it is left out.       *)
(***************************************************************************)
EXTENDS Integers

CONSTANTS
  Workers,      \* concurrent handlers
  Counts,       \* sizes the roster can have
  Subscribed,   \* does the chapter pay already when the history starts?
  Checkouts,    \* bound: sizes of the roster at which a checkout is started
  MaxChanges,   \* bound: roster changes in one history
  None          \* null

ASSUME CountsAssumption == Counts \subseteq Nat /\ None \notin Nat
ASSUME SubscribedAssumption == Subscribed \in BOOLEAN

VARIABLES
  members,    \* what countBillableMembers returns now
  changes,    \* how often the roster changed, for the bound
  todo,       \* committed changes whose handler has not started
  row,        \* the chapter's Subscription row
  stripe,     \* the subscription as Stripe has it
  sessions,   \* checkouts that may still be paid, by quantity
  pc,         \* where each handler is
  job,        \* what each handler remembers
  mishaps     \* ghost: what went wrong so far of the things that can

vars == <<members, changes, todo, row, stripe, sessions, pc, job, mishaps>>

Maybe == Counts \cup {None}

\* item: is stripeItemId set?  billable is None while there is no row.
Row == [item : BOOLEAN, synced : Maybe, billable : Maybe, pending : BOOLEAN]
Stripe == [state : {"none", "live", "ended"}, quantity : Maybe]

\* count is the headcount a handler works with, seen what it retrieved.
Job == [count : Maybe, seen : Stripe]

NoStripe == [state |-> "none", quantity |-> None]
NoJob == [count |-> None, seen |-> NoStripe]

Steps == {"idle", "counted", "local", "owed", "pushing", "pushed", "retrieved",
          "quoted", "opened"}

Mishaps == {"stale", "lost", "unrecorded", "checkout"}

Init ==
  /\ members \in Counts
  /\ changes = 0 /\ todo = 0
  /\ row = IF Subscribed
           THEN [item |-> TRUE, synced |-> members, billable |-> members, pending |-> FALSE]
           ELSE [item |-> FALSE, synced |-> None, billable |-> None, pending |-> FALSE]
  /\ stripe = IF Subscribed THEN [state |-> "live", quantity |-> members] ELSE NoStripe
  /\ sessions = {}
  /\ pc = [w \in Workers |-> "idle"]
  /\ job = [w \in Workers |-> NoJob]
  /\ mishaps = {}

Goto(w, step, j) == pc' = [pc EXCEPT ![w] = step] /\ job' = [job EXCEPT ![w] = j]
Finish(w) == Goto(w, "idle", NoJob)

Idle == \A w \in Workers : pc[w] = "idle"

Begin(w, step, j) == pc[w] = "idle" /\ Goto(w, step, j)

Mishap(kind, happens) == mishaps' = IF happens THEN mishaps \cup {kind} ELSE mishaps

\* The roster has changed since w counted, and whoever was told has started.
CountIsStale(w) == job[w].count # members /\ todo = 0

-----------------------------------------------------------------------------
(* The roster *)

\* Somebody joins, leaves, is removed, archived or restored.
Change(n) ==
  /\ changes < MaxChanges
  /\ n \in {members - 1, members + 1}
  /\ members' = n
  /\ changes' = changes + 1
  /\ todo' = todo + 1
  /\ UNCHANGED <<row, stripe, sessions, pc, job, mishaps>>

\* The process dies between the commit and the dispatch.
Drop ==
  /\ todo > 0
  /\ todo' = todo - 1
  /\ Mishap("lost", TRUE)
  /\ UNCHANGED <<members, changes, row, stripe, sessions, pc, job>>

-----------------------------------------------------------------------------
(* reconcileSeats *)

Committed == todo > 0

\* sync-seats.ts: the handler of a roster change counts.
Dispatch(w) ==
  /\ Committed
  /\ todo' = todo - 1
  /\ Begin(w, "counted", [NoJob EXCEPT !.count = members])
  /\ UNCHANGED <<members, changes, row, stripe, sessions, mishaps>>

\* invoice.upcoming, or an admin: POST /api/billing/sync, or a page load that
\* found the flag.
Recount(w) ==
  /\ Begin(w, "counted", [NoJob EXCEPT !.count = members])
  /\ UNCHANGED <<members, changes, todo, row, stripe, sessions, mishaps>>

NeedsPush(w) == row.item /\ row.synced # job[w].count

\* The row is read: is there an item to push to, and is it behind?
ReadRow(w) ==
  /\ pc[w] = "counted"
  /\ Goto(w, IF NeedsPush(w) THEN "owed" ELSE "local", job[w])
  /\ UNCHANGED <<members, changes, todo, row, stripe, sessions, mishaps>>

FlagNever(w) == FALSE                                   \* mutant: no flag up front
Flag(w) == pc[w] = "owed"

\* The local write, which raises or clears the flag.
WriteLocal(w) ==
  /\ pc[w] \in {"local", "owed"}
  /\ row' = [row EXCEPT !.billable = job[w].count, !.pending = Flag(w)]
  /\ IF pc[w] = "owed" THEN Goto(w, "pushing", job[w]) ELSE Finish(w)
  /\ Mishap("stale", CountIsStale(w) \/ (pc[w] = "owed") # NeedsPush(w))
  /\ UNCHANGED <<members, changes, todo, stripe, sessions>>

\* Stripe takes the quantity, and says so.
Push(w) ==
  /\ pc[w] = "pushing"
  /\ stripe.state = "live"
  /\ stripe' = [stripe EXCEPT !.quantity = job[w].count]
  /\ Goto(w, "pushed", job[w])
  /\ Mishap("stale", CountIsStale(w))
  /\ UNCHANGED <<members, changes, todo, row, sessions>>

\* The call fails; Stripe may have taken the quantity all the same.
PushFails(w) ==
  /\ pc[w] = "pushing"
  /\ \/ UNCHANGED <<stripe, mishaps>>
     \/ /\ stripe.state = "live"
        /\ stripe' = [stripe EXCEPT !.quantity = job[w].count]
        /\ Mishap("unrecorded", TRUE)
  /\ Finish(w)
  /\ UNCHANGED <<members, changes, todo, row, sessions>>

\* mutant: the quantity that was pushed is not recorded
RecordNothing(r, count) == [r EXCEPT !.billable = count, !.pending = FALSE]
Recorded(r, count) ==
  [r EXCEPT !.billable = count, !.synced = count, !.pending = FALSE]

WriteSynced(w) ==
  /\ pc[w] = "pushed"
  /\ row' = Recorded(row, job[w].count)
  /\ Mishap("stale", CountIsStale(w) \/ stripe.quantity # job[w].count)
  /\ Finish(w)
  /\ UNCHANGED <<members, changes, todo, stripe, sessions>>

\* A handler dies.  Of a reconcile that dies before its local write nothing is
\* left; one that dies after the push leaves Stripe ahead of the row.
Die(w) ==
  /\ pc[w] # "idle"
  /\ IF pc[w] = "pushed" THEN Mishap("unrecorded", TRUE)
       ELSE Mishap("lost", pc[w] \in {"counted", "local", "owed"})
  /\ Finish(w)
  /\ UNCHANGED <<members, changes, todo, row, stripe, sessions>>

-----------------------------------------------------------------------------
(* applySubscription, from a webhook or from refreshFromStripe *)

Retrieve(w) ==
  /\ stripe.state # "none"
  /\ Begin(w, "retrieved", [NoJob EXCEPT !.seen = stripe])
  /\ UNCHANGED <<members, changes, todo, row, stripe, sessions, mishaps>>

\* What was retrieved replaces what the row says of Stripe; the flag and the
\* local count stay, unless there was no row.
PulledUnsynced(r, seen) == [r EXCEPT !.item = seen.state = "live"]   \* mutant
Pulled(r, seen) ==
  [r EXCEPT !.item = seen.state = "live",
            !.synced = IF seen.state = "live" THEN seen.quantity ELSE None,
            !.billable = IF @ = None THEN seen.quantity ELSE @]

\* The first news of a subscription: nothing recounts, though the roster may have
\* changed since the checkout counted it.
Apply(w) ==
  LET seen == job[w].seen IN
  /\ pc[w] = "retrieved"
  /\ row' = Pulled(row, seen)
  /\ IF seen # stripe THEN Mishap("stale", TRUE)
       ELSE Mishap("checkout", ~row.item /\ seen.quantity # members)
  /\ Finish(w)
  /\ UNCHANGED <<members, changes, todo, stripe, sessions>>

-----------------------------------------------------------------------------
(* startCheckout, and what happens on Stripe's pages *)

StartCheckout(w) ==
  /\ members \in Checkouts
  /\ Begin(w, "quoted", [NoJob EXCEPT !.count = members])
  /\ UNCHANGED <<members, changes, todo, row, stripe, sessions, mishaps>>

\* findLiveSubscription finds none, and a session for the count is created.
OpenSession(w) ==
  /\ pc[w] = "quoted"
  /\ stripe.state # "live"
  /\ sessions' = sessions \cup {job[w].count}
  /\ Goto(w, "opened", job[w])
  /\ UNCHANGED <<members, changes, todo, row, stripe, mishaps>>

RefuseCheckout(w) ==
  /\ pc[w] = "quoted"
  /\ stripe.state = "live"
  /\ Finish(w)
  /\ UNCHANGED <<members, changes, todo, row, stripe, sessions, mishaps>>

\* The customer is recorded, and the count with it.
RecordCheckout(w) ==
  /\ pc[w] = "opened"
  /\ row' = [row EXCEPT !.billable = job[w].count]
  /\ Mishap("stale", CountIsStale(w))
  /\ Finish(w)
  /\ UNCHANGED <<members, changes, todo, stripe, sessions>>

\* The admin pays for the quantity the session was opened with.
Subscribe(n) ==
  /\ stripe.state = "none"
  /\ n \in sessions
  /\ stripe' = [state |-> "live", quantity |-> n]
  /\ sessions' = sessions \ {n}
  /\ UNCHANGED <<members, changes, todo, row, pc, job, mishaps>>

\* The subscription is cancelled for good.
End ==
  /\ stripe.state = "live"
  /\ stripe' = [stripe EXCEPT !.state = "ended"]
  /\ UNCHANGED <<members, changes, todo, row, sessions, pc, job, mishaps>>

-----------------------------------------------------------------------------

Reconcile(w) ==
  \/ Dispatch(w) \/ Recount(w) \/ ReadRow(w) \/ WriteLocal(w)
  \/ Push(w) \/ PushFails(w) \/ WriteSynced(w)

Pull(w) == Retrieve(w) \/ Apply(w)

Checkout(w) ==
  StartCheckout(w) \/ OpenSession(w) \/ RefuseCheckout(w) \/ RecordCheckout(w)

Handler(w) == Reconcile(w) \/ Pull(w) \/ Checkout(w) \/ Die(w)

Next ==
  \/ \E w \in Workers : Handler(w)
  \/ \E n \in Counts : Change(n) \/ Subscribe(n)
  \/ Drop \/ End

Spec == Init /\ [][Next]_vars

(***************************************************************************)
(* Fairness.  A handler that has started goes on or dies.  Every billing   *)
(* period brings invoice.paid (a pull) and invoice.upcoming (a recount),   *)
(* Stripe redelivers what failed, and no statement, and not the call to    *)
(* Stripe, fails for everybody who comes to it for ever.  Nothing is       *)
(* assumed of roster changes, of page loads or of the support button.      *)
(***************************************************************************)
Fairness ==
  /\ \A w \in Workers : WF_vars(pc[w] # "idle" /\ Handler(w))
  /\ SF_vars(\E w \in Workers : Recount(w))
  /\ SF_vars(\E w \in Workers : Retrieve(w))
  /\ SF_vars(\E w \in Workers : ReadRow(w))
  /\ SF_vars(\E w \in Workers : WriteLocal(w))
  /\ SF_vars(\E w \in Workers : Push(w))
  /\ SF_vars(\E w \in Workers : Apply(w))

FairSpec == Spec /\ Fairness

-----------------------------------------------------------------------------

TypeOK ==
  /\ members \in Counts /\ changes \in Nat /\ todo \in Nat
  /\ row \in Row /\ stripe \in Stripe
  /\ sessions \subseteq Counts
  /\ pc \in [Workers -> Steps]
  /\ job \in [Workers -> Job]
  /\ mishaps \subseteq Mishaps

AtRest == Idle /\ todo = 0

\* Nothing that is billed for is out of step without one of the mishaps: then,
\* at rest, the row has the true headcount, and knows what Stripe has.
InStep ==
  AtRest /\ mishaps = {} =>
    /\ row.billable \in {None, members}
    /\ row.item /\ stripe.state = "live" => row.synced = stripe.quantity

\* sync.ts: "the worst case is a seatSyncPendingAt timestamp", the flag that says
\* a push is owed.  Without a mishap that is so.
OwedIsFlagged ==
  AtRest /\ mishaps = {} /\ row.item /\ stripe.state = "live" =>
    row.pending \/ stripe.quantity = members

\* The same whatever happens, as the comment has it, as long as every roster
\* change got as far as its local write.
AlwaysFlagged ==
  AtRest /\ "lost" \notin mishaps /\ row.item /\ stripe.state = "live" =>
    row.pending \/ row.billable # row.synced \/ stripe.quantity = members

-----------------------------------------------------------------------------
(***************************************************************************)
(* The inductive invariant: before things are at rest, somebody is on the  *)
(* way who will put right what is not right yet.                           *)
(***************************************************************************)

\* Handlers that have a count, and those of them that have not written it yet.
Counted == {"counted", "local", "owed", "pushing", "pushed", "quoted", "opened"}
Unwritten == {"counted", "local", "owed"}

JobsInv ==
  \A w \in Workers :
    /\ pc[w] \in Counted => job[w].count \in Counts
    /\ pc[w] = "retrieved" =>
         /\ job[w].seen.state # "none" /\ job[w].seen.quantity \in Counts
         /\ stripe.state # "none"

\* What the row can say of Stripe before there is a subscription, and after.
RowInv ==
  /\ stripe.state = "none" => ~row.item
  /\ stripe.state # "none" => stripe.quantity \in Counts
  /\ row.item => row.billable # None

\* A recount of today's roster, and a push of today's quantity, to be recorded.
RecountComing ==
  todo > 0 \/ \E w \in Workers : pc[w] \in Unwritten /\ job[w].count = members
RecordComing ==
  \E w \in Workers : pc[w] = "pushed" /\ job[w].count = stripe.quantity

Paying == row.item /\ stripe.state = "live"

Soon ==
  mishaps = {} =>
    /\ row.billable \in {None, members} \/ RecountComing
    /\ Paying => row.synced = stripe.quantity \/ RecordComing
    /\ Paying => \/ stripe.quantity = members \/ row.pending
                 \/ RecountComing \/ RecordComing

IInv == TypeOK /\ JobsInv /\ RowInv /\ Soon

-----------------------------------------------------------------------------

\* Whatever went wrong, once the roster rests and the subscription stays, Stripe
\* comes to bill for the roster, and goes on doing so.
Converges == <>[](stripe.state = "live") => <>[](stripe.quantity = members)

=============================================================================
