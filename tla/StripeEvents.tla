---------------------------- MODULE StripeEvents ----------------------------
(***************************************************************************)
(* What Stripe tells one chapter about its subscriptions, and what the     *)
(* chapter makes of it: the webhook and its ledger (lib/billing/webhook.ts *)
(* and its route), applySubscription, the pull of lib/billing/sync.ts,     *)
(* startCheckout, and the deletion of the chapter (deleteOrg).             *)
(*                                                                         *)
(* Stripe keeps, for each subscription, the history of its statuses; an    *)
(* event says that a version came to be.  Stripe delivers an event until   *)
(* it is acknowledged or three days are over, in any order, and several    *)
(* deliveries may be handled at once.  Each statement and each call is an  *)
(* action, and a handler may fail or die between any two.                  *)
(*                                                                         *)
(* Quantities are the subject of SeatSync and are left out here; so are    *)
(* the audit rows, which nothing reads back, and the events that only      *)
(* write one.                                                              *)
(***************************************************************************)
EXTENDS Naturals, Sequences, FiniteSets

CONSTANTS
  Workers,      \* concurrent requests
  MaxSubs,      \* bound: subscriptions in one history
  Courses,      \* bound: the courses that a subscription may take of itself
  MaxSessions,  \* bound: checkout sessions that are open at a time
  MaxChanges,   \* bound: changes of all subscriptions together, after they start
  MaxFaults,    \* bound: failed, dying or abandoned deliveries and calls
  None          \* null

ASSUME BoundsAssumption ==
  /\ MaxSubs \in Nat /\ MaxSessions \in Nat /\ MaxChanges \in Nat /\ MaxFaults \in Nat
  /\ None \notin Nat

VARIABLES
  stripe,     \* Stripe's subscriptions, each with the statuses it has had
  outbox,     \* events that are not acknowledged
  lost,       \* events that Stripe has given up delivering
  sessions,   \* checkout sessions that can still be paid
  alive,      \* does the chapter exist?
  row,        \* its Subscription row
  log,        \* the StripeEvent ledger: has the last delivery of an event succeeded?
  orphans,    \* the OrphanedSubscription table
  pc,         \* where each request is
  job,        \* what each request remembers
  faults,     \* ghost: what has failed so far, up to MaxFaults
  written,    \* ghost: the newest version of each subscription written to the row
  disorder,   \* ghost: was the last write older than one before it?
  mishaps     \* ghost: what was done at a moment the code does not check for

vars == <<stripe, outbox, lost, sessions, alive, row, log, orphans, pc, job,
          faults, written, disorder, mishaps>>

theirs == <<stripe, outbox, lost>>
history == <<written, disorder, mishaps>>
ghosts == <<faults, history>>

Subs == 1..MaxSubs
Mishaps == {"overlap", "unbooked", "raced"}

\* Whose first payment may still succeed is as live as who pays.
LiveStatuses == {"active", "past_due", "incomplete"}
Statuses == LiveStatuses \cup {"canceled", "incomplete_expired"}

\* mapStatus: of whom the first payment never came, as if they had never subscribed.
Mapped(status) ==
  IF status \in {"incomplete", "incomplete_expired"} THEN "free" ELSE status

\* "changed" stands for every event that makes the handler retrieve the
\* subscription: completed checkouts, creations, updates and invoices.
Event == [kind : {"changed", "deleted"}, sub : Subs, version : Nat]

\* status is what mapStatus made of Stripe's, sub the stripeSubscriptionId.
Row == [customer : BOOLEAN, sub : Subs \cup {None},
        status : {"active", "past_due", "canceled", "free"}]
FreeRow == [customer |-> FALSE, sub |-> None, status |-> "free"]

\* event: what is being delivered; sub and version: what was retrieved;
\* customer: whether the row had one.
Job == [event : Event \cup {None}, sub : Subs \cup {None}, version : Nat,
        customer : BOOLEAN]
NoJob == [event |-> None, sub |-> None, version |-> 0, customer |-> FALSE]

Steps == {"idle", "pulling", "retrieved", "applied", "quoting", "cleared",
          "canceling", "tearing"}

Status(s) == stripe[s][Len(stripe[s])]
Exists(s) == stripe[s] # <<>>
Live(s) == Exists(s) /\ Status(s) \in LiveStatuses

Init ==
  /\ stripe = [s \in Subs |-> <<>>]
  /\ outbox = {} /\ lost = {}
  /\ sessions = 0
  /\ alive = TRUE
  /\ row = FreeRow
  /\ log = [e \in {} |-> FALSE]
  /\ orphans = {}
  /\ pc = [w \in Workers |-> "idle"]
  /\ job = [w \in Workers |-> NoJob]
  /\ faults = 0
  /\ written = [s \in Subs |-> 0]
  /\ disorder = FALSE
  /\ mishaps = {}

Goto(w, step, j) == pc' = [pc EXCEPT ![w] = step] /\ job' = [job EXCEPT ![w] = j]
Finish(w) == Goto(w, "idle", NoJob)
Begin(w, step, j) == pc[w] = "idle" /\ Goto(w, step, j)

Fault == faults < MaxFaults /\ faults' = faults + 1

Mishap(kind, happens) == mishaps' = IF happens THEN mishaps \cup {kind} ELSE mishaps

-----------------------------------------------------------------------------
(* Stripe *)

Becomes(s, status) ==
  /\ stripe' = [stripe EXCEPT ![s] = Append(@, status)]
  /\ outbox' = outbox \cup
       {[kind    |-> IF status = "canceled" THEN "deleted" ELSE "changed",
         sub     |-> s, version |-> Len(stripe[s]) + 1]}
  /\ UNCHANGED lost

\* Of itself, within the bounds of the instance.
Runs(s, status) == Append(stripe[s], status) \in Courses[s] /\ Becomes(s, status)

Changes == {x \in Subs \X (2..MaxChanges + 1) : x[2] <= Len(stripe[x[1]])}

\* A session is completed: the next subscription starts, with a payment or, while the bank
\* wants the cardholder to confirm, without one.
Pay(s, status) ==
  /\ status \in {"active", "incomplete"}
  /\ sessions > 0
  /\ ~Exists(s) /\ \A t \in Subs : t < s => Exists(t)
  /\ sessions' = sessions - 1
  /\ Runs(s, status)
  /\ UNCHANGED <<alive, row, log, orphans, pc, job, ghosts>>

\* A payment fails, or succeeds; the subscription is ended, by the portal or because no
\* payment came, of which the first has a status of its own.
Change(s, status) ==
  /\ Cardinality(Changes) < MaxChanges
  /\ Live(s) /\ status # Status(s)
  /\ status \in {"active", "canceled"} \cup
       (IF Status(s) = "incomplete" THEN {"incomplete_expired"} ELSE {"past_due"})
  /\ Runs(s, status)
  /\ UNCHANGED <<sessions, alive, row, log, orphans, pc, job, ghosts>>

\* Three days without an answer of 2xx.
GiveUp(e) ==
  /\ e \in outbox
  /\ outbox' = outbox \ {e}
  /\ lost' = lost \cup {e}
  /\ Fault
  /\ UNCHANGED <<stripe, sessions, alive, row, log, orphans, pc, job, history>>

-----------------------------------------------------------------------------
(* The webhook *)

Delivering(w) == job[w].event # None

AnyPrior(e) == e \in DOMAIN log              \* mutant: the row exists, so it is done
Succeeded(e) == e \in DOMAIN log /\ log[e]

Logged(e, success) ==
  [x \in DOMAIN log \cup {e} |-> IF x = e THEN success ELSE log[x]]

\* The payload is the truth of a deletion; anything else is retrieved.
SeenOf(e) == IF e.kind = "deleted" THEN e.version ELSE Len(stripe[e.sub])

\* claimEvent: the insert, or the unique violation; only a delivery that has
\* succeeded makes this one a replay.  Then handleStripeEvent retrieves.  (A
\* delivery that is claimed and retrieves later, when another one of the same
\* event is done, writes what a pull at that moment would.)
HandleEvent(w, e) ==
  /\ alive
  /\ e \in outbox
  /\ ~Succeeded(e)
  /\ Begin(w, "retrieved",
           [NoJob EXCEPT !.event = e, !.sub = e.sub, !.version = SeenOf(e)])
  /\ log' = IF e \in DOMAIN log THEN log ELSE Logged(e, FALSE)
  /\ UNCHANGED <<theirs, sessions, alive, row, orphans, ghosts>>

\* A chapter that is gone has no row to write: the upsert fails on its foreign
\* key, the answer is 500, and Stripe delivers the event again.
Refuse(e) ==
  /\ ~alive
  /\ e \in outbox
  /\ ~Succeeded(e)
  /\ log' = Logged(e, FALSE)
  /\ UNCHANGED <<theirs, sessions, alive, row, orphans, pc, job, ghosts>>

Acknowledge(e) == outbox' = outbox \ {e} /\ UNCHANGED <<stripe, lost>>

Replay(e) ==
  /\ e \in outbox
  /\ Succeeded(e)
  /\ Acknowledge(e)
  /\ UNCHANGED <<sessions, alive, row, log, orphans, pc, job, ghosts>>

\* A statement or a call fails, or the process dies.  A webhook may still record
\* that it failed (markProcessed with the error); it answers 500 or nothing, and
\* the event stays in the outbox.
Fail(w) ==
  /\ pc[w] # "idle"
  /\ \/ Delivering(w) /\ log' = Logged(job[w].event, FALSE)
     \/ UNCHANGED log
  /\ Fault \/ (pc[w] = "retrieved" /\ ~alive /\ UNCHANGED faults)
  /\ Finish(w)
  /\ UNCHANGED <<theirs, sessions, alive, row, orphans, history>>

\* applySubscription: absolute state.  A cancelled subscription, and no other, is dropped
\* from the row; the customer stays.
AppliedKeepingHandle(s, v) ==                          \* mutant
  [customer |-> TRUE, sub |-> s, status |-> Mapped(stripe[s][v])]
Applied(s, v) ==
  [customer |-> TRUE,
   sub      |-> IF stripe[s][v] = "canceled" THEN None ELSE s,
   status   |-> Mapped(stripe[s][v])]

\* Is version v of s older than something that has been written already?
Older(s, v) == v < written[s] \/ \E t \in Subs : t > s /\ written[t] > 0

ApplySubscription(w) ==
  LET s == job[w].sub
      v == job[w].version
  IN
  /\ pc[w] = "retrieved"
  /\ alive
  /\ row' = Applied(s, v)
  /\ written' = [written EXCEPT ![s] = IF v > @ THEN v ELSE @]
  /\ disorder' = Older(s, v)
  /\ IF Delivering(w) THEN Goto(w, "applied", [NoJob EXCEPT !.event = job[w].event])
     ELSE Finish(w)
  /\ UNCHANGED <<theirs, sessions, alive, log, orphans, faults, mishaps>>

Closed(w) == log' = Logged(job[w].event, TRUE) /\ Acknowledge(job[w].event)
ClosedBadly(w) ==
  \/ UNCHANGED log /\ Acknowledge(job[w].event)
  \/ log' = Logged(job[w].event, TRUE) /\ UNCHANGED theirs

\* markProcessed, whose own failure is swallowed; then 200, which may be lost.
MarkProcessed(w) ==
  /\ pc[w] = "applied"
  /\ \/ Closed(w) /\ UNCHANGED faults
     \/ ClosedBadly(w) /\ Fault
  /\ Finish(w)
  /\ UNCHANGED <<sessions, alive, row, orphans, history>>

-----------------------------------------------------------------------------
(* The pull: refreshFromStripe *)

\* refreshIfStale, on every load of the billing page, goes on only if the row
\* looks as a lost delivery leaves it; syncSeats, the button, always goes on.
OnlyPastDue == row.status = "past_due"   \* mutant: a row that never heard is trusted
Suspect == row.sub = None \/ row.status # "active"

Refresh(w) ==
  /\ alive
  /\ row.customer
  /\ Begin(w, "pulling", [NoJob EXCEPT !.sub = row.sub])
  /\ UNCHANGED <<theirs, sessions, alive, row, log, orphans, ghosts>>

RefreshIfStale(w) == Suspect /\ Refresh(w)

\* Without a handle, the customer's newest subscription.
Newest(s) == Exists(s) /\ \A t \in Subs : Exists(t) => t <= s

Retrieve(w) ==
  /\ pc[w] = "pulling"
  /\ IF job[w].sub # None
     THEN Goto(w, "retrieved", [job[w] EXCEPT !.version = Len(stripe[job[w].sub])])
     ELSE IF \E s \in Subs : Newest(s)
     THEN \E s \in Subs :
            /\ Newest(s)
            /\ Goto(w, "retrieved", [job[w] EXCEPT !.sub = s, !.version = Len(stripe[s])])
     ELSE Finish(w)
  /\ UNCHANGED <<theirs, sessions, alive, row, log, orphans, ghosts>>

-----------------------------------------------------------------------------
(* startCheckout *)

StartCheckout(w) ==
  /\ alive
  /\ Begin(w, "quoting", [NoJob EXCEPT !.customer = row.customer])
  /\ UNCHANGED <<theirs, sessions, alive, row, log, orphans, ghosts>>

ClearedBlindly(w) == TRUE                              \* mutant: nobody asks Stripe
Cleared(w) == job[w].customer => \A s \in Subs : ~Live(s)

\* Another checkout is on the way already, or was when the row was read.
Overlaps(w) ==
  \/ sessions > 0
  \/ \E x \in Workers : x # w /\ pc[x] = "cleared"
  \/ ~job[w].customer /\ \E s \in Subs : Live(s)

\* findLiveSubscription, unless the row had no customer.
FindLive(w) ==
  /\ pc[w] = "quoting"
  /\ IF Cleared(w) THEN Goto(w, "cleared", NoJob) ELSE Finish(w)
  /\ Mishap("overlap", Cleared(w) /\ Overlaps(w))
  /\ UNCHANGED <<theirs, sessions, alive, row, log, orphans, faults, written, disorder>>

\* The session is created, for a customer that is the same for every checkout of
\* the chapter (idempotencyKey); the customer is persisted; and only then is the
\* address of the session handed out, so that it can be paid.
OpenSession(w) ==
  /\ pc[w] = "cleared"
  /\ alive /\ sessions < MaxSessions
  /\ row' = [row EXCEPT !.customer = TRUE]
  /\ sessions' = sessions + 1
  /\ Finish(w)
  /\ UNCHANGED <<theirs, alive, log, orphans, ghosts>>

-----------------------------------------------------------------------------
(* deleteOrg *)

ReadForDeletion(w) ==
  /\ alive
  /\ Begin(w, IF row.sub = None THEN "tearing" ELSE "canceling",
           [NoJob EXCEPT !.sub = row.sub])
  /\ UNCHANGED <<theirs, sessions, alive, row, log, orphans, ghosts>>

\* A subscription that has ended already cannot be cancelled.
CancelAtStripe(w) ==
  /\ pc[w] = "canceling"
  /\ Live(job[w].sub)
  /\ Becomes(job[w].sub, "canceled")
  /\ Goto(w, "tearing", job[w])
  /\ UNCHANGED <<sessions, alive, row, log, orphans, ghosts>>

RecordNoOrphan(w) == UNCHANGED orphans                 \* mutant: a log line is enough
BookOrphan(w) == orphans' = orphans \cup {job[w].sub}

\* The call fails.  What is left is booked, and the failure of that does not stop
\* the deletion either.
CancelFails(w) ==
  /\ pc[w] = "canceling"
  /\ \/ BookOrphan(w) /\ UNCHANGED mishaps
     \/ Mishap("unbooked", TRUE) /\ UNCHANGED orphans
  /\ Goto(w, "tearing", job[w])
  /\ UNCHANGED <<theirs, sessions, alive, row, log, faults, written, disorder>>

\* The row goes with the chapter.
Teardown(w) ==
  /\ pc[w] = "tearing"
  /\ alive
  /\ alive' = FALSE
  /\ row' = FreeRow
  /\ Mishap("raced", row.sub # job[w].sub)
  /\ Finish(w)
  /\ UNCHANGED <<theirs, sessions, log, orphans, faults, written, disorder>>

-----------------------------------------------------------------------------

Webhook(w) ==
  (\E e \in outbox : HandleEvent(w, e)) \/ MarkProcessed(w)

Pull(w) == Refresh(w) \/ RefreshIfStale(w) \/ Retrieve(w)

Checkout(w) == StartCheckout(w) \/ FindLive(w) \/ OpenSession(w)

DeleteOrg(w) ==
  ReadForDeletion(w) \/ CancelAtStripe(w) \/ CancelFails(w) \/ Teardown(w)

Request(w) ==
  \/ Webhook(w) \/ Pull(w) \/ ApplySubscription(w) \/ Checkout(w) \/ DeleteOrg(w)
  \/ Fail(w)

Next ==
  \/ \E w \in Workers : Request(w)
  \/ \E s \in Subs, status \in Statuses : Pay(s, status) \/ Change(s, status)
  \/ \E e \in outbox : GiveUp(e) \/ Replay(e) \/ Refuse(e)

Spec == Init /\ [][Next]_vars

(***************************************************************************)
(* Fairness.  A request that has started goes on or dies.  Stripe gives up *)
(* an event in the end.  The admin of a chapter that cannot grow loads the *)
(* billing page again and again, and neither Stripe nor the database fails *)
(* every such load.                                                        *)
(***************************************************************************)
Fairness ==
  /\ \A w \in Workers : WF_vars(pc[w] # "idle" /\ Request(w))
  /\ WF_vars(\E e \in outbox : GiveUp(e))
  /\ SF_vars(\E w \in Workers : RefreshIfStale(w))
  /\ SF_vars(\E w \in Workers : Retrieve(w))
  /\ SF_vars(\E w \in Workers : ApplySubscription(w))

FairSpec == Spec /\ Fairness

-----------------------------------------------------------------------------

TypeOK ==
  /\ stripe \in [Subs -> Seq(Statuses)]
  /\ outbox \subseteq Event /\ lost \subseteq Event
  /\ sessions \in Nat
  /\ alive \in BOOLEAN
  /\ row \in Row
  /\ row.status \in {"active", "past_due"} => row.sub # None
  /\ row.status = "canceled" => row.sub = None
  /\ DOMAIN log \subseteq Event
  /\ \A e \in DOMAIN log : log[e] \in BOOLEAN
  /\ orphans \subseteq Subs
  /\ pc \in [Workers -> Steps]
  /\ job \in [Workers -> Job]
  /\ faults \in Nat
  /\ written \in [Subs -> Nat]
  /\ disorder \in BOOLEAN
  /\ mishaps \subseteq Mishaps

AtRest == alive /\ outbox = {} /\ \A w \in Workers : pc[w] = "idle"

\* The row says of Stripe what is so.
Reflects ==
  IF \E s \in Subs : Exists(s)
  THEN \E s \in Subs : /\ Newest(s)
                       /\ row.status = Mapped(Status(s))
                       /\ row.sub = IF Status(s) = "canceled" THEN None ELSE s
  ELSE row.sub = None /\ row.status = "free"

\* webhook.ts: a retry must be allowed through unless a delivery succeeded.  A
\* change that Stripe need not report again has been written to the row.
AckedIsWritten ==
  \A s \in Subs : \A v \in 1..Len(stripe[s]) :
    v > written[s] => \E e \in outbox \cup lost : e.sub = s /\ e.version = v

\* When all is delivered, the row is what Stripe has, unless the last write was
\* decided from something older than a write before it.
InOrderIsTrue == AtRest /\ lost = {} /\ ~disorder => Reflects

\* webhook.ts: "every handler writes absolute state pulled fresh from Stripe
\* rather than applying a delta, so running twice converges".
RunningTwiceConverges == AtRest /\ lost = {} => Reflects

\* A chapter pays for two subscriptions only if two checkouts overlapped.
BilledOnce ==
  "overlap" \notin mishaps =>
    \A s, t \in Subs : Live(s) /\ Live(t) => s = t

\* deleteOrg: a subscription that its chapter leaves behind is on record, if the
\* chapter had heard of it before somebody began to delete.
NoSilentCharge ==
  ~alive /\ mishaps = {} /\ ~disorder =>
    \A s \in Subs : Live(s) => s \in orphans \/ written[s] = 0

-----------------------------------------------------------------------------
(* What AckedIsWritten and BilledOnce follow from *)

Versions(s) == 1..Len(stripe[s])

EventsInv == \A e \in outbox \cup lost : e.version \in Versions(e.sub)

\* A delivery writes what is at least as new as its event.
JobOK(w) ==
  /\ pc[w] = "pulling" => ~Delivering(w) /\ (job[w].sub # None => Exists(job[w].sub))
  /\ pc[w] = "retrieved" =>
       /\ job[w].sub \in Subs /\ job[w].version \in Versions(job[w].sub)
       /\ Delivering(w) =>
            job[w].sub = job[w].event.sub /\ job[w].event.version <= job[w].version
  /\ pc[w] = "applied" =>
       Delivering(w) /\ job[w].event.version <= written[job[w].event.sub]
  /\ pc[w] = "canceling" => job[w].sub \in Subs

JobsInv == \A w \in Workers : JobOK(w)

LogInv == \A e \in DOMAIN log : log[e] => e.version <= written[e.sub]

RowInv == row.sub # None => Exists(row.sub)

\* Of a checkout on its way, a session to be paid and a running subscription there is
\* one at most, as long as no two checkouts have overlapped.
CheckoutInv ==
  "overlap" \notin mishaps =>
    /\ sessions <= 1
    /\ sessions > 0 => (\A w \in Workers : pc[w] # "cleared") /\ \A s \in Subs : ~Live(s)
    /\ \A w \in Workers : pc[w] = "cleared" =>
         (\A s \in Subs : ~Live(s)) /\ \A x \in Workers : pc[x] = "cleared" => x = w
    /\ \A s, t \in Subs : Live(s) /\ Live(t) => s = t

IInv ==
  TypeOK /\ EventsInv /\ JobsInv /\ LogInv /\ RowInv /\ AckedIsWritten /\ CheckoutInv

-----------------------------------------------------------------------------
(* What InOrderIsTrue and NoSilentCharge follow from *)

\* Only what has happened is written, nothing follows the end of a subscription,
\* and the subscriptions start one after the other.
HistoryInv ==
  /\ \A s \in Subs : written[s] <= Len(stripe[s])
  /\ \A s \in Subs : \A v \in Versions(s) :
       stripe[s][v] \notin LiveStatuses => v = Len(stripe[s])
  /\ \A s, t \in Subs : Exists(s) /\ t < s => Exists(t)

\* Unless two checkouts have overlapped, a subscription starts when the ones before
\* it are over.
SuccessionInv ==
  "overlap" \notin mishaps => \A s, t \in Subs : Exists(s) /\ t < s => ~Live(t)

\* The row is as the last write in order left it: the newest version that has been
\* written, of the newest subscription that has been written.
Says(s) ==
  /\ written[s] > 0 /\ \A t \in Subs : t > s => written[t] = 0
  /\ row.status = Mapped(stripe[s][written[s]])
  /\ row.sub = IF stripe[s][written[s]] = "canceled" THEN None ELSE s

RowSays ==
  alive /\ ~disorder =>
    \/ (\A s \in Subs : written[s] = 0) /\ row.sub = None /\ row.status = "free"
    \/ \E s \in Subs : Says(s)

\* A deletion that has gone past the subscription it had read has ended it or booked
\* it, or it is known that it did not.
DeletionOK(w) ==
  /\ pc[w] \in {"canceling", "tearing"} /\ job[w].sub # None => Exists(job[w].sub)
  /\ pc[w] = "tearing" /\ job[w].sub # None /\ mishaps = {} =>
       ~Live(job[w].sub) \/ job[w].sub \in orphans

DeletionsInv == \A w \in Workers : DeletionOK(w)

AccountInv ==
  HistoryInv /\ SuccessionInv /\ RowSays /\ DeletionsInv /\ NoSilentCharge

-----------------------------------------------------------------------------

\* sync.ts: a lost webhook must not wall a paying chapter for good.  One walls it: the row
\* holds on to a subscription that has expired unpaid, and the pull asks for that one only.
Paying ==
  alive /\ \E s \in Subs : /\ Newest(s) /\ Status(s) = "active"
                           /\ \A t \in Subs : Live(t) => t = s
HoldsExpired == row.sub # None /\ Status(row.sub) = "incomplete_expired"
Unwalled == <>[](Paying /\ ~HoldsExpired) => <>[](row.status = "active")

\* sync.ts of the pull: the customer "is what makes the org recoverable".
Recoverable == <>[]Paying => <>[](row.status = "active")

=============================================================================
