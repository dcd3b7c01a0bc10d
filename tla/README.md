# A TLA+ model of ChaptOS

ChaptOS (the "Lambdas OPs Dashboard") is a Next.js application in which student
chapters keep their roster, their money, their attendance and their plans. Many
chapters share one Postgres database; Stripe bills them by seat. This directory
models the parts of it where concurrent requests, crashes and late answers meet. TLC
checks the modules on small instances, and TLAPS proves every safety property that the
runs check, for every value of the constants; liveness is model-checked.

## How the program works

Every API route builds a `RequestContext` (`lib/context/request-context.ts`), calls
a service (`lib/services/*`), and the service reads and writes through an
organisation-scoped Prisma client (`lib/db/tenant.ts`). After its commit the service
emits an event (`lib/events/emit.ts`); `lib/events/dispatch.ts` runs the handlers of
that event, each raced against three seconds. A handler that loses the race is not
stopped, and its failure rolls nothing back. In the browser one store
(`app/context/ChapterContext.tsx`) holds the chapter's data by sections; pages change
their list first and send the request then.

Four facts about that shape decide what can go wrong, and every module is built on
them:

1. Postgres runs at READ COMMITTED, and requests of one chapter are not serialised.
   What a handler read may be false by the time it writes.
2. Only a few writes restate what was read: `compareAndSetDues`, the
   approval in `updateReimbursement`, `deletedAt: null` in voids, the
   conditional promotion of a board event, the advisory lock of `createTransaction`,
   unique keys. All others overwrite.
3. A process may die between two statements, or between a commit and its event, and a
   call to Stripe may take effect while its answer is lost.
4. Stripe delivers webhooks late, twice, out of order, or not at all; the answers to a
   page's own requests come in any order as well.

So an action is one statement or one transaction; a read whose result matters later
is an action of its own; what a handler remembers is kept in `job[w]`, and `pc[w]`
says which of its statements comes next. A request that is refused before it has
written anything is a stuttering step. Where the code leaves a window open, the
property does not pretend otherwise: a ghost variable (`doubt`, `mishaps`, `raced`,
`stale`, `strayed`, `stranded`, `twinned`, `orphaned`, `lapsed`) records exactly the
accident, and the property says that nothing else goes wrong. Ghosts are written and
never read by a guard.

## Inventory

| Part | State | Operations | What is hard | What makes it correct |
|---|---|---|---|---|
| Dues and ledger (`transaction-service`, `dues-service`) | `Membership.duesOwed`, `Transaction` rows | post, pay, charge, waive, attribute, edit, void | two stores kept in step by hand; float money; double submits | a balance is what was charged less what was paid; credits stand; no balance a cent below zero |
| Reimbursements (`reimbursement-service`) | `Reimbursement` rows, the expense rows they mint | file, approve, reject, re-bucket, reverse, erase | two treasurers, ledger edits underneath | approved exactly when one live row is linked |
| Seat synchronisation (`billing/sync`, `billing/apply`, `billing-service`) | `Subscription` row, Stripe's subscription | reconcile, pull, checkout | overlap, lost replies, frozen handlers, crash before dispatch | what is billed is the roster, or a flag says it is owed; it converges |
| Stripe events (`billing/webhook`, `billing/sync`, `org-service.deleteOrg`) | `StripeEvent` log, `Subscription` row, `OrphanedSubscription` | deliver, replay, pull, check out, tear down | redelivery, order, a delivery that dies half way, two checkouts | what is acknowledged was written; billed once; no charge forgotten; no wall for good |
| Membership (`join-request-submit`, `join-request-service`, `invite-service`, `membership-service`, `brother-service`, `billing/guard`) | `Membership`, `JoinRequest`, `OrgInvite`, `InviteRedemption` | ask, approve, reject, leave, remove, archive, restore, promote | checks apart from writes, competing officers | seat limit, cap of a link, queue and roster agree, an admin stays |
| Chapters and accounts (`db/tenant`, `role-service`, `brother-service`, `org-service`) | `Brother`, `Membership`, `BrotherRole`, records about people | join, grant, record, leave, remove, delete a chapter | one account under several chapters, cascades of foreign keys | no chapter takes what another holds; what is erased and revoked stays so |
| Attendance and semesters (`attendance`, `attendance-`, `excuse-`, `exemption-`, `semester-service`) | records, excuses, exemptions, `isActive`, the percentage on the roster | roll, excuse, decide, exempt, toggle, switch, recalculate | overlapping recalculations; deactivate-all, then activate | the percentage is that of the records; one active semester; approvals stand |
| Service hours (`service-hours`, `service-participation-service`) | participations, the total on the roster | log, update, remove, cascade, recalculate | a log is a series of statements | the total is the sum of the participations |
| Events board (`programming-service`, `lib/programming`, `calendar-service`, `service-event-service`) | `ProgrammingEvent`, `CalendarEvent`, `ServiceEvent` | create, edit, stage, delete, from three pages | gates decided on a read, links cleared by foreign keys | published exactly while on the calendar; no entry that nobody owns; gates hold |
| Polls (`poll-service`) | `Poll`, options, assignments, votes | create, edit, close, reopen, vote, list | checks apart from writes; replace-all edits | votes stand, few come late, the ballot is blind |
| Parties (`party-service`) | `PartyEvent` and the calendar event of its roll | create, update, wrap up, delete | four statements without a transaction; best-effort clean-up | one backing event, none left behind |
| Categories, event types, custom fields (`transaction-category-`, `calendar-event-type-`, `event-field-service`) | slugs and labels, rows that name them without a foreign key | create, rename, delete, file | count, then write | no row names a category that is gone; no two alike; the limit |
| Client store (`ChapterContext`) | sections, the number of the last load | load, refresh, top up | answers out of order, superseded loads | no going back; what a page reads is there; loading ends |
| Pages (`parties`, `tasks`, `timeline`, `treasury`, dashboard) | the lists shown | optimistic add, edit, remove, roll-back | errors and answers out of order with reloads | a settled row is shown as it is saved |
| Chat and approvals | signed proposals, `ChatApproval` rows | propose, record | nothing shared: the client carries a proposal out through the other services | |
| Sessions, rate limiting, tasks, documents, social posts, budget, metrics, onboarding | rows of their own | create, read, update, delete | little: single statements guarded by unique keys | |

`PROJECT.json` has the same list with the files, and under `hazards` the lines at
which each difficulty bites and the properties that watch it.

Interaction. The roster is shared by Membership, Dues (a member leaves with a
balance), Tenancy (a person leaves with grants and records) and Seat synchronisation
(every roster change dispatches a recount). The subscription's status, which
`StripeEvents` writes, is what the seat gate of `Roster` reads; its quantity is the
subject of `SeatSync`. Reimbursements mint rows in the ledger that Dues also edits,
and both name categories of `Catalogue`. Board events, parties, service events and
attendance all hang on calendar events, through foreign keys that cascade, restrict
or clear. `PageEdits` edits the lists that `ClientStore` loads. Each module carries
the other side as a nondeterministic environment: `Leave`, `Rejoin` and `Erase` in
`Dues`, `Change` in `SeatSync`, `ChangeLimit` in `Roster`, `MoveEntry` and `VoidEntry`
in `Reimbursements`, `TakeRoll` and `UpdateCalendar` in `Programming`, `Refer` and
`EraseRoll` in `Parties`, `Elsewhere` and `Arrive` in `PageEdits`.

## Modules

| Module | What it models |
|---|---|
| `DuesBooks` | the two dues books in the abstract: balances and standing credits, with atomic charge, waive, pay, void, leave, erase |
| `Dues` | every dues handler, statement by statement; refines `DuesBooks` |
| `MCDues` | instances, and `BalanceExplained`, which sums over the ledger |
| `Reimbursements`, `MCReimbursements` | requests and the rows minted for them |
| `SeatSync`, `MCSeatSync` | the subscription row against Stripe: quantities |
| `StripeEvents`, `MCStripeEvents` | the subscription row against Stripe: statuses, events, checkouts, the end of a chapter |
| `Roster`, `MCRoster` | invite links, join requests, the seat gate, leaving and returning |
| `Tenancy`, `MCTenancy` | several chapters and the accounts they share |
| `Attendance` | rolls, excuses, exemptions, semesters, the derived percentage |
| `ServiceHours` | participations and the derived total |
| `MCRollups` | instances of these two: `part` says which a behaviour is of |
| `Programming` | the events board and the calendar it publishes to |
| `Polls` | polls, their ballot and their managers |
| `Parties` | parties and the events of their rolls |
| `Catalogue` | categories and the rows that name them |
| `MCLinks` | instances of `Reimbursements`, `Programming`, `Parties` and `Catalogue`: `part` says which |
| `ClientStore`, `MCClientStore` | the loader of the browser's store; its instance for liveness |
| `PageEdits` | optimistic edits |
| `MCEdits` | instances of `Polls`, `PageEdits` and `ClientStore`: `part` says which |
| `DuesProofs`, `SeatSyncProofs`, `RosterProofs`, `StripeEventsProofs`, `TenancyProofs` | theorems and proofs about the module of that name |
| `LinksProofs`, `RollupsProofs`, `EditsProofs` | theorems and proofs about the parts of `MCLinks`, `MCRollups` and `MCEdits` |

How the code's state appears:

* `Dues`: `owed[m]` is `Membership.duesOwed` in a unit that may be a fraction of a
  cent (`Half` is `CENT_EPSILON`, half a cent, in that unit), because the schemas accept
  any amount, and `drift[m]` says that the float differs from it by a residue too small
  to count. `Rounded` is `money()`: where a number lies half-way between two, either may be
  the answer. `Covers` is a comparison with `atLeast`, which is half a cent less
  than the amount rounded. `rows[x]` is a `Transaction`; `fresh` stands for `createdAt`
  being inside the duplicate window. `credit`, `input` and `assessed` are ghosts;
  `assessed` is what a member was charged, net of waivers and snaps.
* `Reimbursements`: `request[r]` and `ledger[x]` are the rows; `minted`, `touched`
  and `raced` are ghosts. Amounts are left out: no operation compares them.
* `SeatSync`: `row` is the `Subscription` row (item set, recorded quantity, local
  headcount, pending flag), `stripe` is Stripe's copy, `todo` counts committed roster
  changes whose handler has not started. `mishaps` records which of four things has
  gone wrong: `lost` (a handler died before its local write, or an event was never
  dispatched), `unrecorded` (Stripe took a quantity and the row was not told), `stale`
  (a write or a push of something no longer true), `checkout` (the roster changed
  between opening and completing a checkout). The tier is a function of the count it
  is written with and is left out.
* `StripeEvents`: `stripe[s]` is the sequence of statuses a subscription has had, so that
  a version is a position in it; an event names a version. Of Stripe's statuses,
  `trialing` is taken together with `active`, and `unpaid` and `paused` with `past_due`:
  the handle, the pull and the checkout treat them alike. `Mapped` is `mapStatus`; a row
  is "free" with a handle while the first payment is awaited, and after it never came.
  `outbox` holds what Stripe still delivers, `log` is the `StripeEvent` table, `row` the
  `Subscription` row, `sessions` the checkouts that can still be paid. `written[s]` is a
  ghost: the newest version that was ever applied. `disorder` says that the last write was
  older than one before it; `overlap`, that two checkouts were open at once; `unbooked`
  and `raced`, that a deletion failed half way or was overtaken.
* `Roster`: `roster[p]` is the membership (none, active, archived), `requests[p]` the
  one `JoinRequest` a person has in the chapter, `redeemed` the redemptions, `limit`
  what the gate allows: `FreeSeats` (4) without a subscription in good standing and
  `PaidSeats` (120) with one. `crossed` and `peak` are ghosts.
* `Tenancy`: pairs of a chapter and a person in `members`, `grants` and `records`;
  `home[p]` is `Brother.organizationId`, whose deletion the foreign keys restrict. The
  rows that go with an account (attendance, excuses, payments, hours, votes) are one
  relation, since every path treats them alike. The count of memberships and the look-up
  of the one here, in the deletion of an account, are two steps; `joined`, a ghost in
  `job`, says who has joined a chapter after the count.
* `Attendance`: `records[e][m]` and `excuses[e][m]` carry their semester, `ratio[m]` is
  the column on the roster. The handler of an event is the tail of the request that
  emitted it: `read`, then `written`. `ServiceHours` has the same shape. Both columns
  have writers besides the handlers, after which nothing recalculates: an approved
  request makes a new row with zeros for who comes back (`Return`), and `UpdateBrother`
  takes the hours from its body. The ghosts `doubt`, `unheard` and `typed` hold the
  members concerned until the next recalculation.
* `Programming`: `board[e]` is a `ProgrammingEvent` with its stage and link, `cal[c]` a
  `CalendarEvent` with the `ServiceEvent` on it, if any. The CHECK constraint of the
  migration is `CheckHolds`, and a statement that would break it fails. A body names
  the fields it changes (`Keep` for the others); a published event takes those that are
  not frozen, and is mirrored to the calendar again.
* `Polls`: an option is the number of the list it came with, since every operation
  treats the options of a list alike; a deletion takes the rows that were there when
  it began, a creation adds, so that overlapping edits leave both lists. `vote[m]` is
  the `PollVote` row. `shown` says who has been shown the tally, which `sealed` in the
  reply withholds.
* `Parties`: `party[p].event` is `attendanceEventId`; `rolled` holds the events that
  attendance rows or excuses refer to, which restricts their deletion.
* `Catalogue`: the categories of one side of the ledger: `label[s]` is the live one with
  slug `s`, `filed[r]` what a row names, `away` the rows that are on the other side,
  where any slug of `Across` may be in use. A filing carries the halves of the pair that
  its body holds, and writes no others. All labels of the instance fold to one base,
  the case in which slugs collide.
* `ClientStore`: `shown[s]` is the version of a section on the page, `loads[i]` a call
  of `loadSections`, with what each of its fetches has answered; `latest` is the
  `refreshIdRef`.
* `PageEdits`: `server[k]` and `shown[k]`, a sequence because a row may be put in
  twice; `temp` are rows with a temporary number; `dialog` is the row a treasury dialog
  was opened on, as it was then, which is what its handlers put back.

Names of definitions follow the functions they translate; `PROJECT.json` maps each to
its lines. An operator marked `mutant` is a plausible bug (a guard dropped, a count
off by one, a filter on the wrong column); each checked property is known to fail when
the definition beneath it is replaced by it.

## Runs

`tlc -config <run>.cfg <module>` repeats a run.

| Run | Module, instance | What it shows |
|---|---|---|
| `MCDues` | 1 member, 2 handlers, 2 rows, amounts of 0, 0.5, 1 and 1.25 cents, residues | balances, negative ones included, explained by the ledger and the adjustments, no double post, credited rows stand and stay frozen, through every interleaving with leaving, rejoining and erasing |
| `MCDuesBooks` | `MCDues`; 2 members, exact arithmetic, amounts in cents | each step of `Dues` is a step of `DuesBooks` or a stutter |
| `MCLinks` | four parts, 2 requests at a time in each: 1 reimbursement with 2 entries; 1 board event, 2 calendar events; 1 party, 2 events; 3 slugs, 3 labels, a cap of 2, 1 row | approved means minted; the board owns what it publishes, complete, and done only after confirmed; a party's event is its own; rows name live categories, labels differ, the cap is passed by the requests that counted together at most |
| `MCSeatSync` | 2 handlers, rosters of two sizes, 2 changes, from before the checkout | without a mishap the row is true at rest, and an owed push is flagged |
| `MCSeatSyncLive` | `MCSeatSync`; a paying chapter, 1 change | whatever goes wrong, billing converges |
| `MCRoster` | 2 handlers, a founder and 3 seekers, 1 link of one use, limits 1 and 2 | seats and links overshot by at most one; queue and roster agree |
| `MCStripeEvents` | 2 requests, 2 subscriptions, of which the first may end or expire unpaid and the second fall behind, 1 session, 1 change, 1 fault | what is acknowledged was written; the row is true when all is delivered in order; one subscription is billed; none outlives its chapter unrecorded |
| `MCStripeLive` | `MCStripeEvents`; 1 request, 2 faults, the second subscription may wait for its first payment | a paying chapter is not walled for good, though every notice may be lost, unless its row holds on to a subscription that expired unpaid |
| `MCRollups` | 2 members, 2 events, 2 semesters, 2 requests at a time, 4 in all (3 for hours) | percentage and total follow the records; no more semesters are active than switches ran at a time, and none only after a failure; an approval is undone by an older resubmission at most |
| `MCClientStore` | 2 pages, 2 sections, 2 loads, 2 navigations, 1 change | loading ends, whatever is superseded, refused or cut off |
| `MCTenancy` | 2 chapters, 1 person, 3 requests of either | integrity of the tables; erasure, revocation; no chapter takes from another, but of who joined after the count |
| `MCEdits` | three parts, 2 requests or loads at a time in each: 2 voters, 3 lists; a row of 2 values with a dialog and a reload; the pages, sections, loads and change of `MCClientStore`, with one navigation | votes stand, at most one for each request is late, first votes are blind; a settled row is shown as it is saved; no page goes back to older data, and a page at rest is served |

Thirteen further configurations repeat counterexamples (see "What was found"). They state
what the code's own comments say, which TLC refutes.

### Why the bounds suffice to be interesting

* Two handlers: every race in these services is between a check of one handler and a
  write of another. `Tenancy` has three, since a removal in two transactions, a late
  grant and a rejoining meet in one counterexample to weaker versions of it. For the
  proved properties the proofs remove this bound.
* `MaxAssessed` bounds how much a member is charged, or waived (balances would grow for
  ever); `MaxChanges` and `Checkouts` bound the history of a roster in `SeatSync`; in
  `StripeEvents`, `MaxSubs = 2` lets a subscription succeed another, or run beside it, and
  one fault is enough for each single loss, death or give-up; `MCStripeLive` has two, for
  a lost start and a lost payment. `Courses` lists the histories that a subscription may
  have of itself (a deletion may cancel it at any time).
* `Seekers`, `Seasonal`, `Deputies` in `Roster` say which people ask to join, are
  archived and restored, and may be made admins. The founder is archived and restored
  while three seekers compete for one place on a link and one or two seats, which is
  what both overshoots need: two handlers past the same check and a third person.
* Limits of 1 and 2 stand for 4 and 120, and a cap of 2 for `MAX_CATEGORIES_PER_ORG`:
  a gate is a comparison with its limit, and these are the smallest at which one is
  already in and another fits.
* `MaxRequests` bounds how many changes of records a history of `Attendance` has: four
  let a roll, an excuse and its decision meet a switch of the semester. Two members,
  because one recalculation writes several and may be overtaken for one of them.
* `MaxLists = 3` in `Polls`: a poll, and the lists of two edits that overlap.
  `MaxRolls = 2` in `Parties`: a backing event, and the second one that should not be.
  `MaxSuffix = 3` in `Catalogue`: room for the cap and one overshoot; with two slugs in
  use on the other side a row comes back under one that is not listed here. The three
  bodies in `Programming` leave all as it is, change the kind, or the kind and the date.
* In `PageEdits` one row: requests on different rows share only the reload, and the
  counterexample of the tasks page, where they share the list, has two rows.
* In `ClientStore` two loads overlap, and each may be the one that answers last.
* `MCRollups`, `MCLinks` and `MCEdits` check components that share no state as
  alternatives of one behaviour: the states add up and do not multiply, and each part's
  properties hold trivially in the other parts.
* Symmetry is used for interchangeable handlers, rows, people and links, and not in
  runs with liveness.
* `CHECK_DEADLOCK FALSE` appears where the system may really come to rest: everybody
  erased and nothing left to edit, a chapter deleted, all requests of the bound spent.

### Fairness

* `SeatSync` (`MCSeatSyncLive`). A handler that has started goes on or dies (weak
  fairness). Every billing period brings an `invoice.paid`, which pulls from Stripe,
  and an `invoice.upcoming`, which recounts; Stripe redelivers a webhook that failed;
  a statement or call that is attempted again and again succeeds at some time (strong
  fairness of `Recount`, `Retrieve`, `ReadRow`, `WriteLocal`, `Push`, `Apply`, over all
  handlers together). Nothing is assumed of users, nor of `Dispatch`, since the process
  may die before it: convergence rests on the periodic recount alone. `Converges` needs
  both directions, since a push compares with a recorded quantity that only a pull
  corrects.
* `StripeEvents` (`MCStripeLive`). A request that has started goes on or dies, Stripe
  gives an event up in the end, and the admin of a chapter that is walled loads the
  billing page again and again (`RefreshIfStale`), not every such load failing. This is
  the healing path `sync.ts` describes; webhooks are assumed nothing of.
* `ClientStore` (`MCClientStore`). The first load happens, every fetch is answered or
  cut off after 30 seconds (`fetchJson`), the effect runs. Nothing is assumed of later
  refreshes and navigations.

The other modules state no fairness, and no liveness is claimed of them.

## Proofs

`tlapm` checks every theorem from nothing; there are no axioms and nothing is left
without a proof. Each `*Proofs` module has the same layout: lemmas on what operators
return, lemmas on the conjuncts of the inductive invariant with one step per action,
and the temporal theorems at the end. `IInv`, at the end of each component's module, is
that invariant; TLC has checked it as an invariant of the component's instance before it
was proved. The type invariants are theorems too (`TypeCorrect`, or a conjunct of the
property), and so are not repeated as invariants of every run.

Where a run checks several components (`MCLinks`, `MCEdits`, `MCRollups`), its properties
are stated of the instance (`Board!Spec => []OnTheBoard`). `PartsApart` and `EditsApart`
prove of the first two that a behaviour of the run's specification is a behaviour of each
of its parts; of `MCRollups`, which is built in the same way, it is read off `MCNext`.

* **Dues** (`DuesProofs`). `IInv` strengthens the properties by what handlers
  remember: a row being created is nobody else's (`JobsInv`); a pending edit of a
  credited row is one that the guard of `updateTransaction` lets through, and a
  pending void gives back exactly what the credit took (`CreditInv`); the holder of
  an advisory lock is alone and no live row has its key (`LockInv`). Theorems:
  `TypeCorrect`, `CreditsStandAlways`, `CreditsFrozenAlways`, `NotOverdrawnAlways`
  (no balance is more than a cent below zero, and none is below zero if all amounts are
  in cents: `CentsInv` then keeps the balances in cents, where half a cent of tolerance
  is none), and `NoDoublePosting` under `Untagged`: only a dues payment names a member.
  Without that hypothesis the statement is false, as `MCDuesTagged` shows.
* **The dues books add up** (`DuesProofs`). `BalanceExplainedAlways`, for finitely many
  rows: a balance is what was charged, less waivers, the payments that stand and what
  snaps to zero took, whatever fractions of a cent these are. What a member has paid is a
  sum over the ledger; the lemmas on it (`PaidSame`, `PaidMore`, `PaidNone`) say that a
  step changes the sum by what it changes in one row, and each action is then an equation
  between two numbers. `CreditInv` gives the number for a void, which was decided from an
  older read.
* **Refinement** (`DuesProofs`). `DuesImplementsBooks`: if arithmetic leaves no
  residue and all amounts are in cents (`Exact`), `Dues` implements `DuesBooks`. The
  mapping takes a row for a standing credit while its ghost says so. With residues, or
  with fractions of a cent, the snap to zero is a step that the abstract books do not
  have, and which `MCDuesSnap` shows to be wrong.
* **Reimbursements** (`LinksProofs`). `ApprovedIsMintedAlways` and
  `BooksAgreeAlways`, the latter for requests on which no write was decided from a
  stale read that the code does not check again (`raced`). Approvals are never in
  `raced`: their compare-and-set is what the proof uses.
* **Events board** (`LinksProofs`). `OnTheBoardAlways`, `PublishedCompleteAlways` and
  `DoneAfterConfirmAlways`. A request's row stands as it was read unless the request was
  overtaken (`WorkersInv`), and, overtaken or not, the calendar event that it read as
  linked is linked to no other board event, now or later, because ids are not given twice
  (`LinksInv`). The latter is what makes a deletion decided on an old read harmless to
  other events.
* **Parties** (`LinksProofs`). `PartyBackedAlways`: an event that a wrap-up has made and
  not yet linked is in no other hand (`Fresh`), one that a deletion is about to clean up
  is linked to no other party (`Settled`), and a link that somebody has written since
  a request read it is noted as missed (`WorkersInv`).
* **Catalogue** (`LinksProofs`). `UsesNamedAlways` and `LabelTwinsAlways`: what a
  request has found (its category listed, a slug unused, a label new) is still so
  until somebody writes what it was about, and that write is noted as missed
  (`FilingInv`, `CountInv`, `NameInv`). `CapBoundedAlways`: categories and requests
  that found room, taken together, stay below the cap plus the number of requests
  (`RoomInv`).
* **Seat synchronisation** (`SeatSyncProofs`). `InStepAlways` and
  `OwedIsFlaggedAlways`. The invariant `Soon` says of the states in between that
  somebody is on the way who will put right what is not right yet: a recount of
  today's roster, or a handler about to record what it pushed. The proof takes it
  apart into three (`Billed`, `Known`, `Owed`).
* **Stripe events** (`StripeEventsProofs`). `AckedIsWrittenAlways`: whatever is
  delivered twice, overlaps, fails or dies, a change that Stripe will not report again
  was written. The invariant follows a delivery: what it retrieves is at least as new
  as its event (`JobsInv`), and the log says so only of what was written (`LogInv`).
  `BilledOnceAlways` rests on `CheckoutInv`: of checkouts on their way, sessions that
  can be paid and running subscriptions there is one at most, unless two overlapped.
  `InOrderIsTrueAlways` and `NoSilentChargeAlways` need a second invariant
  (`AccountInv`), proved on top of the first: the row is as the last write in order left
  it (`RowSays`), subscriptions follow one another and end once (`HistoryInv`,
  `SuccessionInv`), and a deletion that has gone past a subscription has ended it, booked
  it, or is known not to have (`DeletionsInv`).
* **Roster** (`RosterProofs`). `SeatsBoundedAlways`, `LinkBoundedAlways` and
  `QueueTruthfulAlways`. What is used up, counted together with what handlers are
  about to use up, never grows except when a check is passed; then it is a number
  below the limit plus at most one for each handler (`Overshoot`). So with n handlers
  a limit is exceeded by at most n - 1, however members are archived, restored and
  let in again in between.
* **Tenancy** (`TenancyProofs`). `ErasureAlways`, `NoStaleGrantAlways` and
  `OthersStandAlways`, for any chapters, people and requests. An account that was counted
  has one membership, and one that is about to be deleted none in another chapter, but of
  who joined a chapter since the count (`DoomInv`); where a membership is about to go, the
  rest has gone already but for what was written meanwhile (`DropInv`). Both are needed at
  the statement after.
* **Attendance and semesters** (`RollupsProofs`). `RollsTrueAlways`: a percentage that a
  recalculation has read and nobody has overtaken is still the one that the rolls give
  (`JobsInv`), so writing it makes the roster true (`RatioInv`). The property computes
  the percentage without the code's rounding formula; `PercentChosen` shows the two to
  agree for every number of events. `TermStandsAlways` (active
  semesters and switches under way together never exceed the requests that run at a time:
  a switch that begins clears the active ones, and one that ends adds one and is gone) and
  `ApprovalStandsAlways`, which needs no exception: a worker that undoes an approval has
  read the excuse before it was given, and leaves it pending for the same semester.
* **Service hours** (`RollupsProofs`). `HoursTrueAlways`, in the same way; that a total is
  a sum of bounded entries, and changes by what one entry changes, are lemmas of their own.
* **Polls** (`EditsProofs`). `LateBoundedAlways`: late
  votes and those still on their way together are at most as many as there are
  requests (`LateInv`). `TallyStandsAlways`: an edit of the options read a poll without
  votes, so it has missed all there are (`MissedInv`). `BlindBallotAlways`: whoever was
  shown the tally has voted, or is excused (`ShownInv`).
* **Pages** (`EditsProofs`). `RowsTrueAlways`, for pages that put back one row
  (`~Wholesale`; of the tasks page, which puts back the list, it is false: `MCEditsTasks`).
  A request that nothing has clouded has its row to itself, what is shown is what it asked
  for and what is saved what it would put back, unless it keeps the row of a dialog that
  was out of date (`ClearInv`); a list on its way is what is
  saved, but for the rows that were touched since the server sent it (`ReloadInv`).
* **Store** (`EditsProofs`). `PagesServedAlways`: unless the effect will run, what a page
  reads is there, has failed, or is on its way in the latest load (`RouteInv`), and what
  is older than a refresh promised has failed, was overrun, or is on its way
  (`ResyncInv`); a load that is over has nothing on its way (`OverInv`).
  `NoGoingBackAlways`: an answer to the latest load is no older than what it will replace
  (`AnswersInv`), and no other load is applied.

Assumptions on constants are the named `ASSUME`s of each module, and for the parts of a
composed run those of the MC module (`BoardAssumption`, `NightAssumption`,
`ClerkAssumption`, `HoursAssumption`, `PageAssumption`, `StoreAssumption`); TLC evaluates
them in every run. They say that null and "left out" are no ids, that bounds are
natural numbers, that a page reads existing sections, and of the categories that requests
are finitely many and the cap is at least 2 (it is 60). Hypotheses of single theorems are
`Untagged`, `Exact` and `~Wholesale`, which are explained above, `IsFiniteSet(Rows)`
for the sum over the ledger and `IsFiniteSet(Workers)` for the theorems on polls.

Sums deserve a word. The induction rules of the library take an operator as a parameter,
which none of the provers can instantiate, so nothing can be proved by applying
them. The sums of `Dues` and `ServiceHours` are folds over finite sets, and what is
needed of them is proved by descent instead: among the sets for which a statement fails
there would be a smallest (`WFMin`, for the order of strict inclusion), and from it one
element can be taken away.

Only model-checked: the liveness properties `Converges`, `Unwalled` and `LoadingEnds`
(the prover has no rule for fairness and `ENABLED`), and the counterexamples below.

## What was found

Each is a disagreement between the code and what its own comments say of it;
`PROJECT.json` quotes both. Where a configuration is named, TLC finds the
counterexample with it.

1. `dues-service.ts:111`: "snap a sub-cent remainder" overwrites the balance
   (`MCDuesSnap`, module `MCDues`).
2. `transaction-service.ts:375`: the edit guard does not look at the status
   (`MCDuesStatus`, `MCDues`).
3. `transaction-service.ts:171`: the insert drops the member that the duplicate lookup
   compares (`MCDuesTagged`, `MCDues`).
4. `money.ts:35`: "the validators round to cents", and a waiver cannot push a balance below
   zero. They do not round, and it can, by less than a cent (`NonNegative`, on
   `MCDues.cfg`).
5. `reimbursement-service.ts:199`: a rejection is not a compare-and-set
   (`MCReimbursementsTwice`, `MCReimbursements`).
6. `billing/sync.ts`: the flag is cleared from a recorded quantity that a lost reply
   has made false (`MCSeatSyncFlag`, `MCSeatSync`).
7. `membership-service.ts:54`: admins are counted before, and not inside, the
   transaction that removes one (`MCRosterAdmin`, `MCRoster`).
8. `billing/webhook.ts`: "running twice converges" does not hold of two runs that
   overlap: the older retrieval may be written last (`RunningTwiceConverges`).
9. `billing/sync.ts:223`: the row keeps the handle of a subscription that expired unpaid,
   and the pull asks for that one for ever (`Recoverable`, on `MCStripeLive.cfg`).
10. `billing/apply.ts:51`: an event for a chapter that is gone is not acknowledged, as
   its comment says, but fails again and again.
11. `semester-service.ts:12`: two statements without a transaction leave two active
   semesters, or none (`OneActive`).
12. `calendar-service.ts:126`: deleting a calendar event takes participations whose
    hours stay on the roster (`TotalFollows`).
13. `brother-service.ts:207`: the hours of a member are taken from the body of a request,
    though "services never write serviceHours directly" (`TotalDerived`).
14. `ChapterContext.tsx:632`: a navigation drops the answers of a refresh under way
    (`MCClientResync`, `MCClientStore`).
15. `brother-service.ts:364`: removing somebody deletes the account, and with it what
    chapters that they have left keep on purpose (`MCTenancyPast`, `MCTenancy`).
16. `service-event-service.ts:114`: a service event that the board has published cannot
    be deleted, nor its chapter (`MCLinksService`, `MCLinks`).
17. `programming-service.ts:287`: the freeze of published events holds on the board and
    not on the calendar page (`FrozenOnTimeline`).
18. `programming-service.ts:526`: "backward moves are always free", until a roll was
    taken (the guard of `Demote`).
19. `poll-service.ts:341`: a vote that arrives while the options are being replaced is
    deleted, and two edits leave both lists (`MCEditsVotes`, `MCEdits`).
20. `party-service.ts:118`: deleting a party leaves its event behind whenever a roll
    was taken, since the records do not cascade (`MCLinksRolls`, `MCLinks`).
21. `party-service.ts:177`: two wrap-ups at once create two events.
22. `transaction-category-service.ts:224`: a row may be filed between count and
    deletion, and two edits of a row, one of its type and one of its category, leave
    a pair that neither checked (`MCLinksCategories`, `MCLinks`).
23. `tasks/page.tsx:246`: an error puts back the whole list
    (`MCEditsTasks`, `MCEdits`).
24. `treasury/page.tsx:878`: an error puts back the row as it was when its dialog was
    opened, not as it was on the page (`Restored`).

## Not modelled, and limits of the model

* Chat and the assistant: an approval is an audit row that is written after the client
  has done the write through an ordinary route; it is signed and consumes nothing. What
  remains is prompt text and an external model.
* Tasks: assignees are replaced as in `Polls`, without votes; nothing else is shared.
* Documents, social posts, budget, metrics, treasury settings: single statements, sums
  computed when read.
* Sessions and organisation resolution: decided anew for each request; the identity
  provider is external. Rate limiting counts in the memory of one process, and nothing
  depends on it.
* Of `org-service`, founding a chapter (the initial state here) and configuration; of
  `brother-service`, profile edits and unlinking a login; of `role-service`, rank rules,
  which are single statements decided from the request's own context.
* Row-level security: a second fence beneath the tenant wrapper, which no code path
  relies on. `Tenancy` states isolation of the wrapper's delegates.
* Most of the repository is presentation: pages and components, their styles, forms and
  wording. Of it only the store and the optimistic handlers keep state that can go
  wrong in an order; rendering has no states to explore. For this reason the mapped
  lines are a small part of all lines.
* In `Roster` the caller's own `isOrgAdmin`, which the request context reads a moment
  before the count of other admins, is read with that count, and a link is resolved
  together with the membership look-up that follows.
* In `SeatSync` there is one subscription at a time, and a pull writes what it
  retrieved in one step; statuses are the subject of `StripeEvents`, where quantities
  are left out.
* In `Attendance` the reads of one recalculation are one step; the check of dates
  against the semester is left out. In `Polls` a role admits anybody, as its holders
  change all the time. In `PageEdits` there is one tab and one list.
* In `Dues` all residues of float arithmetic are one flag, and do not add up to a unit;
  validation is the set of inputs; the mirror columns in cents are left out.

## What could come next

1. An abstract specification of the seat gate (a counter with atomic test-and-add) and
   the proof that `Roster` implements it for one handler; the same for the publish
   boundary of `Programming`.
2. Compositions: `Roster` with `StripeEvents` (the limit follows the subscription), and
   `Reimbursements` with the ledger of `Dues`.
3. `ClientStore` and `PageEdits` over one list, so that a dropped refresh and a roll-back
   meet.
