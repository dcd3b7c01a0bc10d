------------------------------- MODULE Roster -------------------------------
(***************************************************************************)
(* One chapter's roster: how people ask to join through an invite link,    *)
(* how officers decide, how the seat gate bounds the decision, and how     *)
(* members leave, are removed, archived and restored                       *)
(* (lib/auth/join-request-submit.ts, lib/services/join-request-service.ts, *)
(* invite-service.ts, membership-service.ts, brother-service.ts,           *)
(* lib/billing/guard.ts).                                                  *)
(*                                                                         *)
(* Handlers run concurrently.  The reads a handler bases its decision on   *)
(* and the write that carries it out are separate actions, because none of *)
(* these handlers locks or restates in its write what it has read.         *)
(*                                                                         *)
(* A person is one Google account.  Role grants, names and the other       *)
(* columns of a membership are left out.                                   *)
(***************************************************************************)
EXTENDS Integers, FiniteSets

CONSTANTS
  Workers,     \* concurrent handlers
  Persons,     \* people, one account each
  Founder,     \* who founded the chapter
  Links,       \* invite links
  Cap,         \* maxUses of each link
  FreeSeats,   \* members a chapter may have without paying: 4
  PaidSeats,   \* members a chapter in good standing may have: 120
  Elsewhere,   \* people who are members of other chapters too
  Seekers,     \* bound: people who ask to join
  Deputies,    \* bound: people platform staff may make admins
  Seasonal,    \* bound: people who are archived and restored
  None         \* null

ASSUME SetsAssumption ==
  /\ IsFiniteSet(Workers) /\ Workers # {} /\ IsFiniteSet(Persons)
  /\ Founder \in Persons
  /\ Elsewhere \cup Seekers \cup Deputies \cup Seasonal \subseteq Persons
  /\ None \notin Persons \cup Links
ASSUME LimitsAssumption ==
  /\ Cap \in [Links -> Nat \ {0}]
  /\ FreeSeats \in Nat \ {0} /\ PaidSeats \in Nat /\ FreeSeats <= PaidSeats

VARIABLES
  roster,     \* each person's membership: none, active, or archived
  admins,     \* members with isOrgAdmin
  requests,   \* each person's JoinRequest row, at most one
  redeemed,   \* InviteRedemption rows: <<link, person>>
  closed,     \* links revoked or expired
  limit,      \* members the gate allows, by the subscription's status
  peak,       \* ghost: the largest limit there has been
  pc,         \* where each handler is
  job,        \* what each handler remembers
  crossed     \* ghost: people for whom a decision was carried out that was taken
              \* on a request, or a membership, that had changed in between

vars == <<roster, admins, requests, redeemed, closed, limit, peak, pc, job, crossed>>

Standing == {"out", "active", "archived"}
Request == [status : {"none", "pending", "approved", "rejected"}, link : Links \cup {None}]
Job == [who : Persons \cup {None}, link : Links \cup {None}, seen : Request]

NoRequest == [status |-> "none", link |-> None]
NoJob == [who |-> None, link |-> None, seen |-> NoRequest]

Steps == {"idle", "asked", "filing", "approving", "admitting", "rejecting",
          "leaving", "removing", "erased", "restoring", "returning"}

Init ==
  /\ roster = [p \in Persons |-> IF p = Founder THEN "active" ELSE "out"]
  /\ admins = {Founder}
  /\ requests = [p \in Persons |-> NoRequest]
  /\ redeemed = {}
  /\ closed = {}
  /\ limit = FreeSeats /\ peak = FreeSeats
  /\ pc = [w \in Workers |-> "idle"]
  /\ job = [w \in Workers |-> NoJob]
  /\ crossed = {}

Active == {p \in Persons : roster[p] = "active"}       \* countBillableMembers
Redeemers(l) == {p \in Persons : <<l, p>> \in redeemed}
Queued(l) == {p \in Persons : requests[p] = [status |-> "pending", link |-> l]}

Goto(w, step, j) == pc' = [pc EXCEPT ![w] = step] /\ job' = [job EXCEPT ![w] = j]
Finish(w) == Goto(w, "idle", NoJob)

Begin(w, step, j) == pc[w] = "idle" /\ Goto(w, step, j)

On(p) == [NoJob EXCEPT !.who = p]

Write(p, status, link) ==
  requests' = [requests EXCEPT ![p] = [status |-> status, link |-> link]]

\* A write for p is carried out: has what it was decided on changed?
Cross(p, changed) == crossed' = IF changed THEN crossed \cup {p} ELSE crossed

-----------------------------------------------------------------------------
(* submitJoinRequest *)

NotMember(p) == roster[p] = "out"

\* The link is resolved and the membership looked up.  A member is told so, and
\* through a dead link nothing is filed.
Knock(w, p, l) ==
  /\ p \in Seekers
  /\ l \notin closed /\ Cardinality(Redeemers(l)) < Cap[l]
  /\ NotMember(p)
  /\ Begin(w, "asked", [On(p) EXCEPT !.link = l])
  /\ UNCHANGED <<roster, admins, requests, redeemed, closed, limit, peak, crossed>>

\* Nothing is filed while a request is pending, or after a rejection through this
\* same link.
MayFile(r, l) == r.status # "pending" /\ r # [status |-> "rejected", link |-> l]

HasRoomLast(l) == Cardinality(Redeemers(l)) < Cap[l]  \* mutant: the queue not counted
HasRoom(l) == Cardinality(Redeemers(l)) + Cardinality(Queued(l)) < Cap[l]

Consider(w) ==
  LET p == job[w].who
      l == job[w].link IN
  /\ pc[w] = "asked"
  /\ IF MayFile(requests[p], l) /\ HasRoom(l)
       THEN Goto(w, "filing", [job[w] EXCEPT !.seen = requests[p]])
       ELSE Finish(w)
  /\ UNCHANGED <<roster, admins, requests, redeemed, closed, limit, peak, crossed>>

File(w) ==
  LET p == job[w].who IN
  /\ pc[w] = "filing"
  /\ Write(p, "pending", job[w].link)
  /\ Cross(p, requests[p] # job[w].seen \/ roster[p] # "out")
  /\ Finish(w)
  /\ UNCHANGED <<roster, admins, redeemed, closed, limit, peak>>

-----------------------------------------------------------------------------
(* approveJoinRequest, rejectJoinRequest, and the seat gate *)

AnyRequest(p) == requests[p].status # "none"    \* mutant: decided ones too
Undecided(p) == requests[p].status = "pending"

\* An officer opens a request, to approve or to reject it.
Review(w, p, step) ==
  /\ step \in {"approving", "rejecting"}
  /\ Undecided(p)
  /\ Begin(w, step, [On(p) EXCEPT !.link = requests[p].link, !.seen = requests[p]])
  /\ UNCHANGED <<roster, admins, requests, redeemed, closed, limit, peak, crossed>>

SeatFreeNow == Cardinality(Active) <= limit     \* mutant: the next member not counted
SeatFree == Cardinality(Active) + 1 <= limit

\* gateSeat, before an approval and before a restore.
Gate(w) ==
  /\ pc[w] \in {"approving", "restoring"}
  /\ IF SeatFree
       THEN Goto(w, IF pc[w] = "approving" THEN "admitting" ELSE "returning", job[w])
       ELSE Finish(w)
  /\ UNCHANGED <<roster, admins, requests, redeemed, closed, limit, peak, crossed>>

\* The transaction: membership, redemption and decision.  The membership's unique
\* key refuses a second one.
Admit(w) ==
  LET p == job[w].who IN
  /\ pc[w] = "admitting"
  /\ roster[p] = "out"
  /\ roster' = [roster EXCEPT ![p] = "active"]
  /\ redeemed' = redeemed \cup {<<job[w].link, p>>}
  /\ Write(p, "approved", requests[p].link)
  /\ Cross(p, requests[p] # job[w].seen)
  /\ Finish(w)
  /\ UNCHANGED <<admins, closed, limit, peak>>

Reject(w) ==
  LET p == job[w].who IN
  /\ pc[w] = "rejecting"
  /\ Write(p, "rejected", requests[p].link)
  /\ Cross(p, requests[p] # job[w].seen)
  /\ Finish(w)
  /\ UNCHANGED <<roster, admins, redeemed, closed, limit, peak>>

\* The handler dies, or its transaction fails.
Abort(w) ==
  /\ pc[w] # "idle"
  /\ Finish(w)
  /\ UNCHANGED <<roster, admins, requests, redeemed, closed, limit, peak, crossed>>

-----------------------------------------------------------------------------
(* leaveOrg, deleteBrother *)

\* The guard against going when nobody else is an admin.
OthersAreAdmins(p) == p \in admins => admins \ {p} # {}

StartLeaving(w, p, step) ==
  /\ step \in {"leaving", "removing"}
  /\ roster[p] # "out"
  /\ OthersAreAdmins(p)
  /\ Begin(w, step, On(p))
  /\ UNCHANGED <<roster, admins, requests, redeemed, closed, limit, peak, crossed>>

DropRow(p) ==
  /\ roster' = [roster EXCEPT ![p] = "out"]
  /\ admins' = admins \ {p}

Leave(w) ==
  /\ pc[w] = "leaving"
  /\ DropRow(job[w].who)
  /\ Finish(w)
  /\ UNCHANGED <<requests, redeemed, closed, limit, peak, crossed>>

Unredeem(p) == redeemed' = {r \in redeemed : r[2] # p}

\* Of a member of this chapter only, the account goes, and everything with it.
DeleteAccount(w) ==
  /\ pc[w] = "removing" /\ job[w].who \notin Elsewhere
  /\ roster[job[w].who] # "out"
  /\ DropRow(job[w].who)
  /\ Unredeem(job[w].who)
  /\ Finish(w)
  /\ UNCHANGED <<requests, closed, limit, peak, crossed>>

\* Of a member of other chapters too, first this chapter's records go, ...
EraseRecords(w) ==
  /\ pc[w] = "removing" /\ job[w].who \in Elsewhere
  /\ Unredeem(job[w].who)
  /\ Goto(w, "erased", job[w])
  /\ UNCHANGED <<roster, admins, requests, closed, limit, peak, crossed>>

\* ... and then the membership.
DeleteRow(w) ==
  /\ pc[w] = "erased"
  /\ roster[job[w].who] # "out"
  /\ DropRow(job[w].who)
  /\ Finish(w)
  /\ UNCHANGED <<requests, redeemed, closed, limit, peak, crossed>>

-----------------------------------------------------------------------------
(* updateBrother: archiving and restoring *)

Archive(p) ==
  /\ p \in Seasonal
  /\ roster[p] # "out"
  /\ roster' = [roster EXCEPT ![p] = "archived"]
  /\ UNCHANGED <<admins, requests, redeemed, closed, limit, peak, pc, job, crossed>>

Ungated(p) == roster[p] # "archived"

\* Only a member who is archived now has to pass the gate.
StartRestoring(w, p) ==
  /\ p \in Seasonal
  /\ Begin(w, IF Ungated(p) THEN "returning" ELSE "restoring", On(p))
  /\ UNCHANGED <<roster, admins, requests, redeemed, closed, limit, peak, crossed>>

Restore(w) ==
  /\ pc[w] = "returning"
  /\ roster[job[w].who] # "out"
  /\ roster' = [roster EXCEPT ![job[w].who] = "active"]
  /\ Finish(w)
  /\ UNCHANGED <<admins, requests, redeemed, closed, limit, peak, crossed>>

-----------------------------------------------------------------------------
(* Single writes *)

\* Platform staff make a member an admin of the chapter, or no longer one.
SetAdmin(p) ==
  /\ p \in Deputies /\ roster[p] # "out"
  /\ admins' \in {admins \cup {p}, admins \ {p}}
  /\ UNCHANGED <<roster, requests, redeemed, closed, limit, peak, pc, job, crossed>>

\* A link is revoked, or expires.
Close(l) ==
  /\ closed' = closed \cup {l}
  /\ UNCHANGED <<roster, admins, requests, redeemed, limit, peak, pc, job, crossed>>

\* The subscription comes into good standing, or falls out of it.
ChangeLimit ==
  /\ limit' \in {FreeSeats, PaidSeats}
  /\ peak' = IF limit' > peak THEN limit' ELSE peak
  /\ UNCHANGED <<roster, admins, requests, redeemed, closed, pc, job, crossed>>

-----------------------------------------------------------------------------

Submit(w) ==
  \/ \E p \in Persons, l \in Links : Knock(w, p, l)
  \/ Consider(w) \/ File(w)

Decision(w) ==
  \/ \E p \in Persons, step \in {"approving", "rejecting"} : Review(w, p, step)
  \/ Gate(w) \/ Admit(w) \/ Reject(w)

Depart(w) ==
  \/ \E p \in Persons, step \in {"leaving", "removing"} : StartLeaving(w, p, step)
  \/ Leave(w) \/ DeleteAccount(w) \/ EraseRecords(w) \/ DeleteRow(w)

Return(w) == (\E p \in Persons : StartRestoring(w, p)) \/ Restore(w)

Next ==
  \/ \E w \in Workers : Submit(w) \/ Decision(w) \/ Depart(w) \/ Return(w) \/ Abort(w)
  \/ \E p \in Persons : Archive(p) \/ SetAdmin(p)
  \/ \E l \in Links : Close(l)
  \/ ChangeLimit

Spec == Init /\ [][Next]_vars

-----------------------------------------------------------------------------

TypeOK ==
  /\ roster \in [Persons -> Standing]
  /\ admins \subseteq Persons
  /\ requests \in [Persons -> Request]
  /\ redeemed \subseteq Links \X Persons
  /\ closed \subseteq Links
  /\ limit \in {FreeSeats, PaidSeats} /\ peak \in {FreeSeats, PaidSeats} /\ limit <= peak
  /\ pc \in [Workers -> Steps]
  /\ job \in [Workers -> Job]
  /\ crossed \subseteq Persons

\* The count and the write are apart, so the gate can be overshot: by one member
\* for every handler but one, and never further, whatever is archived, restored,
\* removed and let in again.
SeatsBounded == Cardinality(Active) <= peak - 1 + Cardinality(Workers)

\* The cap of a link is soft in the same way.  It holds for the people the link
\* has let in and those who wait, each counted once.
LinkBounded ==
  \A l \in Links :
    Cardinality(Redeemers(l) \cup Queued(l)) <= Cap[l] - 1 + Cardinality(Workers)

\* Nobody who waits or was turned down is on the roster, except where a decision
\* was overtaken by another one on the same person.
QueueTruthful ==
  \A p \in Persons \ crossed :
    requests[p].status \in {"pending", "rejected"} => roster[p] = "out"

\* membership-service.ts: leaving "would orphan the org with no one able to manage
\* it", so the only admin cannot leave, and cannot be deleted.
LastAdminStays ==
  [][roster' # roster /\ admins # {} => admins' # {}]_vars

-----------------------------------------------------------------------------
(***************************************************************************)
(* The inductive invariant.  A handler that has passed a check is about to *)
(* use up what it was shown; counted together with what is used up, that   *)
(* never grows except when a check is passed, and then it is bounded.      *)
(***************************************************************************)

\* Who is about to become active.  A restore only finds somebody on the roster.
Coming ==
  {p \in Persons : \E w \in Workers :
     /\ job[w].who = p
     /\ pc[w] = "admitting" \/ (pc[w] = "returning" /\ roster[p] # "out")}

\* Who is about to be filed or let in through l.
Heading(l) ==
  {p \in Persons : \E w \in Workers :
     /\ job[w].who = p /\ job[w].link = l
     /\ pc[w] \in {"filing", "approving", "admitting"}}

JobsInv ==
  \A w \in Workers :
    /\ pc[w] # "idle" => job[w].who \in Persons
    /\ pc[w] \in {"asked", "filing", "approving", "admitting", "rejecting"} =>
         job[w].link \in Links
    /\ pc[w] \in {"approving", "admitting", "rejecting"} =>
         job[w].seen.status = "pending" /\ requests[job[w].who].status # "none"

RequestsInv ==
  \A p \in Persons : requests[p].status # "none" => requests[p].link \in Links

SeatsInv == Cardinality(Active \cup Coming) <= peak - 1 + Cardinality(Workers)

LinksInv ==
  \A l \in Links :
    Cardinality(Redeemers(l) \cup Queued(l) \cup Heading(l))
      <= Cap[l] - 1 + Cardinality(Workers)

IInv == TypeOK /\ JobsInv /\ RequestsInv /\ SeatsInv /\ LinksInv /\ QueueTruthful

=============================================================================
