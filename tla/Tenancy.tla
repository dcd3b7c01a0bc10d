------------------------------ MODULE Tenancy ------------------------------
(***************************************************************************)
(* Several chapters and the accounts they share.  A person has one account *)
(* (Brother), with the chapter it first appeared in as its home, and a     *)
(* membership, role grants and records (attendance, excuses, dues payments,*)
(* service hours, votes ...) in every chapter.  Requests of all chapters   *)
(* interleave: approveJoinRequest, grantRole, a write about a member,      *)
(* leaveOrg, deleteBrother and deleteOrg, over the scoped delegates of     *)
(* lib/db/tenant.ts.                                                       *)
(*                                                                         *)
(* The admins who decide are not among the People: who may decide, the     *)
(* seats and the links are the subject of Roster.  So are the ledger and   *)
(* the log, which keep their rows when a person goes, of Dues.             *)
(***************************************************************************)
EXTENDS Naturals, FiniteSets

CONSTANTS
  Orgs,     \* chapters that have been founded
  People,   \* Google accounts, none of them an admin's
  Workers,  \* concurrent requests
  None      \* null

ASSUME NoneAssumption == None \notin Orgs \cup People

VARIABLES
  orgs,      \* the chapters that exist
  home,      \* Brother.organizationId, None for a person without an account
  members,   \* Membership, unique for chapter and person
  grants,    \* BrotherRole: who holds a role in which chapter
  records,   \* the rows about a person that go with the account (ON DELETE CASCADE)
  pc, job,   \* where each request is, and what it remembers
  departed,  \* ghost: who has left which chapter, and not joined it again
  stale      \* ghost: whom a chapter wrote about although they were gone, or going

vars == <<orgs, home, members, grants, records, pc, job, departed, stale>>

Pairs == Orgs \X People

Of(o, rel) == {x \in rel : x[1] = o}
About(p, rel) == {x \in rel : x[2] = p}

\* org, who: whom the request is about, and where; known: was an account, or
\* a membership elsewhere, found?  homes, dest: deleteOrg's home brothers, and
\* where they are re-homed; joined: ghost, of those whose account the request is
\* deleting, who has joined a chapter since it found that nothing keeps the account.
Job == [org : Orgs \cup {None}, who : People \cup {None}, known : BOOLEAN,
        homes : SUBSET People, dest : [People -> Orgs \cup {None}], joined : SUBSET People]
Nowhere == [p \in People |-> None]
NoJob == [org |-> None, who |-> None, known |-> FALSE, homes |-> {}, dest |-> Nowhere,
          joined |-> {}]

Writing == {"granting", "recording"}
Steps == {"idle", "approving", "leaving", "counting", "counted", "deleting", "erasing",
          "dropping", "tearing", "rehoming"} \cup Writing

Init ==
  /\ orgs = Orgs
  /\ home = Nowhere
  /\ members = {} /\ grants = {} /\ records = {}
  /\ pc = [w \in Workers |-> "idle"]
  /\ job = [w \in Workers |-> NoJob]
  /\ departed = {} /\ stale = {}

Goto(w, step, j) == pc' = [pc EXCEPT ![w] = step] /\ job' = [job EXCEPT ![w] = j]
Finish(w) == Goto(w, "idle", NoJob)

Pair(w) == <<job[w].org, job[w].who>>

\* The chapter of the context exists, and the request is about this person.
Begin(w, step, o, p) ==
  /\ pc[w] = "idle"
  /\ o \in orgs
  /\ Goto(w, step, [NoJob EXCEPT !.org = o, !.who = p])

ghosts == <<departed, stale>>
tables == <<orgs, home, members, grants, records>>

-----------------------------------------------------------------------------
(* approveJoinRequest *)

\* findIdentityByAuthUserId looks for the account across all chapters.
StartApproval(w, o, p) ==
  /\ pc[w] = "idle"
  /\ o \in orgs /\ <<o, p>> \notin members
  /\ Goto(w, "approving",
          [NoJob EXCEPT !.org = o, !.who = p, !.known = home[p] # None])
  /\ UNCHANGED <<tables, ghosts>>

\* Has another request found already that nothing keeps this account?
Doomed(w, p) ==
  \/ pc[w] \in {"counted", "deleting"} /\ job[w].who = p
  \/ pc[w] = "rehoming" /\ p \in job[w].homes /\ job[w].dest[p] = None

\* Request w is done, and the others that are deleting the account of p have missed it.
Join(w, p) ==
  /\ pc' = [pc EXCEPT ![w] = "idle"]
  /\ job' = [v \in Workers |-> IF v = w THEN NoJob
                               ELSE IF Doomed(v, p) THEN [job[v] EXCEPT !.joined = @ \cup {p}]
                               ELSE job[v]]

\* The records are erased already, and the membership is about to go.
BeingDropped(x) == \E w \in Workers : pc[w] = "dropping" /\ Pair(w) = x

\* One transaction: an account if there was none, which is the home then; the
\* membership; a role if one was given.  An account that was made, and a
\* membership that was granted in the meantime, make it fail.
Approve(w) ==
  LET o == job[w].org
      p == job[w].who
  IN
  /\ pc[w] = "approving"
  /\ o \in orgs /\ <<o, p>> \notin members
  /\ job[w].known <=> home[p] # None
  /\ home' = IF job[w].known THEN home ELSE [home EXCEPT ![p] = o]
  /\ members' = members \cup {<<o, p>>}
  /\ grants' \in {grants, grants \cup {<<o, p>>}}
  /\ departed' = departed \ {<<o, p>>}
  /\ stale' = IF BeingDropped(<<o, p>>) THEN stale \cup {<<o, p>>} ELSE stale
  /\ Join(w, p)
  /\ UNCHANGED <<orgs, records>>

-----------------------------------------------------------------------------
(* Writes about a member: grantRole, recordAttendance and their like look the *)
(* member up, or list the roster, and then insert.                            *)

StartWrite(w, step, o, p) ==
  /\ <<o, p>> \in members
  /\ Begin(w, step, o, p)
  /\ UNCHANGED <<tables, ghosts>>

\* The foreign keys ask for the account and the chapter, not for a membership.
Insert(w, rel) ==
  LET x == Pair(w) IN
  /\ x[1] \in orgs /\ home[x[2]] # None
  /\ rel' = rel \cup {x}
  /\ stale' = IF x \notin members \/ BeingDropped(x) THEN stale \cup {x} ELSE stale
  /\ Finish(w)

GrantRole(w) ==
  /\ pc[w] = "granting"
  /\ Insert(w, grants)
  /\ UNCHANGED <<orgs, home, members, records, departed>>

WriteRecord(w) ==
  /\ pc[w] = "recording"
  /\ Insert(w, records)
  /\ UNCHANGED <<orgs, home, members, grants, departed>>

-----------------------------------------------------------------------------
(* leaveOrg *)

StartLeave(w, o, p) ==
  /\ <<o, p>> \in members
  /\ Begin(w, "leaving", o, p)
  /\ UNCHANGED <<tables, ghosts>>

KeptGrants(x) == grants                      \* mutant: only the membership goes
Revoked(x) == grants \ {x}

\* The grants and the membership go, and nothing else does.
Leave(w) ==
  LET x == Pair(w) IN
  /\ pc[w] = "leaving"
  /\ grants' = Revoked(x)
  /\ members' = members \ {x}
  /\ departed' = departed \cup {x}
  /\ Finish(w)
  /\ UNCHANGED <<orgs, home, records, stale>>

-----------------------------------------------------------------------------
(* deleteBrother *)

StartDelete(w, o, p) ==
  /\ <<o, p>> \in members
  /\ Begin(w, "counting", o, p)
  /\ UNCHANGED <<tables, ghosts>>

OrgScopedCount(o, p) == Cardinality(About(p, Of(o, members)))  \* mutant: the caller's own client counts
CountMemberships(o, p) == Cardinality(About(p, members))

\* countMemberships decides which of the two deletions it is to be.
Count(w) ==
  /\ pc[w] = "counting"
  /\ Goto(w, IF CountMemberships(job[w].org, job[w].who) > 1 THEN "erasing" ELSE "counted",
          job[w])
  /\ UNCHANGED <<tables, ghosts>>

\* identity.deleteAccount: requireMember looks for the membership once more ...
RequireMember(w) ==
  /\ pc[w] = "counted"
  /\ Pair(w) \in members
  /\ Goto(w, "deleting", job[w])
  /\ UNCHANGED <<tables, ghosts>>

\* The accounts of S are no more.  A request that still holds one of their ids can
\* only fail, or find nothing to do, and is ended here.
Holds(w, S) ==
  \/ job[w].who \in S /\ pc[w] # "approving"
  \/ job[w].who \in S /\ pc[w] = "approving" /\ job[w].known

EndHolders(w, S) ==
  /\ pc' = [v \in Workers |-> IF v = w \/ Holds(v, S) THEN "idle" ELSE pc[v]]
  /\ job' = [v \in Workers |-> IF v = w \/ Holds(v, S) THEN NoJob
                               ELSE [job[v] EXCEPT !.homes = @ \ S]]

\* ... and one DELETE, with what the foreign keys make of it in every chapter.
DeleteAccount(w) ==
  LET p == job[w].who IN
  /\ pc[w] = "deleting"
  /\ home' = [home EXCEPT ![p] = None]
  /\ members' = members \ About(p, members)
  /\ grants' = grants \ About(p, grants)
  /\ records' = records \ About(p, records)
  /\ departed' = departed \ About(p, departed)
  /\ stale' = stale \ About(p, stale)
  /\ EndHolders(w, {p})
  /\ UNCHANGED orgs

KeptRecords(x) == records                    \* mutant: the cascades will do it
Erased(x) == records \ {x}

\* eraseOrgScopedRecords, in one transaction ...
EraseRecords(w) ==
  LET x == Pair(w) IN
  /\ pc[w] = "erasing"
  /\ records' = Erased(x)
  /\ grants' = grants \ {x}
  /\ stale' = stale \ {x}
  /\ Goto(w, "dropping", job[w])
  /\ UNCHANGED <<orgs, home, members, departed>>

\* ... and member.deleteByBrotherId, which fails if there is none.
DropMembership(w) ==
  LET x == Pair(w) IN
  /\ pc[w] = "dropping"
  /\ x \in members
  /\ members' = members \ {x}
  /\ Finish(w)
  /\ UNCHANGED <<orgs, home, grants, records, ghosts>>

-----------------------------------------------------------------------------
(* deleteOrg: one transaction, whose statements see what others commit *)

StartTeardown(w, o) ==
  /\ pc[w] = "idle"
  /\ o \in orgs
  /\ Goto(w, "tearing",
          [NoJob EXCEPT !.org = o, !.homes = {p \in People : home[p] = o}])
  /\ UNCHANGED <<tables, ghosts>>

AnyMembership(o, p) == {x[1] : x \in About(p, members)}  \* mutant: those here are still there
Elsewhere(o, p) == {x[1] : x \in About(p, members) \ Of(o, members)}
NewHomes(o, p) == IF Elsewhere(o, p) = {} THEN {None} ELSE Elsewhere(o, p)

\* A home brother with a membership elsewhere is re-homed to one of these.
SplitHomes(w) ==
  LET j == job[w] IN
  /\ pc[w] = "tearing"
  /\ \E d \in [People -> Orgs \cup {None}] :
       /\ \A p \in People : IF p \in j.homes THEN d[p] \in NewHomes(j.org, p)
                            ELSE d[p] = None
       /\ Goto(w, "rehoming", [j EXCEPT !.dest = d])
  /\ UNCHANGED <<tables, ghosts>>

\* The rest goes with the chapter.  An account that has been made in it since, and
\* a new home that has gone, stop the transaction.
TearDown(w) ==
  LET o == job[w].org
      kept == {p \in job[w].homes : job[w].dest[p] # None}
      doomed == job[w].homes \ kept
      Left(rel) == {x \in rel : x[1] # o /\ x[2] \notin doomed}
  IN
  /\ pc[w] = "rehoming"
  /\ o \in orgs
  /\ \A p \in People : home[p] = o => p \in job[w].homes
  /\ \A p \in kept : job[w].dest[p] \in orgs
  /\ orgs' = orgs \ {o}
  /\ home' = [p \in People |-> IF p \in kept THEN job[w].dest[p]
                               ELSE IF p \in doomed THEN None ELSE home[p]]
  /\ members' = Left(members)
  /\ grants' = Left(grants)
  /\ records' = Left(records)
  /\ departed' = Left(departed) /\ stale' = Left(stale)
  /\ EndHolders(w, doomed)

-----------------------------------------------------------------------------

\* A guard or a statement fails, or the process dies.
Die(w) ==
  /\ pc[w] # "idle"
  /\ Finish(w)
  /\ UNCHANGED <<tables, ghosts>>

Start(w) ==
  \E o \in Orgs :
    \/ StartTeardown(w, o)
    \/ \E p \in People :
         \/ StartApproval(w, o, p) \/ StartLeave(w, o, p) \/ StartDelete(w, o, p)
         \/ \E step \in Writing : StartWrite(w, step, o, p)

Removal(w) ==
  Leave(w) \/ DeleteAccount(w) \/ EraseRecords(w) \/ DropMembership(w) \/ TearDown(w)

Next ==
  \E w \in Workers :
    \/ Start(w) \/ Approve(w) \/ GrantRole(w) \/ WriteRecord(w)
    \/ Count(w) \/ RequireMember(w) \/ SplitHomes(w) \/ Removal(w) \/ Die(w)

Spec == Init /\ [][Next]_vars

-----------------------------------------------------------------------------

\* Referential integrity is part of the type.
Anchored == {x \in Pairs : x[1] \in orgs /\ home[x[2]] # None}

TypeOK ==
  /\ orgs \subseteq Orgs
  /\ home \in [People -> orgs \cup {None}]
  /\ members \subseteq Anchored /\ grants \subseteq Anchored /\ records \subseteq Anchored
  /\ pc \in [Workers -> Steps]
  /\ job \in [Workers -> Job]
  /\ departed \subseteq Pairs /\ stale \subseteq Pairs

\* brother-service.ts: "Their other rosters are untouched".  A membership, and what
\* a chapter has on record of a member, goes only by a request of that chapter, or with
\* the account by one of another chapter, if the person has joined a chapter after that
\* request found that nothing keeps the account.
Lost == (members \ members') \cup (members \cap (records \ records'))
OthersStand ==
  [][\A x \in Lost : \E w \in Workers :
       Removal(w) /\ (job[w].org = x[1] \/ x[2] \in job[w].joined)]_vars

\* deleteBrother "erases everything this org holds about them": what a chapter has
\* on record of somebody who is no member is of one who left, or was written too late.
Erasure == records \ members \subseteq departed \cup stale

\* membership-service.ts: no stale grant, that would "silently re-apply if the user
\* is ever re-invited", but one that was written too late.
NoStaleGrant == grants \subseteq members \cup stale

-----------------------------------------------------------------------------
(* What the three follow from *)

AboutOne ==
  {"approving", "leaving", "counting", "counted", "deleting", "erasing", "dropping"}
    \cup Writing

JobsInv ==
  \A w \in Workers :
    /\ pc[w] \in AboutOne => job[w].org \in Orgs /\ job[w].who \in People
    /\ pc[w] \in {"tearing", "rehoming"} => job[w].org \in Orgs
    /\ pc[w] = "rehoming" => \A p \in People : job[w].dest[p] # job[w].org

\* An account that was counted has one membership at most, and one that a chapter is
\* about to delete has none in another chapter, but for who joined meanwhile.
Kept(w, p) ==
  IF pc[w] = "counted" THEN \A x, y \in About(p, members) : x = y
  ELSE \A x \in About(p, members) : x[1] = job[w].org
DoomInv ==
  \A w \in Workers, p \in People : Doomed(w, p) => p \in job[w].joined \/ Kept(w, p)

\* Where a membership is about to go, the rest has gone already, but for what was
\* written meanwhile.
DropInv ==
  \A w \in Workers : pc[w] = "dropping" => Pair(w) \notin (grants \cup records) \ stale

IInv ==
  /\ TypeOK /\ JobsInv /\ IsFiniteSet(members)
  /\ DoomInv /\ DropInv /\ Erasure /\ NoStaleGrant

-----------------------------------------------------------------------------

\* membership-service.ts says of leaveOrg that attendance is "left untouched", and
\* org-service.ts that attendance "only ever references a brother's OWN home org":
\* no chapter but their own deletes the records of those who left.
PastStands ==
  [][\A x \in records \ records' : \E w \in Workers :
       Removal(w) /\ (job[w].org = x[1] \/ x[2] \in job[w].joined)]_vars

=============================================================================
