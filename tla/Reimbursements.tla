--------------------------- MODULE Reimbursements ---------------------------
(***************************************************************************)
(* Reimbursement requests and the expense rows their approvals mint, as    *)
(* lib/services/reimbursement-service.ts moves them, and as the two other  *)
(* handlers that reach the same rows do: PATCH and DELETE of a transaction *)
(* (an expense row is no dues payment, so neither is guarded).             *)
(*                                                                         *)
(* updateReimbursement reads the request, decides from what it read, and   *)
(* then commits one database transaction.  The read and the transaction    *)
(* are two actions; job[w].seen is what the handler read.                  *)
(***************************************************************************)
EXTENDS Integers

CONSTANTS
  Requests,     \* identifiers of reimbursement requests
  Entries,      \* identifiers of ledger rows, as many as may be minted
  Workers,      \* concurrent request handlers
  Categories,   \* the organisation's expense categories
  Fallback,     \* FALLBACK_EXPENSE_CATEGORY, the one for a request with none
  Patches,      \* bodies of PATCH /api/reimbursements/:id
  None,         \* null
  Keep          \* a field a PATCH leaves out

Statuses == {"pending", "approved", "rejected"}

PatchSet == [status : Statuses \cup {Keep},
             category : Categories \cup {None, Keep}]

ASSUME NullAssumption == None \notin Requests \cup Entries \cup Categories \cup Patches
ASSUME LeftOutAssumption == Keep \notin Statuses \cup Categories \cup {None}
ASSUME FallbackAssumption == Fallback \in Categories
ASSUME BodiesAssumption == Patches \subseteq PatchSet

VARIABLES
  request,   \* the Reimbursement table
  ledger,    \* the expense rows minted for requests
  pc,        \* where each handler is
  job,       \* what each handler remembers
  raced      \* ghost: requests written from a read that had gone stale, where
             \* the code does not check (an approval re-checks the status)

vars == <<request, ledger, pc, job, raced>>

\* "absent": not filed yet; "gone": erased with its member.
Request == [status : Statuses \cup {"absent", "gone"},
            link : Entries \cup {None}, category : Categories \cup {None}]

\* minted and touched are ghosts: the request an entry was minted for, and
\* whether the treasurer edited or deleted the entry in the ledger itself.
Entry == [state : {"free", "live", "void"}, category : Categories \cup {None},
          minted : Requests \cup {None}, touched : BOOLEAN]

Job == [req : Requests \cup {None}, seen : Request, patch : Patches \cup {None}]

NoRequest == [status |-> "absent", link |-> None, category |-> None]
NoEntry == [state |-> "free", category |-> None, minted |-> None, touched |-> FALSE]
NoJob == [req |-> None, seen |-> NoRequest, patch |-> None]

Init ==
  /\ request = [r \in Requests |-> NoRequest]
  /\ ledger = [x \in Entries |-> NoEntry]
  /\ pc = [w \in Workers |-> "idle"]
  /\ job = [w \in Workers |-> NoJob]
  /\ raced = {}

Filed(r) == request[r].status \in Statuses
Goto(w, step, j) == pc' = [pc EXCEPT ![w] = step] /\ job' = [job EXCEPT ![w] = j]
Finish(w) == Goto(w, "idle", NoJob)

Set(new, old) == IF new = Keep THEN old ELSE new
Named(c) == c \notin {None, Keep}

\* input.category ?? existing.category ?? UNCATEGORIZED
BucketOf(p, seen) ==
  IF Named(p.category) THEN p.category
  ELSE IF seen.category # None THEN seen.category ELSE Fallback

Approving(w) == job[w].patch.status = "approved"
ReversesAny(w) == job[w].seen.status = "approved"       \* mutant: no status given
Reversing(w) == job[w].seen.status = "approved" /\ job[w].patch.status # Keep

-----------------------------------------------------------------------------

\* createReimbursement
File(r, c) ==
  /\ request[r].status = "absent"
  /\ request' = [request EXCEPT ![r] = [NoRequest EXCEPT !.status = "pending",
                                                        !.category = c]]
  /\ UNCHANGED <<ledger, pc, job, raced>>

\* The member is erased from the chapter and their requests with them; the
\* expense rows stay.
EraseRequest(r) ==
  /\ Filed(r)
  /\ request' = [request EXCEPT ![r] = [NoRequest EXCEPT !.status = "gone"]]
  /\ UNCHANGED <<ledger, pc, job, raced>>

\* updateReimbursement up to its transaction.  A request that is not there (404)
\* and an approval of an approved one (409) go no further.
ReadRequest(w, r, p) ==
  /\ pc[w] = "idle"
  /\ Filed(r)
  /\ ~(p.status = "approved" /\ request[r].status = "approved")
  /\ Goto(w, "decided", [req |-> r, seen |-> request[r], patch |-> p])
  /\ UNCHANGED <<request, ledger, raced>>

\* The compare-and-set of an approval.
Claims(w) == request[job[w].req].status # "approved"

\* An approval: claim the request, mint the expense row, link the two.
Approve(w, x) ==
  LET r == job[w].req
      p == job[w].patch
  IN
  /\ pc[w] = "decided"
  /\ Approving(w)
  /\ Filed(r) /\ Claims(w)
  /\ ledger[x].state = "free"
  /\ ledger' = [ledger EXCEPT ![x] =
       [state |-> "live", category |-> BucketOf(p, job[w].seen), minted |-> r,
        touched |-> FALSE]]
  /\ request' = [request EXCEPT ![r] =
       [status |-> "approved", link |-> x, category |-> Set(p.category, @.category)]]
  /\ raced' = IF request[r].category = job[w].seen.category THEN raced
              ELSE raced \cup {r}
  /\ Finish(w)

\* What a PATCH that is not an approval does to the linked expense row, if it is
\* still live: a reversal voids it, a change of category moves it.
VoidsNothing(w, e) == e                        \* mutant: the row stays
CarryOver(w, e) ==
  IF e.state # "live" THEN e
  ELSE IF Reversing(w) THEN [e EXCEPT !.state = "void"]
  ELSE IF Named(job[w].patch.category) THEN [e EXCEPT !.category = job[w].patch.category]
  ELSE e

\* Any other PATCH.  Which entry it reaches and whether it is a reversal come
\* from what was read; the request is written whatever it has become.
Write(w) ==
  LET r == job[w].req
      p == job[w].patch
      x == job[w].seen.link
  IN
  /\ pc[w] = "decided"
  /\ ~Approving(w)
  /\ Filed(r)
  /\ ledger' = IF x = None THEN ledger ELSE [ledger EXCEPT ![x] = CarryOver(w, @)]
  /\ request' = [request EXCEPT ![r] =
       [status |-> Set(p.status, @.status),
        link |-> IF Reversing(w) THEN None ELSE @.link,
        category |-> Set(p.category, @.category)]]
  /\ raced' = IF request[r] = job[w].seen THEN raced ELSE raced \cup {r}
  /\ Finish(w)

\* The claim matches nothing (409) or the request is gone (the update throws):
\* the transaction rolls back.
Refuse(w) ==
  /\ pc[w] = "decided"
  /\ Filed(job[w].req) => Approving(w) /\ ~Claims(w)
  /\ Finish(w)
  /\ UNCHANGED <<request, ledger, raced>>

-----------------------------------------------------------------------------
(* The ledger's own handlers: no look at the request behind the row *)

\* softDeleteTransaction
VoidEntry(x) ==
  /\ ledger[x].state = "live"
  /\ ledger' = [ledger EXCEPT ![x].state = "void", ![x].touched = TRUE]
  /\ UNCHANGED <<request, pc, job, raced>>

\* updateTransaction, of the category
MoveEntry(x, c) ==
  /\ ledger[x].state # "free"
  /\ ledger' = [ledger EXCEPT ![x].category = c, ![x].touched = TRUE]
  /\ UNCHANGED <<request, pc, job, raced>>

-----------------------------------------------------------------------------

Handler(w) ==
  \/ \E r \in Requests, p \in Patches : ReadRequest(w, r, p)
  \/ \E x \in Entries : Approve(w, x)
  \/ Write(w) \/ Refuse(w)

Environment ==
  \/ \E r \in Requests : EraseRequest(r) \/ \E c \in Categories \cup {None} : File(r, c)
  \/ \E x \in Entries : VoidEntry(x) \/ \E c \in Categories : MoveEntry(x, c)

Next == (\E w \in Workers : Handler(w)) \/ Environment

Spec == Init /\ [][Next]_vars

-----------------------------------------------------------------------------

TypeOK ==
  /\ request \in [Requests -> Request]
  /\ ledger \in [Entries -> Entry]
  /\ pc \in [Workers -> {"idle", "decided"}]
  /\ job \in [Workers -> Job]
  /\ raced \subseteq Requests

\* However PATCHes interleave, an approved request is linked to an expense row
\* minted for it and for nothing else: approval and link commit together, and
\* nothing that unlinks leaves the approval standing.
ApprovedIsMinted ==
  \A r \in Requests :
    /\ request[r].status = "approved" => request[r].link # None
    /\ request[r].link # None =>
         request[r].link \in Entries /\ ledger[request[r].link].minted = r

\* The two books agree about r: money stands on the ledger for r only while r is
\* approved and linked to it, and an approved payout stands there, in the bucket
\* the request names, unless the treasurer changed it on the ledger itself.
Agree(r) ==
  /\ \A x \in Entries : ledger[x].minted = r /\ ledger[x].state = "live" =>
       request[r].status = "approved" /\ request[r].link = x
  /\ request[r].link # None => request[r].status = "approved"
  /\ \A x \in Entries : request[r].link = x /\ ~ledger[x].touched =>
       /\ ledger[x].state = "live"
       /\ request[r].category \in {None, ledger[x].category}

\* Concurrent PATCHes cannot drive the books apart except by a write decided from
\* a read that was no longer true: in particular two approvals never mint two
\* rows, which the compare-and-set is for.
BooksAgree == \A r \in Requests \ raced : Filed(r) => Agree(r)

\* reimbursement-service.ts: two concurrent PATCHes must not "both mint a
\* Transaction, and double-count the expense against the chapter".
OneLiveEntry ==
  \A x, y \in Entries :
    /\ x # y
    /\ ledger[x].state = "live" /\ ledger[y].state = "live"
    => ledger[x].minted # ledger[y].minted

-----------------------------------------------------------------------------
(* The inductive invariant *)

\* What a handler remembers was true of its own request when it read it, and a
\* row, once minted for a request, is for that request for good.
DecidedInv ==
  \A w \in Workers : pc[w] = "decided" =>
    /\ job[w].req \in Requests /\ job[w].patch \in Patches
    /\ ~(Approving(w) /\ job[w].seen.status = "approved")
    /\ job[w].seen.link # None => ledger[job[w].seen.link].minted = job[w].req

FreeInv ==
  /\ \A x \in Entries : ledger[x].state = "free" <=> ledger[x].minted = None
  /\ \A r \in Requests : ~Filed(r) => request[r].link = None
  /\ \A r \in Requests : request[r].status = "absent" =>
       \A x \in Entries : ledger[x].minted # r

IInv == TypeOK /\ DecidedInv /\ FreeInv /\ ApprovedIsMinted /\ BooksAgree
=============================================================================
