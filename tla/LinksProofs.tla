---------------------------- MODULE LinksProofs ----------------------------
(***************************************************************************)
(* Theorems about the four parts of MCLinks, each for any constants that   *)
(* satisfy the assumptions of MCLinks and Reimbursements.                  *)
(*                                                                         *)
(* In each part a request checks in one step and writes in a later one, so *)
(* the invariant says what the request still knows: what it read stands    *)
(* until somebody writes what it was about, which that write notes (as     *)
(* overtaken, or missed).  A write that was not overtaken then does what   *)
(* its check was for; what an overtaken one leaves is in strayed,          *)
(* stranded, twinned or orphaned.  The limit on the categories holds for   *)
(* those that are listed and the requests that found room, together.       *)
(***************************************************************************)
EXTENDS MCLinks, FiniteSetTheorems, TLAPS

-----------------------------------------------------------------------------
(* Reimbursements *)

\* The empty records have the types of their tables.
LEMMA NullJobType == NoJob \in Job /\ NoRequest \in Request /\ NoEntry \in Entry
BY DEF NoJob, NoRequest, NoEntry, Job, Request, Entry

\* What a PATCH body may hold.
LEMMA PatchType ==
  ASSUME NEW p \in Patches
  PROVE  /\ p.status \in Statuses \cup {Keep}
         /\ p.category \in Categories \cup {None, Keep}
BY BodiesAssumption DEF PatchSet

\* A PATCH writes a status and a category, or keeps them.
LEMMA SetType ==
  ASSUME NEW p \in Patches, NEW r \in Request
  PROVE  /\ Set(p.category, r.category) \in Categories \cup {None}
         /\ r.status \in Statuses => Set(p.status, r.status) \in Statuses
BY PatchType DEF Set, Request

\* An approval always finds a bucket.
LEMMA BucketType ==
  ASSUME NEW p \in Patches, NEW r \in Request
  PROVE  BucketOf(p, r) \in Categories
BY PatchType, FallbackAssumption DEF BucketOf, Named, Request

\* What the ledger entry takes over from the request has the right type.
LEMMA CarryOverType ==
  ASSUME NEW w \in Workers, NEW e \in Entry, job[w].patch \in Patches
  PROVE  /\ CarryOver(w, e) \in Entry
         /\ CarryOver(w, e).minted = e.minted
         /\ CarryOver(w, e).touched = e.touched
         /\ CarryOver(w, e).state = "free" <=> e.state = "free"
<1>1. job[w].patch.category \in Categories \cup {None, Keep}
  BY PatchType
<1>2. CASE e.state = "live" /\ Reversing(w)
  BY <1>2 DEF CarryOver, Entry
<1>3. CASE e.state = "live" /\ ~Reversing(w) /\ Named(job[w].patch.category)
  BY <1>1, <1>3 DEF CarryOver, Entry, Named
<1>4. CASE e.state # "live"
  BY <1>4 DEF CarryOver
<1>5. CASE ~Reversing(w) /\ ~Named(job[w].patch.category)
  BY <1>5 DEF CarryOver
<1> QED
  <2>1. CASE e.state = "live"
    BY <1>2, <1>3, <1>5, <2>1
  <2> QED
    BY <1>4, <2>1

\* The rows as the two transactions leave them, one by one.
LEMMA ApproveEffect ==
  ASSUME TypeOK, DecidedInv, NEW w \in Workers, NEW x \in Entries, Approve(w, x)
  PROVE  /\ job[w].req \in Requests /\ job[w].patch \in Patches
         /\ request[job[w].req].status \in Statuses
         /\ request[job[w].req].status # "approved"
         /\ ledger[x].state = "free"
         /\ \A y \in Entries : y # x => ledger'[y] = ledger[y]
         /\ \A q \in Requests : q # job[w].req => request'[q] = request[q]
         /\ ledger'[x].state = "live" /\ ledger'[x].minted = job[w].req
         /\ ledger'[x].category = BucketOf(job[w].patch, job[w].seen)
         /\ ~ledger'[x].touched
         /\ request'[job[w].req].status = "approved"
         /\ request'[job[w].req].link = x
         /\ request'[job[w].req].category =
              Set(job[w].patch.category, request[job[w].req].category)
BY DEF Approve, DecidedInv, Filed, Claims, TypeOK

\* What the write of a request and its entry leaves of everything else.
LEMMA WriteEffect ==
  ASSUME TypeOK, DecidedInv, NEW w \in Workers, Write(w)
  PROVE  /\ job[w].req \in Requests /\ job[w].patch \in Patches
         /\ request[job[w].req].status \in Statuses
         /\ job[w].patch.status # "approved"
         /\ \A y \in Entries : y # job[w].seen.link => ledger'[y] = ledger[y]
         /\ \A q \in Requests : q # job[w].req => request'[q] = request[q]
         /\ job[w].seen.link # None =>
              /\ job[w].seen.link \in Entries
              /\ ledger'[job[w].seen.link] = CarryOver(w, ledger[job[w].seen.link])
         /\ request'[job[w].req].status =
              Set(job[w].patch.status, request[job[w].req].status)
         /\ request'[job[w].req].link =
              IF Reversing(w) THEN None ELSE request[job[w].req].link
         /\ request'[job[w].req].category =
              Set(job[w].patch.category, request[job[w].req].category)
<1>1. job[w].seen \in Request
  BY DEF TypeOK, Job
<1>2. job[w].seen.link \in Entries \cup {None}
  BY <1>1 DEF Request
<1>3. job[w].req \in Requests /\ job[w].patch \in Patches
  BY DEF Write, DecidedInv
<1>4. \A y \in Entries : y # job[w].seen.link => ledger'[y] = ledger[y]
  BY NullAssumption DEF Write, TypeOK
<1>5. job[w].seen.link # None =>
        /\ job[w].seen.link \in Entries
        /\ ledger'[job[w].seen.link] = CarryOver(w, ledger[job[w].seen.link])
  BY <1>2 DEF Write, TypeOK
<1>6. /\ \A q \in Requests : q # job[w].req => request'[q] = request[q]
      /\ request'[job[w].req] =
           [status |-> Set(job[w].patch.status, request[job[w].req].status),
            link |-> IF Reversing(w) THEN None ELSE request[job[w].req].link,
            category |-> Set(job[w].patch.category, request[job[w].req].category)]
  BY <1>3 DEF Write, TypeOK
<1> QED
  BY <1>3, <1>4, <1>5, <1>6 DEF Write, Approving, Filed

-----------------------------------------------------------------------------
(* Types *)

\* There is nothing to begin with.
LEMMA InitIInv == Init => IInv
<1> SUFFICES ASSUME Init PROVE IInv
  OBVIOUS
<1>1. TypeOK
  BY NullJobType DEF Init, TypeOK
<1>2. DecidedInv /\ ApprovedIsMinted /\ BooksAgree
  BY DEF Init, DecidedInv, ApprovedIsMinted, BooksAgree, Filed, Statuses, NoRequest
<1>3. FreeInv
  BY NullAssumption DEF Init, FreeInv, NoRequest, NoEntry
<1> QED
  BY <1>1, <1>2, <1>3 DEF IInv

\* Every step keeps the types.
LEMMA TypeStep == TypeOK /\ DecidedInv /\ [Next]_vars => TypeOK'
<1> SUFFICES ASSUME TypeOK, DecidedInv, [Next]_vars PROVE TypeOK'
  OBVIOUS
<1>0. /\ \A r \in Requests : request[r] \in Request
      /\ \A x \in Entries : ledger[x] \in Entry
      /\ \A w \in Workers : job[w] \in Job /\ job[w].seen \in Request
  BY DEF TypeOK, Job
<1>f. ASSUME NEW w \in Workers, Finish(w)
      PROVE  pc' \in [Workers -> {"idle", "decided"}] /\ job' \in [Workers -> Job]
  BY <1>f, NullJobType DEF Finish, Goto, TypeOK
<1>1. ASSUME NEW w \in Workers, NEW r \in Requests, NEW p \in Patches,
             ReadRequest(w, r, p)
      PROVE  TypeOK'
  <2>1. [req |-> r, seen |-> request[r], patch |-> p] \in Job
    BY <1>0 DEF Job
  <2> QED
    BY <1>1, <2>1 DEF ReadRequest, Goto, TypeOK
<1>2. ASSUME NEW w \in Workers, NEW x \in Entries, Approve(w, x) PROVE TypeOK'
  <2>1. /\ job[w].req \in Requests /\ job[w].patch \in Patches
        /\ request[job[w].req].status \in Statuses
    BY <1>2, ApproveEffect
  <2>2. [state |-> "live", category |-> BucketOf(job[w].patch, job[w].seen),
         minted |-> job[w].req, touched |-> FALSE] \in Entry
    BY <1>0, <2>1, BucketType DEF Entry
  <2>3. [status |-> "approved", link |-> x,
         category |-> Set(job[w].patch.category, request[job[w].req].category)]
          \in Request
    BY <1>0, <2>1, SetType DEF Request, Statuses
  <2>4. ledger' \in [Entries -> Entry]
    BY <1>2, <2>2 DEF Approve, TypeOK
  <2>5. request' \in [Requests -> Request]
    BY <1>2, <2>1, <2>3 DEF Approve, TypeOK
  <2>6. raced' \subseteq Requests
    BY <1>2, <2>1 DEF Approve, TypeOK
  <2>7. pc' \in [Workers -> {"idle", "decided"}] /\ job' \in [Workers -> Job]
    BY <1>f, <1>2 DEF Approve
  <2> QED
    BY <2>4, <2>5, <2>6, <2>7 DEF TypeOK
<1>3. ASSUME NEW w \in Workers, Write(w) PROVE TypeOK'
  <2> DEFINE r == job[w].req
             p == job[w].patch
  <2>1. r \in Requests /\ p \in Patches /\ request[r].status \in Statuses
    BY <1>3, WriteEffect
  <2>2. job[w].seen.link \in Entries \cup {None}
    BY <1>0 DEF Request
  <2>3. \A x \in Entries : CarryOver(w, ledger[x]) \in Entry
    BY <1>0, <2>1, CarryOverType
  <2>4. [status |-> Set(p.status, request[r].status),
         link |-> IF Reversing(w) THEN None ELSE request[r].link,
         category |-> Set(p.category, request[r].category)] \in Request
    <3>1. request[r].link \in Entries \cup {None}
      BY <1>0, <2>1 DEF Request
    <3> QED
      BY <1>0, <2>1, <3>1, SetType DEF Request
  <2>5. ledger' \in [Entries -> Entry]
    BY <1>3, <2>2, <2>3 DEF Write, TypeOK
  <2>6. request' \in [Requests -> Request]
    BY <1>3, <2>1, <2>4 DEF Write, TypeOK
  <2>7. raced' \subseteq Requests
    BY <1>3, <2>1 DEF Write, TypeOK
  <2>8. pc' \in [Workers -> {"idle", "decided"}] /\ job' \in [Workers -> Job]
    BY <1>f, <1>3 DEF Write
  <2> QED
    BY <2>5, <2>6, <2>7, <2>8 DEF TypeOK
<1>4. ASSUME NEW w \in Workers, Refuse(w) PROVE TypeOK'
  BY <1>f, <1>4 DEF Refuse, TypeOK
<1>5. ASSUME NEW r \in Requests, EraseRequest(r) PROVE TypeOK'
  <2>1. [NoRequest EXCEPT !.status = "gone"] \in Request
    BY DEF NoRequest, Request
  <2> QED
    BY <1>5, <2>1 DEF EraseRequest, TypeOK
<1>6. ASSUME NEW r \in Requests, NEW c \in Categories \cup {None}, File(r, c)
      PROVE  TypeOK'
  <2>1. [NoRequest EXCEPT !.status = "pending", !.category = c] \in Request
    BY DEF NoRequest, Request, Statuses
  <2> QED
    BY <1>6, <2>1 DEF File, TypeOK
<1>7. ASSUME NEW x \in Entries, VoidEntry(x) PROVE TypeOK'
  <2>1. [[ledger[x] EXCEPT !.state = "void"] EXCEPT !.touched = TRUE] \in Entry
    BY <1>0 DEF Entry
  <2>2. ledger' \in [Entries -> Entry]
    BY <1>7, <2>1 DEF VoidEntry, TypeOK
  <2> QED
    BY <1>7, <2>2 DEF VoidEntry, TypeOK
<1>8. ASSUME NEW x \in Entries, NEW c \in Categories, MoveEntry(x, c) PROVE TypeOK'
  <2>1. [[ledger[x] EXCEPT !.category = c] EXCEPT !.touched = TRUE] \in Entry
    BY <1>0 DEF Entry
  <2>2. ledger' \in [Entries -> Entry]
    BY <1>8, <2>1 DEF MoveEntry, TypeOK
  <2> QED
    BY <1>8, <2>2 DEF MoveEntry, TypeOK
<1>9. CASE UNCHANGED vars
  BY <1>9 DEF vars, TypeOK
<1> QED
  BY <1>1, <1>2, <1>3, <1>4, <1>5, <1>6, <1>7, <1>8, <1>9
     DEF Next, Handler, Environment

-----------------------------------------------------------------------------
(* What handlers remember, and what an entry was minted for *)

\* Once an entry is minted for a request it stays so.
LEMMA MintedForGood ==
  ASSUME TypeOK, DecidedInv, FreeInv, [Next]_vars, NEW x \in Entries,
         ledger[x].minted # None
  PROVE  ledger'[x].minted = ledger[x].minted
<1>0. /\ ledger[x] \in Entry /\ ledger[x].state # "free"
      /\ \A w \in Workers : job[w].seen \in Request
  BY DEF TypeOK, FreeInv, Job
<1>1. ASSUME NEW w \in Workers, NEW y \in Entries, Approve(w, y)
      PROVE  ledger'[x].minted = ledger[x].minted
  BY <1>0, <1>1, ApproveEffect
<1>2. ASSUME NEW w \in Workers, Write(w)
      PROVE  ledger'[x].minted = ledger[x].minted
  <2>1. job[w].patch \in Patches
    BY <1>2, WriteEffect
  <2>2. CarryOver(w, ledger[x]).minted = ledger[x].minted
    BY <1>0, <2>1, CarryOverType
  <2>3. job[w].seen.link = x \/ job[w].seen.link # x
    OBVIOUS
  <2>4. CASE job[w].seen.link = x
    BY <1>2, <2>2, <2>4, WriteEffect, NullAssumption
  <2>5. CASE job[w].seen.link # x
    BY <1>2, <2>5, WriteEffect
  <2> QED
    BY <2>4, <2>5
<1>3. ASSUME NEW y \in Entries, VoidEntry(y)
      PROVE  ledger'[x].minted = ledger[x].minted
  BY <1>0, <1>3 DEF VoidEntry, TypeOK, Entry
<1>4. ASSUME NEW y \in Entries, NEW c \in Categories, MoveEntry(y, c)
      PROVE  ledger'[x].minted = ledger[x].minted
  BY <1>0, <1>4 DEF MoveEntry, TypeOK, Entry
<1>5. ASSUME UNCHANGED ledger PROVE ledger'[x].minted = ledger[x].minted
  BY <1>5
<1> QED
  BY <1>1, <1>2, <1>3, <1>4, <1>5
     DEF Next, Handler, Environment, ReadRequest, Refuse, EraseRequest, File, vars

\* Every step keeps what a request that is about to write has found.
LEMMA DecidedStep ==
  TypeOK /\ DecidedInv /\ FreeInv /\ ApprovedIsMinted /\ [Next]_vars => DecidedInv'
<1> SUFFICES ASSUME TypeOK, DecidedInv, FreeInv, ApprovedIsMinted, [Next]_vars,
                    NEW v \in Workers, pc'[v] = "decided"
             PROVE  /\ job'[v].req \in Requests /\ job'[v].patch \in Patches
                    /\ ~(job'[v].patch.status = "approved"
                         /\ job'[v].seen.status = "approved")
                    /\ job'[v].seen.link # None =>
                         ledger'[job'[v].seen.link].minted = job'[v].req
  BY DEF DecidedInv, Approving
<1>0. /\ job[v].seen \in Request
      /\ \A r \in Requests : request[r] \in Request
  BY DEF TypeOK, Job
<1>k. ASSUME pc[v] = "decided", job'[v] = job[v]
      PROVE  /\ job'[v].req \in Requests /\ job'[v].patch \in Patches
             /\ ~(job'[v].patch.status = "approved"
                  /\ job'[v].seen.status = "approved")
             /\ job'[v].seen.link # None =>
                  ledger'[job'[v].seen.link].minted = job'[v].req
  <2>1. job[v].req \in Requests /\ job[v].patch \in Patches
    BY <1>k DEF DecidedInv
  <2>2. job[v].seen.link # None =>
          job[v].seen.link \in Entries /\ ledger[job[v].seen.link].minted = job[v].req
    BY <1>0, <1>k DEF DecidedInv, Request
  <2>3. job[v].seen.link # None =>
          ledger'[job[v].seen.link].minted = ledger[job[v].seen.link].minted
    BY <2>1, <2>2, MintedForGood, NullAssumption
  <2> QED
    BY <1>k, <2>1, <2>2, <2>3 DEF DecidedInv, Approving
<1>f. ASSUME NEW w \in Workers, Finish(w) PROVE pc[v] = "decided" /\ job'[v] = job[v]
  BY <1>f DEF Finish, Goto, TypeOK
<1>1. ASSUME NEW w \in Workers, NEW r \in Requests, NEW p \in Patches,
             ReadRequest(w, r, p), w # v
      PROVE  pc[v] = "decided" /\ job'[v] = job[v]
  BY <1>1 DEF ReadRequest, Goto, TypeOK
<1>2. ASSUME NEW r \in Requests, NEW p \in Patches, ReadRequest(v, r, p)
      PROVE  /\ job'[v].req \in Requests /\ job'[v].patch \in Patches
             /\ ~(job'[v].patch.status = "approved"
                  /\ job'[v].seen.status = "approved")
             /\ job'[v].seen.link # None =>
                  ledger'[job'[v].seen.link].minted = job'[v].req
  <2>1. job'[v] = [req |-> r, seen |-> request[r], patch |-> p] /\ ledger' = ledger
    BY <1>2 DEF ReadRequest, Goto, TypeOK
  <2>2. ~(p.status = "approved" /\ request[r].status = "approved")
    BY <1>2 DEF ReadRequest
  <2> QED
    BY <2>1, <2>2 DEF ApprovedIsMinted
<1>3. ASSUME UNCHANGED <<pc, job>> PROVE pc[v] = "decided" /\ job'[v] = job[v]
  BY <1>3
<1> QED
  BY <1>k, <1>f, <1>1, <1>2, <1>3
     DEF Next, Handler, Environment, Approve, Write, Refuse, EraseRequest, File,
         VoidEntry, MoveEntry, vars

\* The parts of FreeInv that steps disturb: rows are minted once, for a request
\* that has been filed, and only a filed request holds a link.
LEMMA FreeStep == TypeOK /\ DecidedInv /\ FreeInv /\ [Next]_vars => FreeInv'
<1> SUFFICES ASSUME TypeOK, DecidedInv, FreeInv, [Next]_vars PROVE FreeInv'
  OBVIOUS
<1>0. /\ \A x \in Entries : ledger[x] \in Entry
      /\ \A r \in Requests : request[r] \in Request
      /\ \A w \in Workers : job[w].seen \in Request
      /\ \A r \in Requests : Filed(r) <=>
           request[r].status \notin {"absent", "gone"}
  BY DEF TypeOK, Job, Filed, Request, Statuses
<1>1. ASSUME NEW w \in Workers, NEW x \in Entries, Approve(w, x) PROVE FreeInv'
  <2>1. \A y \in Entries : ledger'[y].state = "free" <=> ledger'[y].minted = None
    BY <1>0, <1>1, ApproveEffect, NullAssumption DEF FreeInv
  <2>2. \A r \in Requests : ~Filed(r)' => request'[r].link = None
    BY <1>1, ApproveEffect DEF FreeInv, Filed, Statuses
  <2>3. \A r \in Requests : request'[r].status = "absent" =>
          \A y \in Entries : ledger'[y].minted # r
    BY <1>1, ApproveEffect DEF FreeInv
  <2> QED
    BY <2>1, <2>2, <2>3 DEF FreeInv
<1>2. ASSUME NEW w \in Workers, Write(w) PROVE FreeInv'
  <2>1. job[w].patch \in Patches
    BY <1>2, WriteEffect
  <2>2. \A y \in Entries :
          /\ ledger'[y].minted = ledger[y].minted
          /\ ledger'[y].state = "free" <=> ledger[y].state = "free"
    <3> SUFFICES ASSUME NEW y \in Entries
                 PROVE  /\ ledger'[y].minted = ledger[y].minted
                        /\ ledger'[y].state = "free" <=> ledger[y].state = "free"
      OBVIOUS
    <3>1. CASE job[w].seen.link = y
      BY <1>0, <1>2, <2>1, <3>1, WriteEffect, CarryOverType, NullAssumption
    <3>2. CASE job[w].seen.link # y
      BY <1>2, <3>2, WriteEffect
    <3> QED
      BY <3>1, <3>2
  <2>3. \A r \in Requests :
          /\ Filed(r)' <=> Filed(r)
          /\ ~Filed(r) => request'[r] = request[r]
    <3>1. request'[job[w].req].status \in Statuses
      <4>1. /\ job[w].req \in Requests
            /\ request[job[w].req] \in Request
            /\ request[job[w].req].status \in Statuses
        BY <1>0, <1>2, WriteEffect
      <4>2. Set(job[w].patch.status, request[job[w].req].status) \in Statuses
        BY <2>1, <4>1, SetType
      <4> QED
        BY <1>2, <4>2, WriteEffect
    <3> QED
      BY <1>2, <3>1, WriteEffect DEF Filed
  <2>4. \A r \in Requests : request'[r].status = "absent" => ~Filed(r)
    BY <2>3 DEF Filed, Statuses
  <2> QED
    BY <2>2, <2>3, <2>4 DEF FreeInv
<1>3. ASSUME NEW r \in Requests, EraseRequest(r) PROVE FreeInv'
  <2>1. /\ ledger' = ledger
        /\ \A q \in Requests : request'[q] =
             IF q = r THEN [status |-> "gone", link |-> None, category |-> None]
             ELSE request[q]
    BY <1>3 DEF EraseRequest, NoRequest, TypeOK
  <2> QED
    BY <2>1 DEF FreeInv, Filed
<1>4. ASSUME NEW r \in Requests, NEW c \in Categories \cup {None}, File(r, c)
      PROVE  FreeInv'
  <2>1. /\ ledger' = ledger
        /\ \A q \in Requests : q # r => request'[q] = request[q]
        /\ request'[r].status = "pending" /\ request'[r].link = None
    BY <1>4 DEF File, NoRequest, TypeOK
  <2> QED
    BY <2>1 DEF FreeInv, Filed, Statuses
<1>5. ASSUME NEW x \in Entries, VoidEntry(x) PROVE FreeInv'
  <2>1. \A y \in Entries :
          /\ ledger'[y].minted = ledger[y].minted
          /\ ledger'[y].state = "free" <=> ledger[y].state = "free"
    BY <1>0, <1>5 DEF VoidEntry, Entry, TypeOK
  <2> QED
    BY <1>5, <2>1 DEF VoidEntry, FreeInv, Filed
<1>6. ASSUME NEW x \in Entries, NEW c \in Categories, MoveEntry(x, c) PROVE FreeInv'
  <2>1. \A y \in Entries :
          /\ ledger'[y].minted = ledger[y].minted
          /\ ledger'[y].state = "free" <=> ledger[y].state = "free"
    BY <1>0, <1>6 DEF MoveEntry, Entry, TypeOK
  <2> QED
    BY <1>6, <2>1 DEF MoveEntry, FreeInv, Filed
<1>7. ASSUME UNCHANGED <<request, ledger>> PROVE FreeInv'
  BY <1>7 DEF FreeInv, Filed
<1> QED
  BY <1>1, <1>2, <1>3, <1>4, <1>5, <1>6, <1>7
     DEF Next, Handler, Environment, ReadRequest, Refuse, vars

-----------------------------------------------------------------------------
(* The link, and the agreement of the two books *)

\* Every step keeps the entries of the approved requests.
LEMMA MintedStep ==
  TypeOK /\ DecidedInv /\ FreeInv /\ ApprovedIsMinted /\ [Next]_vars
    => ApprovedIsMinted'
<1> SUFFICES ASSUME TypeOK, DecidedInv, FreeInv, ApprovedIsMinted, [Next]_vars,
                    NEW r \in Requests
             PROVE  /\ request'[r].status = "approved" => request'[r].link # None
                    /\ request'[r].link # None =>
                         /\ request'[r].link \in Entries
                         /\ ledger'[request'[r].link].minted = r
  BY DEF ApprovedIsMinted
<1>a. ASSUME request'[r].link # None =>
               request'[r].link \in Entries /\ ledger[request'[r].link].minted = r
      PROVE  request'[r].link # None =>
               request'[r].link \in Entries /\ ledger'[request'[r].link].minted = r
  BY <1>a, MintedForGood, NullAssumption
<1>b. request'[r] = request[r] \/ request'[r].link = None
        => (request'[r].link # None =>
              request'[r].link \in Entries /\ ledger[request'[r].link].minted = r)
  BY DEF ApprovedIsMinted
<1>1. ASSUME NEW w \in Workers, NEW x \in Entries, Approve(w, x)
      PROVE  /\ request'[r].status = "approved" => request'[r].link # None
             /\ request'[r].link # None =>
                  /\ request'[r].link \in Entries
                  /\ ledger'[request'[r].link].minted = r
  <2>1. CASE job[w].req = r
    BY <1>1, <2>1, ApproveEffect, NullAssumption
  <2>2. CASE job[w].req # r
    <3>1. request'[r] = request[r]
      BY <1>1, <2>2, ApproveEffect
    <3> QED
      BY <1>a, <1>b, <3>1 DEF ApprovedIsMinted
  <2> QED
    BY <2>1, <2>2
<1>2. ASSUME NEW w \in Workers, Write(w)
      PROVE  /\ request'[r].status = "approved" => request'[r].link # None
             /\ request'[r].link # None =>
                  /\ request'[r].link \in Entries
                  /\ ledger'[request'[r].link].minted = r
  <2>1. CASE job[w].req = r
    <3>1. request'[r].link = None \/ request'[r].link = request[r].link
      BY <1>2, <2>1, WriteEffect
    <3>2. request'[r].status = "approved" =>
            request[r].status = "approved" /\ request'[r].link = request[r].link
      BY <1>2, <2>1, WriteEffect DEF Set, Reversing
    <3> QED
      BY <1>a, <3>1, <3>2 DEF ApprovedIsMinted
  <2>2. CASE job[w].req # r
    <3>1. request'[r] = request[r]
      BY <1>2, <2>2, WriteEffect
    <3> QED
      BY <1>a, <1>b, <3>1 DEF ApprovedIsMinted
  <2> QED
    BY <2>1, <2>2
<1>3. ASSUME NEW q \in Requests, EraseRequest(q)
      PROVE  /\ request'[r].status = "approved" => request'[r].link # None
             /\ request'[r].link # None =>
                  /\ request'[r].link \in Entries
                  /\ ledger'[request'[r].link].minted = r
  <2>1. \/ request'[r] = request[r]
        \/ request'[r].link = None /\ request'[r].status = "gone"
    BY <1>3 DEF EraseRequest, NoRequest, TypeOK
  <2> QED
    BY <1>a, <1>b, <2>1 DEF ApprovedIsMinted
<1>4. ASSUME NEW q \in Requests, NEW c \in Categories \cup {None}, File(q, c)
      PROVE  /\ request'[r].status = "approved" => request'[r].link # None
             /\ request'[r].link # None =>
                  /\ request'[r].link \in Entries
                  /\ ledger'[request'[r].link].minted = r
  <2>1. \/ request'[r] = request[r]
        \/ request'[r].link = None /\ request'[r].status = "pending"
    BY <1>4 DEF File, NoRequest, TypeOK
  <2> QED
    BY <1>a, <1>b, <2>1 DEF ApprovedIsMinted
<1>5. ASSUME UNCHANGED request
      PROVE  /\ request'[r].status = "approved" => request'[r].link # None
             /\ request'[r].link # None =>
                  /\ request'[r].link \in Entries
                  /\ ledger'[request'[r].link].minted = r
  BY <1>a, <1>b, <1>5 DEF ApprovedIsMinted
<1> QED
  BY <1>1, <1>2, <1>3, <1>4, <1>5
     DEF Next, Handler, Environment, ReadRequest, Refuse, VoidEntry, MoveEntry, vars

\* The only entries r depends on are those minted for r.
LEMMA AgreeFrame ==
  ASSUME NEW r \in Requests, Agree(r), UNCHANGED request[r],
         \A y \in Entries :
           \/ ledger'[y] = ledger[y]
           \/ ledger'[y].minted # r /\ request[r].link # y
  PROVE  Agree(r)'
BY DEF Agree

\* An approval writes an entry that agrees with its request.
LEMMA AgreeApprove ==
  ASSUME TypeOK, DecidedInv, FreeInv, ApprovedIsMinted, BooksAgree,
         NEW w \in Workers, NEW x \in Entries, Approve(w, x),
         NEW r \in Requests \ raced', Filed(r)'
  PROVE  Agree(r)'
<1>1. CASE job[w].req = r
  <2>1. r \notin raced /\ request[r].category = job[w].seen.category
    BY <1>1 DEF Approve
  <2>2. Agree(r) /\ request[r].status # "approved"
    BY <1>1, <2>1, ApproveEffect DEF BooksAgree, Filed
  <2>3. \A y \in Entries : ledger'[y].minted = r /\ ledger'[y].state = "live" => y = x
    BY <2>2, ApproveEffect DEF Agree
  <2>4. request'[r].category \in {None, ledger'[x].category}
    BY <1>1, <2>1, ApproveEffect, LeftOutAssumption DEF Set, BucketOf, Named
  <2> QED
    BY <1>1, <2>3, <2>4, ApproveEffect DEF Agree
<1>2. CASE job[w].req # r
  <2>1. request'[r] = request[r] /\ r \notin raced
    <3>1. request'[r] = request[r]
      BY <1>2, ApproveEffect
    <3>2. raced \subseteq raced'
      BY DEF Approve
    <3> QED
      BY <3>1, <3>2
  <2>2. Agree(r)
    BY <2>1 DEF BooksAgree, Filed
  <2>3. request[r].link # x
    BY ApproveEffect, NullAssumption DEF ApprovedIsMinted, FreeInv
  <2>4. \A y \in Entries :
          \/ ledger'[y] = ledger[y]
          \/ ledger'[y].minted # r /\ request[r].link # y
    BY <1>2, <2>3, ApproveEffect
  <2> QED
    BY <2>1, <2>2, <2>4, AgreeFrame
<1> QED
  BY <1>1, <1>2

\* A correction is written to the request and its entry alike.
LEMMA AgreeWrite ==
  ASSUME TypeOK, DecidedInv, ApprovedIsMinted, BooksAgree,
         NEW w \in Workers, Write(w), NEW r \in Requests \ raced', Filed(r)'
  PROVE  Agree(r)'
<1> DEFINE x == job[w].seen.link
           p == job[w].patch
<1>0. p \in Patches /\ p.status # "approved" /\ pc[w] = "decided"
  BY WriteEffect DEF Write
<1>1. CASE job[w].req = r
  <2>1. r \notin raced /\ request[r] = job[w].seen
    BY <1>1 DEF Write
  <2>2. Agree(r) /\ Filed(r)
    BY <1>1, <2>1, WriteEffect DEF BooksAgree, Filed
  <2>3. CASE Reversing(w)
    <3>1. x \in Entries /\ request[r].link = x /\ x # None
      BY <2>1, <2>3, WriteEffect DEF Reversing, ApprovedIsMinted
    <3>2. ledger'[x].state # "live"
      <4>1. ledger'[x] = CarryOver(w, ledger[x]) /\ ledger[x] \in Entry
        BY <3>1, WriteEffect DEF TypeOK
      <4> QED
        BY <2>3, <4>1 DEF CarryOver, Entry
    <3>3. request'[r].link = None /\ request'[r].status # "approved"
      BY <1>1, <2>3, WriteEffect DEF Reversing, Set
    <3>4. \A y \in Entries : y # x => ledger'[y] = ledger[y]
      BY WriteEffect
    <3>5. \A y \in Entries : ~(ledger'[y].minted = r /\ ledger'[y].state = "live")
      BY <2>2, <3>1, <3>2, <3>4 DEF Agree
    <3> QED
      BY <3>3, <3>5, NullAssumption DEF Agree
  <2>4. CASE ~Reversing(w) /\ request[r].status = "approved"
    <3>1. x \in Entries /\ request[r].link = x /\ x # None
      BY <2>1, <2>4, WriteEffect DEF ApprovedIsMinted
    <3>2. p.status = Keep
      BY <2>1, <2>4 DEF Reversing
    <3>3. /\ request'[r].status = "approved" /\ request'[r].link = x
          /\ request'[r].category = Set(p.category, request[r].category)
      BY <1>1, <2>4, <3>1, <3>2, WriteEffect DEF Set
    <3>4. /\ ledger'[x].minted = ledger[x].minted
          /\ ledger'[x].touched = ledger[x].touched
          /\ ledger'[x].state = ledger[x].state
          /\ ledger[x].state = "live" => ledger'[x].category =
               IF Named(p.category) THEN p.category ELSE ledger[x].category
      <4>1. ledger'[x] = CarryOver(w, ledger[x]) /\ ledger[x] \in Entry
        BY <3>1, WriteEffect DEF TypeOK
      <4> QED
        BY <2>4, <4>1 DEF CarryOver, Entry
    <3>5. \A y \in Entries : y # x => ledger'[y] = ledger[y]
      BY WriteEffect
    <3>6. ~ledger[x].touched => /\ ledger[x].state = "live"
                                /\ request[r].category \in {None, ledger[x].category}
      BY <2>2, <3>1 DEF Agree
    <3>7. ~ledger'[x].touched =>
            /\ ledger'[x].state = "live"
            /\ request'[r].category \in {None, ledger'[x].category}
      BY <3>3, <3>4, <3>6 DEF Named, Set
    <3>8. \A y \in Entries : ledger'[y].minted = r /\ ledger'[y].state = "live" => y = x
      BY <2>2, <3>1, <3>5 DEF Agree
    <3> QED
      BY <3>3, <3>7, <3>8 DEF Agree
  <2>5. CASE request[r].status # "approved"
    <3>1. request[r].link = None /\ x = None
      BY <2>1, <2>2, <2>5 DEF Agree
    <3>2. ledger' = ledger
      BY <3>1 DEF Write
    <3>3. request'[r].link = None /\ request'[r].status # "approved"
      BY <1>0, <1>1, <2>5, <3>1, WriteEffect DEF Set
    <3> QED
      BY <2>2, <2>5, <3>2, <3>3, NullAssumption DEF Agree
  <2> QED
    BY <2>3, <2>4, <2>5
<1>2. CASE job[w].req # r
  <2>1. request'[r] = request[r] /\ r \notin raced
    BY <1>2, WriteEffect DEF Write
  <2>2. Agree(r)
    BY <2>1 DEF BooksAgree, Filed
  <2>3. x # None => x \in Entries /\ ledger[x].minted = job[w].req
    BY <1>0, WriteEffect DEF DecidedInv
  <2>4. x # None => request[r].link # x /\ ledger'[x].minted # r
    <3>1. ASSUME x # None PROVE ledger'[x].minted = ledger[x].minted
      <4>1. ledger'[x] = CarryOver(w, ledger[x]) /\ ledger[x] \in Entry
        BY <2>3, <3>1, WriteEffect DEF TypeOK
      <4> QED
        BY <1>0, <4>1, CarryOverType
    <3> QED
      BY <1>2, <2>3, <3>1 DEF ApprovedIsMinted
  <2>5. \A y \in Entries :
          \/ ledger'[y] = ledger[y]
          \/ ledger'[y].minted # r /\ request[r].link # y
    <3>1. \A y \in Entries : y # x => ledger'[y] = ledger[y]
      BY WriteEffect
    <3>2. x \in Entries => x # None
      BY NullAssumption
    <3> QED
      BY <2>4, <3>1, <3>2
  <2> QED
    BY <2>1, <2>2, <2>5, AgreeFrame
<1> QED
  BY <1>1, <1>2

\* Every step keeps requests and entries in agreement.
LEMMA AgreeStep ==
  TypeOK /\ DecidedInv /\ FreeInv /\ ApprovedIsMinted /\ BooksAgree /\ [Next]_vars
    => BooksAgree'
<1> SUFFICES ASSUME TypeOK, DecidedInv, FreeInv, ApprovedIsMinted, BooksAgree,
                    [Next]_vars, NEW r \in Requests \ raced', Filed(r)'
             PROVE  Agree(r)'
  BY DEF BooksAgree
<1>0. \A x \in Entries : ledger[x] \in Entry
  BY DEF TypeOK
<1>1. ASSUME NEW w \in Workers, NEW x \in Entries, Approve(w, x) PROVE Agree(r)'
  BY <1>1, AgreeApprove
<1>2. ASSUME NEW w \in Workers, Write(w) PROVE Agree(r)'
  BY <1>2, AgreeWrite
<1>3. ASSUME NEW q \in Requests, EraseRequest(q) PROVE Agree(r)'
  <2>1. q # r
    BY <1>3 DEF EraseRequest, Filed, NoRequest, Statuses, TypeOK
  <2>2. request'[r] = request[r] /\ ledger' = ledger /\ raced' = raced
    BY <1>3, <2>1 DEF EraseRequest, TypeOK
  <2> QED
    BY <2>2, AgreeFrame DEF BooksAgree, Filed
<1>4. ASSUME NEW q \in Requests, NEW c \in Categories \cup {None}, File(q, c)
      PROVE  Agree(r)'
  <2>1. CASE q = r
    <3>1. /\ request'[r].status = "pending" /\ request'[r].link = None
          /\ ledger' = ledger
      BY <1>4, <2>1 DEF File, NoRequest, TypeOK
    <3>2. \A y \in Entries : ledger[y].minted # r
      BY <1>4, <2>1 DEF File, FreeInv
    <3> QED
      BY <3>1, <3>2, NullAssumption DEF Agree
  <2>2. CASE q # r
    <3>1. request'[r] = request[r] /\ ledger' = ledger /\ raced' = raced
      BY <1>4, <2>2 DEF File, TypeOK
    <3> QED
      BY <3>1, AgreeFrame DEF BooksAgree, Filed
  <2> QED
    BY <2>1, <2>2
<1>5. ASSUME NEW x \in Entries, VoidEntry(x) PROVE Agree(r)'
  <2>1. Agree(r) /\ request' = request
    BY <1>5 DEF VoidEntry, BooksAgree, Filed
  <2>2. /\ ledger'[x].state = "void" /\ ledger'[x].touched
        /\ \A y \in Entries : y # x => ledger'[y] = ledger[y]
    BY <1>0, <1>5 DEF VoidEntry, Entry, TypeOK
  <2> QED
    BY <2>1, <2>2 DEF Agree
<1>6. ASSUME NEW x \in Entries, NEW c \in Categories, MoveEntry(x, c)
      PROVE  Agree(r)'
  <2>1. Agree(r) /\ request' = request
    BY <1>6 DEF MoveEntry, BooksAgree, Filed
  <2>2. /\ ledger'[x].state = ledger[x].state /\ ledger'[x].touched
        /\ ledger'[x].minted = ledger[x].minted
        /\ \A y \in Entries : y # x => ledger'[y] = ledger[y]
    BY <1>0, <1>6 DEF MoveEntry, Entry, TypeOK
  <2> QED
    BY <2>1, <2>2 DEF Agree
<1>7. ASSUME UNCHANGED <<request, ledger, raced>> PROVE Agree(r)'
  BY <1>7, AgreeFrame DEF BooksAgree, Filed
<1> QED
  BY <1>1, <1>2, <1>3, <1>4, <1>5, <1>6, <1>7
     DEF Next, Handler, Environment, ReadRequest, Refuse, vars

-----------------------------------------------------------------------------
(* Theorems *)

\* Whatever the instance, IInv holds of every reachable state.
THEOREM Inductive == Spec => []IInv
<1>1. Init => IInv
  BY InitIInv
<1>2. IInv /\ [Next]_vars => IInv'
  BY TypeStep, DecidedStep, FreeStep, MintedStep, AgreeStep DEF IInv
<1> QED
  BY <1>1, <1>2, PTL DEF Spec

\* Every variable keeps its type: what a PATCH leaves out is never written.
THEOREM TypeCorrect == Spec => []TypeOK
<1>1. IInv => TypeOK
  BY DEF IInv
<1> QED
  BY <1>1, Inductive, PTL

\* An approved request is always linked to an expense row minted for it
\* (the transaction of updateReimbursement).
THEOREM ApprovedIsMintedAlways == Spec => []ApprovedIsMinted
<1>1. IInv => ApprovedIsMinted
  BY DEF IInv
<1> QED
  BY <1>1, Inductive, PTL

\* Any number of concurrent PATCHes keep request and ledger in agreement, up to a
\* write decided from an outdated read (updateReimbursement's compare-and-set).
THEOREM BooksAgreeAlways == Spec => []BooksAgree
<1>1. IInv => BooksAgree
  BY DEF IInv
<1> QED
  BY <1>1, Inductive, PTL

-----------------------------------------------------------------------------
(* Programming *)

USE BoardAssumption

\* The inputs of the runs are plans.
LEMMA PlansFit == MCPlans \subseteq Board!Plan
<1>1. [service |-> FALSE, when |-> None] \in Board!Plan
  BY DEF Board!Plan
<1>2. [service : BOOLEAN, when : Days] \subseteq Board!Plan
  BY DEF Board!Plan
<1> QED
  BY <1>1, <1>2 DEF MCPlans

LEMMA BodiesFit == MCBodies \subseteq Board!Body
BY DEF MCBodies, Board!Body

\* What the fields of a body make of a plan.
LEMMA OntoPlan ==
  ASSUME NEW plan \in Board!Plan, NEW body \in Board!Body
  PROVE  /\ Board!Onto(plan, body) \in Board!Plan
         /\ body = Board!Untouched => Board!Onto(plan, body) = plan
BY DEF Board!Plan, Board!Body, Board!Onto, Board!Or, Board!Untouched

\* Whether a service event hangs on the calendar event afterwards.
LEMMA OrService ==
  ASSUME NEW body \in Board!Body, NEW was \in BOOLEAN
  PROVE  /\ Board!Or(body.service, was) \in BOOLEAN
         /\ body = Board!Untouched => Board!Or(body.service, was) = was
BY DEF Board!Body, Board!Or, Board!Untouched

BoardSteps == {"idle", "staging", "updating", "deleting"}
BoardJobs == boardPc \in [Workers -> BoardSteps] /\ boardJob \in [Workers -> Board!Job]

\* A request that is idle holds a record of the right type.
LEMMA NullBoardJob == Board!NoJob \in Board!Job
BY DEF Board!NoJob, Board!Job, Board!Untouched, Board!Body, Board!Stages

\* What a commit leaves of the other requests.
LEMMA Committed ==
  ASSUME BoardJobs, NEW w, NEW e, Board!Commit(w, e)
  PROVE  /\ BoardJobs'
         /\ \A v \in Workers : v = w => boardPc'[v] = "idle"
         /\ \A v \in Workers : v # w =>
              /\ boardPc'[v] = boardPc[v] /\ boardJob'[v].event = boardJob[v].event
              /\ boardJob'[v].row = boardJob[v].row
              /\ boardJob'[v].next = boardJob[v].next /\ boardJob'[v].body = boardJob[v].body
              /\ ~boardJob'[v].overtaken =>
                   ~boardJob[v].overtaken /\ (e # None => boardJob[v].event # e)
<1>1. boardPc' = [v \in Workers |-> IF v = w THEN "idle" ELSE boardPc[v]]
  BY DEF Board!Commit
<1>2. boardJob' = [v \in Workers |->
               IF v = w THEN Board!NoJob
               ELSE [boardJob[v] EXCEPT !.overtaken = @ \/ (e # None /\ boardJob[v].event = e)]]
  BY DEF Board!Commit
<1>3. ASSUME NEW v \in Workers, v # w
      PROVE  /\ boardJob'[v] \in Board!Job
             /\ boardJob'[v].event = boardJob[v].event /\ boardJob'[v].row = boardJob[v].row
             /\ boardJob'[v].next = boardJob[v].next /\ boardJob'[v].body = boardJob[v].body
             /\ ~boardJob'[v].overtaken =>
                  ~boardJob[v].overtaken /\ (e # None => boardJob[v].event # e)
  <2>1. PICK j \in Board!Job : j = boardJob[v]
    BY DEF BoardJobs
  <2>2. PICK o \in BOOLEAN : o <=> j.overtaken \/ (e # None /\ j.event = e)
    OBVIOUS
  <2>3. j.overtaken \in BOOLEAN
    BY DEF Board!Job
  <2>4. boardJob'[v] = [j EXCEPT !.overtaken = o]
    BY <1>2, <1>3, <2>1, <2>2, <2>3
  <2>5. [j EXCEPT !.overtaken = o] \in Board!Job
    BY DEF Board!Job
  <2>6. /\ boardJob'[v].event = j.event /\ boardJob'[v].row = j.row
        /\ boardJob'[v].next = j.next /\ boardJob'[v].body = j.body
        /\ boardJob'[v].overtaken = o
    BY <2>4 DEF Board!Job
  <2> QED
    BY <2>1, <2>2, <2>4, <2>5, <2>6
<1>4. boardPc' \in [Workers -> BoardSteps]
  BY <1>1 DEF BoardJobs, BoardSteps
<1>5. boardJob' \in [Workers -> Board!Job]
  <2>1. \A v \in Workers : boardJob'[v] \in Board!Job
    BY <1>2, <1>3, NullBoardJob
  <2> QED
    BY <1>2, <2>1
<1> QED
  BY <1>1, <1>3, <1>4, <1>5 DEF BoardJobs

\* One row of the board at most becomes r, with a link that is new or was its own.
BoardBecomes(e, r) ==
  /\ \A f \in Events : board'[f] = IF f = e THEN r ELSE board[f]
  /\ e \in Events /\ r # None /\ r.link # None =>
       (board[e] # None /\ r.link = board[e].link) \/ ~(r.link <= used)

\* What each request has read stays a possible row after one row of the board becomes r: a
\* request for the same row is overtaken, unless it has finished.
LEMMA ReadsStand ==
  ASSUME Board!TypeOK, Board!WorkersInv, NEW e, NEW r, BoardBecomes(e, r),
         used' \in Nat, used <= used',
         \A v \in Workers :
           \/ boardPc'[v] = "idle"
           \/ Board!WorkerOK(v)'
           \/ /\ boardPc'[v] = boardPc[v] /\ boardJob'[v].event = boardJob[v].event
              /\ boardJob'[v].row = boardJob[v].row
              /\ boardJob'[v].next = boardJob[v].next /\ boardJob'[v].body = boardJob[v].body
              /\ ~boardJob'[v].overtaken =>
                   ~boardJob[v].overtaken
                      /\ (e \in Events /\ boardPc[v] # "idle" => boardJob[v].event # e)
  PROVE  Board!WorkersInv'
<1> SUFFICES ASSUME NEW v \in Workers, boardPc'[v] # "idle",
               boardPc'[v] = boardPc[v] /\ boardJob'[v].event = boardJob[v].event
                  /\ boardJob'[v].row = boardJob[v].row
               /\ boardJob'[v].next = boardJob[v].next /\ boardJob'[v].body = boardJob[v].body,
               ~boardJob'[v].overtaken =>
                   ~boardJob[v].overtaken /\ (e \in Events => boardJob[v].event # e)
             PROVE Board!WorkerOK(v)'
  BY DEF Board!WorkersInv, Board!WorkerOK
<1>1. PICK j \in Board!Job : j = boardJob[v]
  BY DEF Board!TypeOK
<1>2. /\ j.event \in Events /\ j.row \in Board!BoardRow /\ Board!CheckHolds(j.row)
      /\ j.row.link # None => j.row.link <= used /\ Board!Linked(j.row.link) \subseteq {j.event}
      /\ ~boardJob[v].overtaken => board[j.event] = j.row
      /\ boardPc[v] = "staging" => Board!Gate(j.row, j.next)
      /\ boardPc[v] = "updating" /\ Board!Frozen(j.row) => boardJob[v].body = Board!Untouched
  BY <1>1 DEF Board!WorkersInv, Board!WorkerOK
<1>3. ~boardJob'[v].overtaken => board'[j.event] = j.row
  BY <1>1, <1>2 DEF BoardBecomes
<1>4. PICK l : l = j.row.link
  OBVIOUS
<1>5. ASSUME l # None PROVE l <= used' /\ Board!Linked(l)' \subseteq {j.event}
  <2>1. l \in Nat /\ l <= used
    BY <1>2, <1>4, <1>5 DEF Board!BoardRow, Board!Cals
  <2>2. Board!Linked(l)' \subseteq Board!Linked(l)
    BY <1>5, <2>1 DEF Board!Linked, BoardBecomes
  <2>3. l <= used'
    BY <2>1 DEF Board!TypeOK
  <2> QED
    BY <1>2, <1>4, <1>5, <2>2, <2>3
<1>6. Board!Linked(j.row.link)' = Board!Linked(l)'
  BY <1>4
<1> QED
  BY <1>1, <1>2, <1>3, <1>4, <1>5, <1>6 DEF Board!WorkerOK

\* A commit by w that changes event e, if it changes any.
LEMMA CommitWorkers ==
  ASSUME Board!TypeOK, Board!WorkersInv, NEW w, NEW e, NEW r, Board!Commit(w, e),
         BoardBecomes(e, r),
         used' \in Nat, used <= used'
  PROVE  BoardJobs' /\ Board!WorkersInv'
<1>1. BoardJobs
  BY DEF Board!TypeOK, BoardJobs, BoardSteps
<1>2. BoardJobs'
  BY <1>1, Committed
<1>3. ASSUME NEW v \in Workers
      PROVE  \/ boardPc'[v] = "idle"
             \/ /\ boardPc'[v] = boardPc[v] /\ boardJob'[v].event = boardJob[v].event
                /\ boardJob'[v].row = boardJob[v].row
                /\ boardJob'[v].next = boardJob[v].next /\ boardJob'[v].body = boardJob[v].body
                /\ ~boardJob'[v].overtaken =>
                     ~boardJob[v].overtaken
                        /\ (e \in Events /\ boardPc[v] # "idle" => boardJob[v].event # e)
  BY <1>1, Committed
<1>4. Board!WorkersInv'
  BY <1>3, ReadsStand
<1> QED
  BY <1>2, <1>4

\* One row of the board becomes r, one of the calendar k, at most; and what that takes for
\* the tables to stay as they have to be.
Become(e, r, c, k) ==
  /\ r \in Board!BoardRow \cup {None} /\ k \in Board!CalRow \cup {None}
  /\ board' \in [Events -> Board!BoardRow \cup {None}]
  /\ cal' \in [Board!Cals -> Board!CalRow \cup {None}]
  /\ \A f \in Events : board'[f] = IF f = e THEN r ELSE board[f]
  /\ \A d \in Board!Cals : cal'[d] = IF d = c THEN k ELSE cal[d]
  /\ used' \in used..MaxCals /\ strayed \subseteq strayed' /\ strayed' \subseteq Board!Cals

BoardFits(e, r, c) ==
  e \in Events /\ r # None =>
    /\ Board!CheckHolds(r)
    /\ r.link # None =>
         /\ cal'[r.link] # None
         /\ r.link = c \/ (board[e] # None /\ r.link = board[e].link)
         /\ Board!Linked(r.link) \subseteq {e}
    /\ Board!StageIsPublished(r.stage) /\ r.link \notin strayed' => r.plan.when # None

CalendarFits(e, r, c, k) ==
  /\ c \in Board!Cals /\ k = None =>
       Board!Linked(c) \subseteq {e} /\ (e \in Events /\ r # None => r.link # c)
  /\ c \in Board!Cals /\ k # None => c <= used'
  /\ c \in Board!Cals \ strayed' /\ k # None /\ k.published =>
       \/ /\ e \in Events /\ r # None /\ r.link = c
          /\ k.plan = r.plan /\ k.service = r.plan.service
       \/ /\ e \notin Events /\ cal[c] # None /\ cal[c].published
          /\ k.plan = cal[c].plan /\ k.service = cal[c].service
  /\ \A d \in Board!Cals \ strayed' :
       d # c /\ e \in Board!Linked(d) /\ cal[d] # None /\ cal[d].published =>
         r # None /\ r.link = d /\ r.plan = board[e].plan

\* The tables agree again after one row and one calendar event of it have changed together.
LEMMA TablesIInv ==
  ASSUME Board!IInv, BoardJobs', Board!WorkersInv', NEW e, NEW r, NEW c, NEW k,
         Become(e, r, c, k), BoardFits(e, r, c), CalendarFits(e, r, c, k)
  PROVE  Board!IInv'
<1> USE DEF Become, BoardFits, CalendarFits
<1>1. /\ Board!TypeOK /\ Board!LinksInv /\ Board!WorkersInv /\ Board!OnTheBoard
      /\ Board!PublishedComplete
  BY DEF Board!IInv
<1>2. used \in 0..MaxCals /\ used' \in 0..MaxCals /\ used <= used'
  BY <1>1 DEF Board!TypeOK
<1>3. ASSUME NEW f \in Events, board'[f] # None
      PROVE  /\ Board!CheckHolds(board'[f])
             /\ board'[f].link # None => cal'[board'[f].link] # None
  <2>1. CASE f = e
    BY <1>3, <2>1
  <2>2. CASE f # e
    <3>1. PICK b \in Board!BoardRow : b = board[f]
      BY <1>1, <1>3, <2>2 DEF Board!TypeOK
    <3>2. board'[f] = b /\ board[f] # None
      BY <1>3, <2>2, <3>1
    <3>3. Board!CheckHolds(b)
      BY <1>1, <3>1, <3>2 DEF Board!TypeOK, Board!CheckHolds, Board!StageIsPublished
    <3>4. ASSUME b.link # None PROVE cal'[b.link] # None
      <4>1. b.link \in Board!Cals /\ cal[b.link] # None
        BY <1>1, <3>1, <3>2, <3>4 DEF Board!TypeOK, Board!BoardRow
      <4>2. f \in Board!Linked(b.link)
        BY <3>1, <3>2 DEF Board!Linked
      <4> QED
        BY <2>2, <4>1, <4>2
    <3> QED
      BY <3>2, <3>3, <3>4
  <2> QED
    BY <2>1, <2>2
<1>4. Board!TypeOK'
  <2>1. \A f \in Events : board'[f] # None =>
          /\ board'[f].stage \in {"confirmed", "done"} <=> board'[f].link # None
          /\ board'[f].link # None => cal'[board'[f].link] # None
    BY <1>3 DEF Board!CheckHolds, Board!StageIsPublished
  <2> QED
    BY <1>2, <2>1 DEF Board!TypeOK, BoardJobs, BoardSteps
<1>5. ASSUME NEW d \in Board!Cals
      PROVE  Board!Linked(d)'
         = (Board!Linked(d) \ {e}) \cup (IF e \in Events /\ r # None /\ r.link = d
                                                  THEN {e} ELSE {})
  BY DEF Board!Linked
<1>6. Board!LinksInv'
  <2>1. \A d \in Board!Cals : cal'[d] # None => d <= used'
    BY <1>1, <1>2 DEF Board!LinksInv, Board!Cals
  <2>2. ASSUME NEW d \in Board!Cals, NEW f \in Board!Linked(d)', NEW g \in Board!Linked(d)'
        PROVE f = g
    <3>1. CASE e \in Events /\ r # None /\ r.link = d
      <4>1. d # None
        BY DEF Board!Cals
      <4>2. Board!Linked(d) \subseteq {e}
        BY <3>1, <4>1
      <4> QED
        BY <1>5, <3>1, <4>2
    <3>2. CASE ~(e \in Events /\ r # None /\ r.link = d)
      <4>1. f \in Board!Linked(d) /\ g \in Board!Linked(d)
        BY <1>5, <3>2
      <4> QED
        BY <1>1, <4>1 DEF Board!LinksInv, Board!Linked
    <3> QED
      BY <3>1, <3>2
  <2> QED
    BY <2>1, <2>2 DEF Board!LinksInv
<1>7. Board!OnTheBoard'
  <2> SUFFICES ASSUME NEW d \in Board!Cals, d \notin strayed', cal'[d] # None, cal'[d].published
               PROVE  \E f \in Events : /\ Board!Linked(d)' = {f}
                                        /\ cal'[d].plan = board'[f].plan
                                        /\ cal'[d].service = board'[f].plan.service
    BY DEF Board!OnTheBoard
  <2>0. d # None /\ d \notin strayed
    BY DEF Board!Cals
  <2>1. CASE d = c /\ e \in Events
    <3>1. r # None /\ r.link = c /\ k.plan = r.plan /\ k.service = r.plan.service
      BY <2>1
    <3>2. Board!Linked(d) \subseteq {e}
      BY <2>0, <2>1, <3>1
    <3>3. Board!Linked(d)' = {e}
      BY <1>5, <2>1, <3>1, <3>2
    <3> QED
      BY <2>1, <3>1, <3>3
  <2>2. CASE d = c /\ e \notin Events
    <3>1. /\ cal[d] # None /\ cal[d].published
          /\ k.plan = cal[d].plan /\ k.service = cal[d].service
      BY <2>2
    <3>2. PICK f \in Events : /\ Board!Linked(d) = {f} /\ cal[d].plan = board[f].plan
                              /\ cal[d].service = board[f].plan.service
      BY <1>1, <2>0, <3>1 DEF Board!OnTheBoard
    <3>3. Board!Linked(d)' = {f} /\ board'[f] = board[f]
      BY <1>5, <2>2, <3>2
    <3> QED
      BY <2>2, <3>1, <3>2, <3>3
  <2>3. CASE d # c
    <3>1. cal'[d] = cal[d]
      BY <2>3
    <3>2. PICK f \in Events : /\ Board!Linked(d) = {f} /\ cal[d].plan = board[f].plan
                              /\ cal[d].service = board[f].plan.service
      BY <1>1, <2>0, <3>1 DEF Board!OnTheBoard
    <3>3. CASE f = e
      <4>1. r # None /\ r.link = d /\ r.plan = board[e].plan
        BY <2>0, <2>3, <3>1, <3>2, <3>3
      <4>2. Board!Linked(d)' = {e} /\ board'[e] = r
        BY <1>5, <3>2, <3>3, <4>1
      <4> QED
        BY <3>1, <3>2, <3>3, <4>1, <4>2
    <3>4. CASE f # e
      <4>1. ~(e \in Events /\ r # None /\ r.link = d)
        BY <2>0, <3>2, <3>4
      <4>2. Board!Linked(d)' = {f} /\ board'[f] = board[f]
        BY <1>5, <3>2, <3>4, <4>1
      <4> QED
        BY <3>1, <3>2, <4>2
    <3> QED
      BY <3>3, <3>4
  <2> QED
    BY <2>1, <2>2, <2>3
<1>8. Board!PublishedComplete'
  <2> SUFFICES ASSUME NEW f \in Events, board'[f] # None, Board!StageIsPublished(board'[f].stage),
                      board'[f].link \notin strayed'
               PROVE  board'[f].plan.when # None
    BY DEF Board!PublishedComplete
  <2> QED
    BY <1>1 DEF Board!PublishedComplete
<1> QED
  BY <1>4, <1>6, <1>7, <1>8 DEF Board!IInv

\* Nobody's memory changes, and the board at most where nobody has read.
LEMMA SameWorkers ==
  ASSUME Board!TypeOK, Board!WorkersInv, NEW e, NEW r, UNCHANGED <<boardPc, boardJob>>,
         BoardBecomes(e, r),
         used' \in Nat, used <= used',
         \A v \in Workers : e \in Events /\ boardPc[v] # "idle" => boardJob[v].event # e
  PROVE  BoardJobs' /\ Board!WorkersInv'
<1>1. BoardJobs'
  BY DEF Board!TypeOK, BoardJobs, BoardSteps
<1>2. ASSUME NEW v \in Workers
      PROVE  /\ boardPc'[v] = boardPc[v] /\ boardJob'[v].event = boardJob[v].event
             /\ boardJob'[v].row = boardJob[v].row
             /\ boardJob'[v].next = boardJob[v].next /\ boardJob'[v].body = boardJob[v].body
             /\ ~boardJob'[v].overtaken =>
                  ~boardJob[v].overtaken
                     /\ (e \in Events /\ boardPc[v] # "idle" => boardJob[v].event # e)
  OBVIOUS
<1>3. Board!WorkersInv'
  BY <1>2, ReadsStand
<1> QED
  BY <1>1, <1>3

\* What a request that is about to commit knows.
LEMMA Knows ==
  ASSUME Board!IInv, NEW w \in Workers, boardPc[w] # "idle", NEW j, j = boardJob[w]
  PROVE  /\ j \in Board!Job /\ j.event \in Events /\ j.row \in Board!BoardRow
         /\ Board!CheckHolds(j.row)
         /\ j.row.link # None =>
              j.row.link \in Board!Cals /\ j.row.link <= used
                 /\ Board!Linked(j.row.link) \subseteq {j.event}
         /\ ~j.overtaken => board[j.event] = j.row
         /\ boardPc[w] = "staging" => Board!Gate(j.row, j.next)
         /\ boardPc[w] = "updating" /\ Board!Frozen(j.row) => j.body = Board!Untouched
<1>1. Board!TypeOK /\ Board!WorkersInv
  BY DEF Board!IInv
<1>2. /\ j \in Board!Job /\ j.event \in Events /\ j.row \in Board!BoardRow
      /\ Board!CheckHolds(j.row)
      /\ j.row.link # None => j.row.link <= used /\ Board!Linked(j.row.link) \subseteq {j.event}
      /\ ~j.overtaken => board[j.event] = j.row
      /\ boardPc[w] = "staging" => Board!Gate(j.row, j.next)
      /\ boardPc[w] = "updating" /\ Board!Frozen(j.row) => j.body = Board!Untouched
  BY <1>1 DEF Board!WorkersInv, Board!WorkerOK, Board!TypeOK
<1>3. j.row.link # None => j.row.link \in Board!Cals
  BY <1>2 DEF Board!BoardRow
<1> QED
  BY <1>2, <1>3

\* A row of the board that exists.
LEMMA RowFacts ==
  ASSUME Board!IInv, NEW e \in Events, NEW b, b = board[e], b # None
  PROVE  /\ b \in Board!BoardRow /\ Board!CheckHolds(b)
         /\ b.link # None =>
              /\ b.link \in Board!Cals /\ cal[b.link] \in Board!CalRow /\ b.link <= used
              /\ Board!Linked(b.link) = {e}
         /\ \A d \in Board!Cals : e \in Board!Linked(d) <=> b.link = d
<1>1. Board!TypeOK /\ Board!LinksInv
  BY DEF Board!IInv
<1>2. b \in Board!BoardRow /\ Board!CheckHolds(b)
  BY <1>1 DEF Board!TypeOK, Board!CheckHolds, Board!StageIsPublished
<1>3. b.link # None => b.link \in Board!Cals /\ cal[b.link] \in Board!CalRow /\ b.link <= used
  BY <1>1, <1>2 DEF Board!TypeOK, Board!LinksInv, Board!BoardRow
<1>4. \A d \in Board!Cals : e \in Board!Linked(d) <=> b.link = d
  BY DEF Board!Linked
<1>5. b.link # None => Board!Linked(b.link) = {e}
  BY <1>1, <1>3, <1>4 DEF Board!LinksInv, Board!Linked
<1> QED
  BY <1>2, <1>3, <1>4, <1>5

\* The same, when the calendar stays as it is.
LEMMA BoardIInv ==
  ASSUME Board!IInv, NEW e \in Events, NEW r \in Board!BoardRow, BoardJobs', Board!WorkersInv',
         UNCHANGED <<cal, used, strayed>>,
         board' = [board EXCEPT ![e] = r],
         Board!CheckHolds(r),
         r.link # None => board[e] # None /\ r.link = board[e].link,
         Board!StageIsPublished(r.stage) /\ r.link \notin strayed => r.plan.when # None,
         board[e] # None => r.link = board[e].link /\ (r.link # None => r.plan = board[e].plan)
  PROVE  Board!IInv'
<1>1. Board!TypeOK /\ Board!LinksInv
  BY DEF Board!IInv
<1>2. PICK c, k : c = 0 /\ k = None
  OBVIOUS
<1>3. c \notin Board!Cals /\ \A d \in Board!Cals : cal'[d] = IF d = c THEN k ELSE cal[d]
  BY <1>2 DEF Board!Cals
<1>4. /\ board' \in [Events -> Board!BoardRow \cup {None}]
      /\ cal' \in [Board!Cals -> Board!CalRow \cup {None}]
      /\ \A f \in Events : board'[f] = IF f = e THEN r ELSE board[f]
  BY <1>1 DEF Board!TypeOK
<1>5. used' \in used..MaxCals /\ strayed \subseteq strayed' /\ strayed' \subseteq Board!Cals
  BY <1>1 DEF Board!TypeOK
<1>6. ASSUME board[e] # None
      PROVE  /\ board[e].link # None =>
                  cal[board[e].link] # None /\ Board!Linked(board[e].link) = {e}
             /\ \A d \in Board!Cals : e \in Board!Linked(d) <=> board[e].link = d
  <2>1. PICK b : b = board[e]
    OBVIOUS
  <2>2. /\ b.link # None => cal[b.link] \in Board!CalRow /\ Board!Linked(b.link) = {e}
        /\ \A d \in Board!Cals : e \in Board!Linked(d) <=> b.link = d
    BY <1>6, <2>1, RowFacts
  <2> QED
    BY <2>1, <2>2
<1>7. \A d \in Board!Cals : e \in Board!Linked(d) =>
        board[e] # None /\ board[e].link = d /\ d # None
  BY <1>6 DEF Board!Linked, Board!Cals
<1>8. r.link # None => cal'[r.link] # None /\ Board!Linked(r.link) \subseteq {e}
  BY <1>6
<1>9. k \in Board!CalRow \cup {None} /\ r \in Board!BoardRow \cup {None} /\ r # None
  BY <1>2
<1>10. e \in Events /\ r # None =>
         /\ Board!CheckHolds(r)
         /\ r.link # None =>
              /\ cal'[r.link] # None
              /\ r.link = c \/ (board[e] # None /\ r.link = board[e].link)
              /\ Board!Linked(r.link) \subseteq {e}
         /\ Board!StageIsPublished(r.stage) /\ r.link \notin strayed' => r.plan.when # None
  BY <1>8
<1>11. \A d \in Board!Cals \ strayed' :
         d # c /\ e \in Board!Linked(d) /\ cal[d] # None /\ cal[d].published =>
           r # None /\ r.link = d /\ r.plan = board[e].plan
  BY <1>7, <1>9
<1>12. Become(e, r, c, k)
  BY <1>3, <1>4, <1>5, <1>9, <1>10, <1>11 DEF Become
<1>13. BoardFits(e, r, c)
  BY <1>3, <1>4, <1>5, <1>9, <1>10, <1>11 DEF BoardFits
<1>14. CalendarFits(e, r, c, k)
  BY <1>3, <1>4, <1>5, <1>9, <1>10, <1>11 DEF CalendarFits
<1> QED
  BY <1>12, <1>13, <1>14, TablesIInv

\* createProgrammingTask.
LEMMA CreateTaskIInv ==
  ASSUME Board!IInv, NEW e \in Events, NEW plan \in MCPlans, Board!CreateProgrammingTask(e, plan)
  PROVE  Board!IInv'
<1>1. Board!TypeOK /\ Board!WorkersInv
  BY DEF Board!IInv
<1>2. PICK r \in Board!BoardRow : r = [stage |-> "idea", link |-> None, plan |-> plan]
  BY PlansFit DEF Board!BoardRow, Board!Stages
<1>3. /\ board[e] = None /\ board' = [board EXCEPT ![e] = r]
      /\ \A w \in Workers : boardJob[w].event # e
      /\ UNCHANGED <<cal, used, boardPc, boardJob, strayed>>
  BY <1>2 DEF Board!CreateProgrammingTask
<1>4. BoardBecomes(e, r) /\ board' \in [Events -> Board!BoardRow \cup {None}]
  BY <1>1, <1>2, <1>3 DEF Board!TypeOK, BoardBecomes
<1>5. used' \in used..MaxCals /\ used <= used' /\ used' \in Nat
  BY <1>1, <1>3 DEF Board!TypeOK
<1>6. BoardJobs' /\ Board!WorkersInv'
  BY <1>1, <1>3, <1>4, <1>5, SameWorkers
<1>7. Board!CheckHolds(r) /\ r.link = None /\ ~Board!StageIsPublished(r.stage)
  BY <1>2 DEF Board!CheckHolds, Board!StageIsPublished
<1> QED
  BY <1>3, <1>6, <1>7, BoardIInv

\* setStage to confirmed: the calendar event is created or published, and linked.
LEMMA PromoteIInv ==
  ASSUME Board!IInv, NEW w \in Workers, Board!Promote(w)
  PROVE  Board!IInv'
<1>1. Board!TypeOK /\ Board!LinksInv /\ Board!WorkersInv
  BY DEF Board!IInv
<1>2. PICK j : j = boardJob[w]
  OBVIOUS
<1>3. PICK c : c = used + 1
  OBVIOUS
<1>4. PICK e : e = j.event
  OBVIOUS
<1>5. PICK b : b = board[e]
  OBVIOUS
<1>6. /\ boardPc[w] = "staging" /\ Board!StageIsPublished(j.next) /\ j.row.link = None
      /\ c \in Board!Cals /\ b # None /\ b.link = None
      /\ board' = [board EXCEPT ![e] = [@ EXCEPT !.stage = j.next, !.link = c]]
      /\ cal' = [cal EXCEPT ![c] = [plan |-> j.row.plan, service |-> j.row.plan.service,
                                    roll |-> FALSE, published |-> TRUE]]
      /\ used' = c /\ Board!Stray({c}, j.overtaken) /\ Board!Commit(w, e)
  BY <1>2, <1>3, <1>4, <1>5 DEF Board!Promote, Board!Claimed
<1>7. /\ j \in Board!Job /\ e \in Events /\ j.row \in Board!BoardRow /\ Board!CheckHolds(j.row)
      /\ ~j.overtaken => b = j.row
      /\ Board!Gate(j.row, j.next)
  BY <1>2, <1>4, <1>5, <1>6, Knows
<1>8. b \in Board!BoardRow /\ \A d \in Board!Cals : e \notin Board!Linked(d)
  <2>1. \A d \in Board!Cals : e \in Board!Linked(d) <=> b.link = d
    BY <1>5, <1>6, <1>7, RowFacts
  <2>2. None \notin Board!Cals
    BY DEF Board!Cals
  <2> QED
    BY <1>5, <1>6, <1>7, <2>1, <2>2, RowFacts
<1>9. PICK r \in Board!BoardRow : r = [b EXCEPT !.stage = j.next, !.link = c]
  BY <1>6, <1>7, <1>8 DEF Board!BoardRow, Board!Job
<1>10. r.stage = j.next /\ r.link = c /\ r.plan = b.plan
  BY <1>8, <1>9 DEF Board!BoardRow
<1>11. PICK k \in Board!CalRow : k = [plan |-> j.row.plan, service |-> j.row.plan.service,
                                roll |-> FALSE, published |-> TRUE]
  BY <1>7 DEF Board!BoardRow, Board!CalRow, Board!Plan
<1>12. board' = [board EXCEPT ![e] = r] /\ cal' = [cal EXCEPT ![c] = k]
  BY <1>1, <1>5, <1>6, <1>7, <1>9, <1>11 DEF Board!TypeOK
<1>13. /\ board' \in [Events -> Board!BoardRow \cup {None}]
       /\ cal' \in [Board!Cals -> Board!CalRow \cup {None}]
       /\ \A f \in Events : board'[f] = IF f = e THEN r ELSE board[f]
       /\ \A d \in Board!Cals : cal'[d] = IF d = c THEN k ELSE cal[d]
  BY <1>1, <1>7, <1>12 DEF Board!TypeOK
<1>14. used \in Nat /\ used' \in used..MaxCals /\ used <= used' /\ used' \in Nat
       /\ ~(c <= used) /\ c <= used'
  BY <1>1, <1>3, <1>6 DEF Board!TypeOK, Board!Cals
<1>15. BoardBecomes(e, r)
  BY <1>10, <1>13, <1>14 DEF BoardBecomes
<1>16. BoardJobs' /\ Board!WorkersInv'
  BY <1>1, <1>6, <1>14, <1>15, CommitWorkers
<1>17. strayed \subseteq strayed' /\ strayed' \subseteq Board!Cals
        /\ (c \notin strayed' => ~j.overtaken)
  BY <1>1, <1>6 DEF Board!TypeOK, Board!Stray
<1>18. Board!Linked(c) = {}
  <2> SUFFICES ASSUME NEW f \in Board!Linked(c) PROVE FALSE
    OBVIOUS
  <2>1. cal[c] # None
    BY <1>1, <1>6 DEF Board!Linked, Board!TypeOK, Board!Cals
  <2> QED
    BY <1>1, <1>6, <1>14, <2>1 DEF Board!LinksInv
<1>19. Board!CheckHolds(r)
  BY <1>6, <1>10 DEF Board!CheckHolds, Board!Cals
<1>20. c \notin strayed' => r.plan = j.row.plan /\ r.plan.when # None
  <2>1. Board!CanEnter(j.row, j.next)
    BY <1>6, <1>7
       DEF Board!Gate, Board!Order, Board!StageIsPublished, Board!CheckHolds, Board!BoardRow,
           Board!Stages
  <2> QED
    BY <1>6, <1>7, <1>10, <1>17, <2>1 DEF Board!CanEnter
<1>21. k # None /\ k.plan = j.row.plan /\ k.service = j.row.plan.service /\ r # None
  BY <1>11
<1>22. cal'[r.link] # None
  BY <1>6, <1>10, <1>13, <1>21
<1>23. Become(e, r, c, k)
  BY <1>7, <1>8, <1>10, <1>13, <1>14, <1>16, <1>17, <1>18, <1>19, <1>20, <1>21, <1>22 DEF Become
<1>24. BoardFits(e, r, c)
  BY <1>7, <1>8, <1>10, <1>13, <1>14, <1>16, <1>17, <1>18, <1>19, <1>20, <1>21, <1>22 DEF BoardFits
<1>25. CalendarFits(e, r, c, k)
  BY <1>7, <1>8, <1>10, <1>13, <1>14, <1>16, <1>17, <1>18, <1>19, <1>20, <1>21, <1>22
     DEF CalendarFits
<1> QED
  BY <1>16, <1>23, <1>24, <1>25, TablesIInv

\* setStage back to a stage that is not published: the calendar event is deleted.
LEMMA DemoteIInv ==
  ASSUME Board!IInv, NEW w \in Workers, Board!Demote(w)
  PROVE  Board!IInv'
<1>1. Board!TypeOK /\ Board!LinksInv /\ Board!WorkersInv
  BY DEF Board!IInv
<1>2. PICK j : j = boardJob[w]
  OBVIOUS
<1>3. PICK e, c : e = j.event /\ c = j.row.link
  OBVIOUS
<1>4. PICK b : b = board[e]
  OBVIOUS
<1>5. /\ boardPc[w] = "staging" /\ ~Board!StageIsPublished(j.next) /\ c # None
      /\ b # None /\ b.link = c
      /\ board' = [board EXCEPT ![e] = [@ EXCEPT !.stage = j.next, !.link = None]]
      /\ cal' = [cal EXCEPT ![c] = None]
      /\ Board!Commit(w, e) /\ UNCHANGED <<used, strayed>>
  BY <1>2, <1>3, <1>4 DEF Board!Demote
<1>6. j \in Board!Job /\ e \in Events /\ c \in Board!Cals
  BY <1>2, <1>3, <1>5, Knows
<1>7. b \in Board!BoardRow /\ Board!Linked(c) = {e} /\ \A d \in Board!Cals :
        e \in Board!Linked(d) <=> b.link = d
  BY <1>4, <1>5, <1>6, RowFacts
<1>8. PICK r \in Board!BoardRow : r = [b EXCEPT !.stage = j.next, !.link = None]
  BY <1>6, <1>7 DEF Board!BoardRow, Board!Job
<1>9. r.stage = j.next /\ r.link = None
  BY <1>7, <1>8 DEF Board!BoardRow
<1>10. board' = [board EXCEPT ![e] = r]
  BY <1>1, <1>4, <1>5, <1>6, <1>8 DEF Board!TypeOK
<1>11. /\ board' \in [Events -> Board!BoardRow \cup {None}]
       /\ cal' \in [Board!Cals -> Board!CalRow \cup {None}]
       /\ \A f \in Events : board'[f] = IF f = e THEN r ELSE board[f]
       /\ \A d \in Board!Cals : cal'[d] = IF d = c THEN None ELSE cal[d]
  BY <1>1, <1>5, <1>6, <1>10 DEF Board!TypeOK
<1>12. used' \in used..MaxCals /\ used <= used' /\ used' \in Nat
  BY <1>1, <1>5 DEF Board!TypeOK
<1>13. BoardBecomes(e, r)
  BY <1>9, <1>11 DEF BoardBecomes
<1>14. BoardJobs' /\ Board!WorkersInv'
  BY <1>1, <1>5, <1>12, <1>13, CommitWorkers
<1>15. strayed \subseteq strayed' /\ strayed' \subseteq Board!Cals
  BY <1>1, <1>5 DEF Board!TypeOK
<1>16. Board!CheckHolds(r) /\ ~Board!StageIsPublished(r.stage)
  BY <1>5, <1>9 DEF Board!CheckHolds
<1>17. Become(e, r, c, None)
  BY <1>5, <1>6, <1>7, <1>9, <1>11, <1>12, <1>14, <1>15, <1>16 DEF Become
<1>18. BoardFits(e, r, c)
  BY <1>5, <1>6, <1>7, <1>9, <1>11, <1>12, <1>14, <1>15, <1>16 DEF BoardFits
<1>19. CalendarFits(e, r, c, None)
  BY <1>5, <1>6, <1>7, <1>9, <1>11, <1>12, <1>14, <1>15, <1>16 DEF CalendarFits
<1> QED
  BY <1>14, <1>17, <1>18, <1>19, TablesIInv

\* setStage that does not cross the boundary, or that repeats the stage.
LEMMA MoveLaterallyIInv ==
  ASSUME Board!IInv, NEW w \in Workers, Board!MoveLaterally(w)
  PROVE  Board!IInv'
<1>1. Board!TypeOK /\ Board!LinksInv /\ Board!WorkersInv /\ Board!PublishedComplete
  BY DEF Board!IInv
<1>2. PICK j : j = boardJob[w]
  OBVIOUS
<1>3. PICK e : e = j.event
  OBVIOUS
<1>4. PICK b : b = board[e]
  OBVIOUS
<1>5. /\ boardPc[w] = "staging" /\ b # None /\ Board!CheckHolds([b EXCEPT !.stage = j.next])
      /\ board' = [board EXCEPT ![e] = [@ EXCEPT !.stage = j.next]]
      /\ Board!Commit(w, e) /\ UNCHANGED <<cal, used, strayed>>
  BY <1>2, <1>3, <1>4 DEF Board!MoveLaterally
<1>6. j \in Board!Job /\ e \in Events
  BY <1>2, <1>3, <1>5, Knows
<1>7. /\ b \in Board!BoardRow /\ Board!CheckHolds(b)
      /\ b.link # None =>
           b.link \in Board!Cals /\ cal[b.link] \in Board!CalRow /\ Board!Linked(b.link) = {e}
      /\ \A d \in Board!Cals : e \in Board!Linked(d) <=> b.link = d
  BY <1>4, <1>5, <1>6, RowFacts
<1>8. PICK r \in Board!BoardRow : r = [b EXCEPT !.stage = j.next]
  BY <1>6, <1>7 DEF Board!BoardRow, Board!Job
<1>9. r.stage = j.next /\ r.link = b.link /\ r.plan = b.plan
  BY <1>7, <1>8 DEF Board!BoardRow
<1>10. board' = [board EXCEPT ![e] = r]
  BY <1>1, <1>4, <1>5, <1>6, <1>8 DEF Board!TypeOK
<1>11. /\ board' \in [Events -> Board!BoardRow \cup {None}]
       /\ cal' \in [Board!Cals -> Board!CalRow \cup {None}]
       /\ \A f \in Events : board'[f] = IF f = e THEN r ELSE board[f]
  BY <1>1, <1>5, <1>6, <1>10 DEF Board!TypeOK, Board!Cals
<1>12. used' \in used..MaxCals /\ used <= used' /\ used' \in Nat
  BY <1>1, <1>5 DEF Board!TypeOK
<1>13. BoardBecomes(e, r)
  BY <1>4, <1>5, <1>9, <1>11 DEF BoardBecomes
<1>14. BoardJobs' /\ Board!WorkersInv'
  BY <1>1, <1>5, <1>12, <1>13, CommitWorkers
<1>15. strayed \subseteq strayed' /\ strayed' \subseteq Board!Cals
  BY <1>1, <1>5 DEF Board!TypeOK
<1>16. Board!CheckHolds(r)
  BY <1>5, <1>8
<1>17. Board!StageIsPublished(r.stage) /\ r.link \notin strayed' => r.plan.when # None
  <2>1. Board!StageIsPublished(r.stage) => Board!StageIsPublished(b.stage)
    BY <1>7, <1>9, <1>16 DEF Board!CheckHolds
  <2> QED
    BY <1>1, <1>4, <1>5, <1>6, <1>9, <2>1 DEF Board!PublishedComplete
<1> QED
  BY <1>4, <1>5, <1>6, <1>9, <1>10, <1>14, <1>16, <1>17, BoardIInv

\* updateProgrammingTask, with the calendar event that follows it.
LEMMA UpdateTaskIInv ==
  ASSUME Board!IInv, NEW w \in Workers, Board!UpdateProgrammingTask(w)
  PROVE  Board!IInv'
<1>1. Board!TypeOK /\ Board!LinksInv /\ Board!WorkersInv
  BY DEF Board!IInv
<1>2. PICK j : j = boardJob[w]
  OBVIOUS
<1>3. PICK e : e = j.event
  OBVIOUS
<1>4. PICK b, c, plan : b = board[e] /\ c = b.link /\ plan = Board!Onto(b.plan, j.body)
  OBVIOUS
<1>5. /\ boardPc[w] = "updating" /\ b # None
      /\ board' = [board EXCEPT ![e] = [@ EXCEPT !.plan = plan]]
      /\ cal' = IF c = None THEN cal ELSE [cal EXCEPT ![c] = Board!Mirrored(c, j, plan)]
      /\ Board!Stray({c}, c # None /\ j.overtaken) /\ Board!Commit(w, e) /\ UNCHANGED used
  BY <1>2, <1>3, <1>4 DEF Board!UpdateProgrammingTask
<1>6. /\ j \in Board!Job /\ e \in Events /\ Board!CheckHolds(j.row) /\ j.body \in Board!Body
      /\ Board!Frozen(j.row) => j.body = Board!Untouched
      /\ j.row \in Board!BoardRow
      /\ ~j.overtaken => b = j.row
  BY <1>2, <1>3, <1>4, <1>5, Knows DEF Board!Job
<1>7. /\ b \in Board!BoardRow /\ Board!CheckHolds(b)
      /\ c # None =>
           c \in Board!Cals /\ cal[c] \in Board!CalRow /\ c <= used /\ Board!Linked(c) = {e}
      /\ \A d \in Board!Cals : e \in Board!Linked(d) <=> c = d
  BY <1>4, <1>5, <1>6, RowFacts
<1>17. b.plan \in Board!Plan /\ plan \in Board!Plan /\ j.row.plan \in Board!Plan
       /\ j.row.plan.service \in BOOLEAN
       /\ (j.body = Board!Untouched => plan = b.plan)
  BY <1>4, <1>6, <1>7, OntoPlan DEF Board!BoardRow, Board!Plan
<1>8. PICK r \in Board!BoardRow : r = [b EXCEPT !.plan = plan]
  BY <1>7, <1>17 DEF Board!BoardRow
<1>9. r.stage = b.stage /\ r.link = c /\ r.plan = plan /\ Board!CheckHolds(r)
  BY <1>4, <1>7, <1>8 DEF Board!BoardRow, Board!CheckHolds
<1>10. board' = [board EXCEPT ![e] = r]
  BY <1>1, <1>4, <1>5, <1>6, <1>8 DEF Board!TypeOK
<1>11. /\ board' \in [Events -> Board!BoardRow \cup {None}]
       /\ \A f \in Events : board'[f] = IF f = e THEN r ELSE board[f]
  BY <1>1, <1>6, <1>10 DEF Board!TypeOK
<1>12. used' \in used..MaxCals /\ used <= used' /\ used' \in Nat
  BY <1>1, <1>5 DEF Board!TypeOK
<1>13. BoardBecomes(e, r)
  BY <1>4, <1>5, <1>9, <1>11 DEF BoardBecomes
<1>14. BoardJobs' /\ Board!WorkersInv'
  BY <1>1, <1>5, <1>12, <1>13, CommitWorkers
<1>15. CASE c = None
  <2>1. UNCHANGED <<cal, used, strayed>>
    BY <1>5, <1>15 DEF Board!Stray
  <2>2. ~Board!StageIsPublished(r.stage)
    BY <1>9, <1>15 DEF Board!CheckHolds
  <2> QED
    BY <1>4, <1>5, <1>6, <1>9, <1>10, <1>14, <1>15, <2>1, <2>2, BoardIInv
<1>16. CASE c # None
  <2>1. PICK k : k = Board!Mirrored(c, j, plan)
    OBVIOUS
  <2>2. /\ k \in Board!CalRow /\ k.plan = plan /\ k.published = cal[c].published
        /\ j.body = Board!Untouched /\ cal[c].service = j.row.plan.service =>
             k.service = j.row.plan.service
    <3>1. PICK was \in BOOLEAN : was = j.row.plan.service
      BY <1>17
    <3>2. PICK o \in Board!CalRow : o = cal[c] /\ o.service \in BOOLEAN
      BY <1>7, <1>16 DEF Board!CalRow
    <3>3. PICK x \in BOOLEAN :
            x = Board!Or(j.body.service, was) /\ (j.body = Board!Untouched => x = was)
      BY <1>6, OrService
    <3>4. PICK y \in BOOLEAN : y = (x \/ (o.service /\ ~was))
      OBVIOUS
    <3>5. k = [o EXCEPT !.plan = plan, !.service = y]
      BY <2>1, <3>1, <3>2, <3>3, <3>4 DEF Board!Mirrored
    <3>6. /\ k \in Board!CalRow /\ k.plan = plan /\ k.published = o.published
          /\ k.service = y
      BY <1>17, <3>5 DEF Board!CalRow
    <3>7. x = was /\ o.service = was => y = was
      BY <3>2, <3>4
    <3> QED
      BY <3>1, <3>2, <3>3, <3>6, <3>7
  <2>3. /\ strayed \subseteq strayed' /\ strayed' \subseteq Board!Cals
        /\ c \notin strayed' => ~j.overtaken /\ c \notin strayed
    BY <1>1, <1>5, <1>7, <1>16 DEF Board!TypeOK, Board!Stray
  <2>4. ASSUME c \notin strayed'
        PROVE  /\ plan = b.plan /\ plan.when # None
               /\ k.published => k.service = plan.service
    <3>1. b = j.row /\ Board!StageIsPublished(b.stage) /\ c \notin strayed
      BY <1>4, <1>6, <1>7, <1>16, <2>3, <2>4 DEF Board!CheckHolds
    <3>2. j.body = Board!Untouched /\ plan = b.plan
      BY <1>6, <1>17, <3>1 DEF Board!Frozen
    <3>3. plan.when # None
      BY <1>4, <1>5, <1>6, <3>1, <3>2 DEF Board!IInv, Board!PublishedComplete
    <3>4. ASSUME cal[c].published PROVE cal[c].service = b.plan.service
      <4>1. PICK f \in Events : Board!Linked(c) = {f} /\ cal[c].service = board[f].plan.service
        BY <1>7, <1>16, <3>1, <3>4 DEF Board!IInv, Board!OnTheBoard
      <4> QED
        BY <1>4, <1>7, <1>16, <4>1
    <3> QED
      BY <2>2, <3>1, <3>2, <3>3, <3>4
  <2>5. /\ cal' \in [Board!Cals -> Board!CalRow \cup {None}]
        /\ \A d \in Board!Cals : cal'[d] = IF d = c THEN k ELSE cal[d]
    BY <1>1, <1>5, <1>7, <1>16, <2>1, <2>2 DEF Board!TypeOK
  <2>6. c <= used' /\ k # None /\ cal'[c] # None
    BY <1>5, <1>7, <1>16, <2>2, <2>5
  <2>7. /\ Board!CheckHolds(r)
        /\ r.link # None =>
             /\ cal'[r.link] # None
             /\ r.link = c \/ (board[e] # None /\ r.link = board[e].link)
             /\ Board!Linked(r.link) \subseteq {e}
        /\ Board!StageIsPublished(r.stage) /\ r.link \notin strayed' => r.plan.when # None
    BY <1>7, <1>9, <1>16, <2>4, <2>6
  <2>8. \A d \in Board!Cals \ strayed' : d # c => e \notin Board!Linked(d)
    BY <1>7
  <2>9. Become(e, r, c, k)
    BY <1>6, <1>11, <1>12, <2>2, <2>3, <2>5 DEF Become
  <2>10. BoardFits(e, r, c)
    BY <2>7 DEF BoardFits
  <2>11. CalendarFits(e, r, c, k)
    BY <1>6, <1>9, <2>2, <2>4, <2>6, <2>8 DEF CalendarFits
  <2> QED
    BY <1>14, <2>9, <2>10, <2>11, TablesIInv
<1> QED
  BY <1>15, <1>16

\* deleteProgrammingTask, with its calendar event.
LEMMA DeleteTaskIInv ==
  ASSUME Board!IInv, NEW w \in Workers, Board!DeleteProgrammingTask(w)
  PROVE  Board!IInv'
<1>1. Board!TypeOK /\ Board!LinksInv /\ Board!WorkersInv
  BY DEF Board!IInv
<1>2. PICK j : j = boardJob[w]
  OBVIOUS
<1>3. PICK e : e = j.event
  OBVIOUS
<1>4. PICK b, c, l : b = board[e] /\ c = b.link /\ l = j.row.link
  OBVIOUS
<1>5. /\ boardPc[w] = "deleting" /\ b # None
      /\ board' = [board EXCEPT ![e] = None]
      /\ cal' = IF l = None THEN cal ELSE [cal EXCEPT ![l] = None]
      /\ Board!Stray({c}, c # None /\ j.overtaken) /\ Board!Commit(w, e) /\ UNCHANGED used
  BY <1>2, <1>3, <1>4 DEF Board!DeleteProgrammingTask
<1>6. /\ l # None => l \in Board!Cals /\ Board!Linked(l) \subseteq {e}
      /\ ~j.overtaken => b = j.row
  BY <1>2, <1>3, <1>4, <1>5, Knows
<1>7. e \in Events
  BY <1>2, <1>3, <1>5, Knows
<1>8. c # None => c \in Board!Cals /\ \A d \in Board!Cals : e \in Board!Linked(d) <=> c = d
  BY <1>4, <1>5, <1>7, RowFacts
<1>9. PICK r, x, k : r = None /\ k = None /\ x = (IF l = None THEN 0 ELSE l)
  OBVIOUS
<1>10. /\ board' \in [Events -> Board!BoardRow \cup {None}]
       /\ cal' \in [Board!Cals -> Board!CalRow \cup {None}]
       /\ \A f \in Events : board'[f] = IF f = e THEN r ELSE board[f]
       /\ \A d \in Board!Cals : cal'[d] = IF d = x THEN k ELSE cal[d]
  BY <1>1, <1>5, <1>6, <1>7, <1>9 DEF Board!TypeOK, Board!Cals
<1>11. used' \in used..MaxCals /\ used <= used' /\ used' \in Nat
  BY <1>1, <1>5 DEF Board!TypeOK
<1>12. BoardBecomes(e, r)
  BY <1>9, <1>10 DEF BoardBecomes
<1>13. BoardJobs' /\ Board!WorkersInv'
  BY <1>1, <1>5, <1>11, <1>12, CommitWorkers
<1>14. strayed \subseteq strayed' /\ strayed' \subseteq Board!Cals
  BY <1>1, <1>5, <1>8 DEF Board!TypeOK, Board!Stray
<1>15. x \in Board!Cals => Board!Linked(x) \subseteq {e}
  BY <1>6, <1>9 DEF Board!Cals
<1>16. ASSUME NEW d \in Board!Cals \ strayed', d # x, e \in Board!Linked(d) PROVE FALSE
  <2>1. c = d /\ c # None
    BY <1>4, <1>16 DEF Board!Linked, Board!Cals
  <2>2. ~j.overtaken
    BY <1>5, <1>16, <2>1 DEF Board!Stray
  <2>3. c = l
    BY <1>4, <1>6, <2>2
  <2> QED
    BY <1>9, <1>16, <2>1, <2>3
<1>17. k \in Board!CalRow \cup {None} /\ r \in Board!BoardRow \cup {None} /\ k = None /\ r = None
  BY <1>9
<1>18. Become(e, r, x, k)
  BY <1>10, <1>11, <1>13, <1>14, <1>15, <1>16, <1>17 DEF Become
<1>19. BoardFits(e, r, x)
  BY <1>10, <1>11, <1>13, <1>14, <1>15, <1>16, <1>17 DEF BoardFits
<1>20. CalendarFits(e, r, x, k)
  BY <1>10, <1>11, <1>13, <1>14, <1>15, <1>16, <1>17 DEF CalendarFits
<1> QED
  BY <1>13, <1>18, <1>19, <1>20, TablesIInv

\* The calendar alone: its other pages, or a calendar event nobody has linked.
LEMMA CalendarIInv ==
  ASSUME Board!IInv, NEW c \in Board!Cals, NEW k \in Board!CalRow \cup {None}, BoardJobs',
         Board!WorkersInv',
         UNCHANGED board, cal' = [cal EXCEPT ![c] = k],
         used' \in used..MaxCals, strayed \subseteq strayed', strayed' \subseteq Board!Cals,
         k = None => Board!Linked(c) = {},
         k # None => c <= used',
         c \notin strayed' /\ k # None /\ k.published =>
           /\ cal[c] # None /\ cal[c].published
           /\ k.plan = cal[c].plan /\ k.service = cal[c].service
  PROVE  Board!IInv'
<1>1. Board!TypeOK
  BY DEF Board!IInv
<1>2. PICK r \in Board!BoardRow \cup {None} : r = None
  OBVIOUS
<1>3. PICK e : e = None
  OBVIOUS
<1>4. /\ board' \in [Events -> Board!BoardRow \cup {None}]
      /\ cal' \in [Board!Cals -> Board!CalRow \cup {None}]
      /\ \A d \in Board!Cals : cal'[d] = IF d = c THEN k ELSE cal[d]
  BY <1>1 DEF Board!TypeOK
<1>5. e \notin Events
  BY <1>3
<1>6. \A f \in Events : board'[f] = IF f = e THEN r ELSE board[f]
  BY <1>5
<1>7. \A d \in Board!Cals : e \notin Board!Linked(d)
  BY <1>5 DEF Board!Linked
<1>8. Become(e, r, c, k)
  BY <1>4, <1>5, <1>6, <1>7 DEF Become
<1>9. BoardFits(e, r, c)
  BY <1>4, <1>5, <1>6, <1>7 DEF BoardFits
<1>10. CalendarFits(e, r, c, k)
  BY <1>4, <1>5, <1>6, <1>7 DEF CalendarFits
<1> QED
  BY <1>8, <1>9, <1>10, TablesIInv

\* Nothing that a request relies on has changed.
LEMMA Unmoved ==
  ASSUME Board!IInv, UNCHANGED <<board, boardPc, boardJob>>, used' \in Nat, used <= used'
  PROVE  BoardJobs' /\ Board!WorkersInv'
<1>1. Board!TypeOK /\ Board!WorkersInv
  BY DEF Board!IInv
<1>2. BoardBecomes(None, None)
  BY DEF BoardBecomes
<1>3. BoardJobs'
  BY <1>1 DEF Board!TypeOK, BoardJobs, BoardSteps
<1> QED
  BY <1>1, <1>2, SameWorkers

\* updateCalendar.
LEMMA UpdateCalendarIInv ==
  ASSUME Board!IInv, NEW c \in Board!Cals, NEW when \in Days, Board!UpdateCalendar(c, when)
  PROVE  Board!IInv'
<1>1. Board!TypeOK /\ Board!LinksInv
  BY DEF Board!IInv
<1>2. PICK k \in Board!CalRow : k = [cal[c] EXCEPT !.plan.when = when]
  BY <1>1 DEF Board!UpdateCalendar, Board!TypeOK, Board!CalRow, Board!Plan
<1>3. /\ cal' = [cal EXCEPT ![c] = k] /\ cal[c] # None /\ strayed' = strayed \cup {c}
      /\ UNCHANGED <<board, used, boardPc, boardJob>>
  BY <1>1, <1>2 DEF Board!UpdateCalendar, Board!TypeOK
<1>4. used' \in used..MaxCals /\ used <= used' /\ used' \in Nat /\ c <= used'
  BY <1>1, <1>3 DEF Board!TypeOK, Board!LinksInv
<1>5. strayed \subseteq strayed' /\ strayed' \subseteq Board!Cals /\ c \in strayed'
  BY <1>1, <1>3 DEF Board!TypeOK
<1>6. BoardJobs' /\ Board!WorkersInv'
  BY <1>3, <1>4, Unmoved
<1> QED
  BY <1>3, <1>4, <1>5, <1>6, CalendarIInv

\* createServiceEvent: a calendar event of its own.
LEMMA CreateServiceEventIInv ==
  ASSUME Board!IInv, NEW when \in Days, Board!CreateServiceEvent(when)
  PROVE  Board!IInv'
<1>1. Board!TypeOK /\ Board!LinksInv
  BY DEF Board!IInv
<1>2. PICK c : c = used + 1
  OBVIOUS
<1>3. PICK p \in Board!Plan : p = [service |-> TRUE, when |-> when]
  BY DEF Board!Plan
<1>4. PICK k \in Board!CalRow :
        k = [plan |-> p, service |-> TRUE, roll |-> FALSE, published |-> FALSE]
  BY DEF Board!CalRow
<1>5. /\ c \in Board!Cals /\ cal' = [cal EXCEPT ![c] = k] /\ used' = c
      /\ UNCHANGED <<board, boardPc, boardJob, strayed>>
  BY <1>2, <1>3, <1>4 DEF Board!CreateServiceEvent
<1>6. used' \in used..MaxCals /\ used <= used' /\ used' \in Nat /\ c <= used'
  BY <1>1, <1>2, <1>5 DEF Board!TypeOK, Board!Cals
<1>7. strayed \subseteq strayed' /\ strayed' \subseteq Board!Cals
  BY <1>1, <1>5 DEF Board!TypeOK
<1>8. BoardJobs' /\ Board!WorkersInv'
  BY <1>5, <1>6, Unmoved
<1> QED
  BY <1>4, <1>5, <1>6, <1>7, <1>8, CalendarIInv

\* Attendance taken on a calendar event.
LEMMA BoardTakeRollIInv ==
  ASSUME Board!IInv, NEW c \in Board!Cals, Board!TakeRoll(c)
  PROVE  Board!IInv'
<1>1. Board!TypeOK /\ Board!LinksInv
  BY DEF Board!IInv
<1>2. PICK o \in Board!CalRow : o = cal[c] /\ cal[c] # None
  BY <1>1 DEF Board!TakeRoll, Board!TypeOK
<1>3. PICK k \in Board!CalRow : k = [o EXCEPT !.roll = TRUE]
  BY DEF Board!CalRow
<1>4. k.plan = o.plan /\ k.service = o.service /\ k.published = o.published
  BY <1>3 DEF Board!CalRow
<1>5. cal' = [cal EXCEPT ![c] = k] /\ UNCHANGED <<board, used, boardPc, boardJob, strayed>>
  BY <1>1, <1>2, <1>3 DEF Board!TakeRoll, Board!TypeOK
<1>6. used' \in used..MaxCals /\ used <= used' /\ used' \in Nat /\ c <= used'
  BY <1>1, <1>2, <1>5 DEF Board!TypeOK, Board!LinksInv
<1>7. strayed \subseteq strayed' /\ strayed' \subseteq Board!Cals
  BY <1>1, <1>5 DEF Board!TypeOK
<1>8. BoardJobs' /\ Board!WorkersInv'
  BY <1>5, <1>6, Unmoved
<1> QED
  BY <1>2, <1>4, <1>5, <1>6, <1>7, <1>8, CalendarIInv

\* A calendar event that is not on the board is deleted.
LEMMA DropIInv ==
  ASSUME Board!IInv, NEW c \in Board!Cals, Board!Linked(c) = {}, UNCHANGED <<board, used, strayed>>,
         cal' = [cal EXCEPT ![c] = None], Board!Commit(None, None)
  PROVE  Board!IInv'
<1>1. Board!TypeOK /\ Board!WorkersInv
  BY DEF Board!IInv
<1>2. BoardBecomes(None, None)
  BY DEF BoardBecomes
<1>3. used' \in used..MaxCals /\ used <= used' /\ used' \in Nat
  BY <1>1 DEF Board!TypeOK
<1>4. BoardJobs' /\ Board!WorkersInv'
  BY <1>1, <1>2, <1>3, CommitWorkers
<1>5. strayed \subseteq strayed' /\ strayed' \subseteq Board!Cals
  BY <1>1 DEF Board!TypeOK
<1>6. PICK k \in Board!CalRow \cup {None} : k = None
  OBVIOUS
<1> QED
  BY <1>3, <1>4, <1>5, <1>6, CalendarIInv

\* deleteCalendar: the rows of the board that were linked go back to idea.
LEMMA DeleteCalendarIInv ==
  ASSUME Board!IInv, NEW c \in Board!Cals, Board!DeleteCalendar(c)
  PROVE  Board!IInv'
<1>1. Board!TypeOK /\ Board!LinksInv /\ Board!WorkersInv
  BY DEF Board!IInv
<1>2. /\ board'
          = [e \in Events |-> IF e \in Board!Linked(c) THEN Board!BackToIdea(board[e]) ELSE board[e]]
      /\ cal' = [cal EXCEPT ![c] = None] /\ Board!Commit(None, Board!LinkedTo(c))
      /\ UNCHANGED <<used, strayed>>
  BY DEF Board!DeleteCalendar
<1>3. CASE Board!Linked(c) = {}
  <2>1. board' = board
    BY <1>1, <1>2, <1>3 DEF Board!TypeOK
  <2>2. Board!Commit(None, None)
    BY <1>2, <1>3 DEF Board!LinkedTo
  <2> QED
    BY <1>2, <1>3, <2>1, <2>2, DropIInv
<1>4. CASE Board!Linked(c) # {}
  <2>1. PICK e : e = Board!LinkedTo(c)
    OBVIOUS
  <2>2. e \in Board!Linked(c) /\ Board!Linked(c) = {e} /\ e \in Events /\ board[e] # None
    BY <1>1, <1>4, <2>1 DEF Board!LinkedTo, Board!LinksInv, Board!Linked
  <2>3. PICK b : b = board[e]
    OBVIOUS
  <2>4. b \in Board!BoardRow /\ \A d \in Board!Cals : e \in Board!Linked(d) <=> b.link = d
    BY <2>2, <2>3, RowFacts
  <2>5. PICK r \in Board!BoardRow : r = Board!BackToIdea(b)
    BY <2>4 DEF Board!BackToIdea, Board!BoardRow, Board!Stages
  <2>6. r.stage = "idea" /\ r.link = None
    BY <2>4, <2>5 DEF Board!BackToIdea, Board!BoardRow
  <2>7. /\ board' \in [Events -> Board!BoardRow \cup {None}]
        /\ cal' \in [Board!Cals -> Board!CalRow \cup {None}]
        /\ \A f \in Events : board'[f] = IF f = e THEN r ELSE board[f]
        /\ \A d \in Board!Cals : cal'[d] = IF d = c THEN None ELSE cal[d]
    BY <1>1, <1>2, <2>2, <2>3, <2>5 DEF Board!TypeOK
  <2>8. used' \in used..MaxCals /\ used <= used' /\ used' \in Nat
    BY <1>1, <1>2 DEF Board!TypeOK
  <2>9. BoardBecomes(e, r)
    BY <2>6, <2>7 DEF BoardBecomes
  <2>10. BoardJobs' /\ Board!WorkersInv'
    BY <1>1, <1>2, <2>1, <2>8, <2>9, CommitWorkers
  <2>11. strayed \subseteq strayed' /\ strayed' \subseteq Board!Cals
    BY <1>1, <1>2 DEF Board!TypeOK
  <2>12. Board!CheckHolds(r) /\ ~Board!StageIsPublished(r.stage)
    BY <2>6 DEF Board!CheckHolds, Board!StageIsPublished
  <2>13. \A d \in Board!Cals : e \in Board!Linked(d) => d = c
    BY <2>2, <2>4
  <2>14. PICK k \in Board!CalRow \cup {None} : k = None
    OBVIOUS
  <2>15. \A d \in Board!Cals : cal'[d] = IF d = c THEN k ELSE cal[d]
    BY <2>7, <2>14
  <2>16. c # None /\ Board!Linked(c) \subseteq {e}
    BY <2>2 DEF Board!Cals
  <2>17. Become(e, r, c, k)
    BY <2>2, <2>6, <2>7, <2>8, <2>10, <2>11, <2>12, <2>13, <2>14, <2>15, <2>16 DEF Become
  <2>18. BoardFits(e, r, c)
    BY <2>2, <2>6, <2>7, <2>8, <2>10, <2>11, <2>12, <2>13, <2>14, <2>15, <2>16 DEF BoardFits
  <2>19. CalendarFits(e, r, c, k)
    BY <2>2, <2>6, <2>7, <2>8, <2>10, <2>11, <2>12, <2>13, <2>14, <2>15, <2>16 DEF CalendarFits
  <2> QED
    BY <2>10, <2>17, <2>18, <2>19, TablesIInv
<1> QED
  BY <1>3, <1>4

\* deleteServiceEvent: the rows that were linked lose the link (SET NULL).
LEMMA DeleteServiceEventIInv ==
  ASSUME Board!IInv, NEW c \in Board!Cals, Board!DeleteServiceEvent(c)
  PROVE  Board!IInv'
<1>1. Board!TypeOK
  BY DEF Board!IInv
<1>2. /\ Board!DeletionPasses(c)
      /\ board' = [e \in Events |-> IF e \in Board!Linked(c) THEN Board!SetNull(e, c) ELSE board[e]]
      /\ cal' = [cal EXCEPT ![c] = None] /\ Board!Commit(None, Board!LinkedTo(c))
      /\ UNCHANGED <<used, strayed>>
  BY DEF Board!DeleteServiceEvent
<1>3. Board!Linked(c) = {}
  <2> SUFFICES ASSUME NEW e \in Board!Linked(c) PROVE FALSE
    OBVIOUS
  <2>1. PICK b : b = board[e]
    OBVIOUS
  <2>2. e \in Events /\ b # None /\ b.link = c /\ c # None
    BY <2>1 DEF Board!Linked, Board!Cals
  <2>3. b \in Board!BoardRow /\ Board!CheckHolds(b)
    BY <2>1, <2>2, RowFacts
  <2>4. [b EXCEPT !.link = None].stage = b.stage /\ [b EXCEPT !.link = None].link = None
    BY <2>3 DEF Board!BoardRow
  <2>5. Board!CheckHolds([b EXCEPT !.link = None])
    BY <1>2, <2>1 DEF Board!DeletionPasses, Board!SetNull
  <2> QED
    BY <2>2, <2>3, <2>4, <2>5 DEF Board!CheckHolds
<1>4. board' = board
  BY <1>1, <1>2, <1>3 DEF Board!TypeOK
<1>5. Board!Commit(None, None)
  BY <1>2, <1>3 DEF Board!LinkedTo
<1> QED
  BY <1>2, <1>3, <1>4, <1>5, DropIInv

\* The tables stay.
LEMMA SameTables ==
  ASSUME Board!IInv, BoardJobs', Board!WorkersInv', UNCHANGED <<board, cal, used, strayed>>
  PROVE  Board!IInv'
<1>1. Board!TypeOK /\ Board!LinksInv /\ Board!OnTheBoard /\ Board!PublishedComplete
  BY DEF Board!IInv
<1>2. Board!TypeOK'
  BY <1>1 DEF Board!TypeOK, BoardJobs, BoardSteps
<1>3. Board!LinksInv'
  BY <1>1 DEF Board!LinksInv, Board!Linked
<1>4. Board!OnTheBoard'
  BY <1>1 DEF Board!OnTheBoard, Board!Linked
<1>5. Board!PublishedComplete'
  BY <1>1 DEF Board!PublishedComplete
<1> QED
  BY <1>2, <1>3, <1>4, <1>5 DEF Board!IInv

\* A request reads its row, which is the check it will rely on.
LEMMA ReadIInv ==
  ASSUME Board!IInv, NEW w \in Workers, NEW step \in BoardSteps, NEW e \in Events,
         NEW next \in Board!Stages, NEW body \in Board!Body, Board!Read(w, step, e, next, body),
         step = "staging" => Board!Gate(board[e], next),
         step = "updating" /\ Board!Frozen(board[e]) => body = Board!Untouched
  PROVE  Board!IInv'
<1>1. Board!TypeOK /\ Board!WorkersInv
  BY DEF Board!IInv
<1>2. PICK b : b = board[e]
  OBVIOUS
<1>3. PICK j : j = [event |-> e, row |-> b, next |-> next, body |-> body, overtaken |-> FALSE]
  OBVIOUS
<1>4. /\ b # None /\ boardPc' = [boardPc EXCEPT ![w] = step]
      /\ boardJob' = [boardJob EXCEPT ![w] = j]
      /\ UNCHANGED <<board, cal, used, strayed>>
  BY <1>2, <1>3 DEF Board!Read
<1>5. /\ b \in Board!BoardRow /\ Board!CheckHolds(b)
      /\ b.link # None => b.link \in Board!Cals /\ b.link <= used /\ Board!Linked(b.link) = {e}
  BY <1>2, <1>4, RowFacts
<1>6. j \in Board!Job
  BY <1>3, <1>5 DEF Board!Job
<1>7. BoardJobs'
  BY <1>1, <1>4, <1>6 DEF Board!TypeOK, BoardJobs, BoardSteps
<1>8. boardPc'[w] = step /\ boardJob'[w] = j
  BY <1>1, <1>4 DEF Board!TypeOK
<1>9. Board!WorkerOK(w)'
  <2>1. Board!Linked(b.link)' = Board!Linked(b.link)
    BY <1>4 DEF Board!Linked
  <2> QED
    BY <1>2, <1>3, <1>4, <1>5, <1>8, <2>1 DEF Board!WorkerOK
<1>10. BoardBecomes(None, None)
  BY <1>4 DEF BoardBecomes
<1>11. ASSUME NEW v \in Workers, v # w
       PROVE  boardPc'[v] = boardPc[v] /\ boardJob'[v] = boardJob[v]
  BY <1>1, <1>4, <1>11 DEF Board!TypeOK
<1>12. ASSUME NEW v \in Workers
       PROVE  \/ Board!WorkerOK(v)'
              \/ /\ boardPc'[v] = boardPc[v] /\ boardJob'[v].event = boardJob[v].event
                 /\ boardJob'[v].row = boardJob[v].row
                 /\ boardJob'[v].next = boardJob[v].next /\ boardJob'[v].body = boardJob[v].body
                 /\ ~boardJob'[v].overtaken =>
                      ~boardJob[v].overtaken
                         /\ (None \in Events /\ boardPc[v] # "idle" => boardJob[v].event # None)
  BY <1>9, <1>11
<1>13. used' \in Nat /\ used <= used'
  BY <1>1, <1>4 DEF Board!TypeOK
<1>14. Board!WorkersInv'
  BY <1>1, <1>10, <1>12, <1>13, ReadsStand
<1> QED
  BY <1>4, <1>7, <1>14, SameTables

\* A transaction that is rolled back leaves nothing.
LEMMA RollBackIInv ==
  ASSUME Board!IInv, NEW w \in Workers, Board!RollBack(w)
  PROVE  Board!IInv'
<1>1. Board!TypeOK /\ Board!WorkersInv
  BY DEF Board!IInv
<1>2. Board!Commit(w, None) /\ UNCHANGED <<board, cal, used, strayed>>
  BY DEF Board!RollBack
<1>3. BoardBecomes(None, None)
  BY <1>2 DEF BoardBecomes
<1>4. used' \in Nat /\ used <= used'
  BY <1>1, <1>2 DEF Board!TypeOK
<1>5. BoardJobs' /\ Board!WorkersInv'
  BY <1>1, <1>2, <1>3, <1>4, CommitWorkers
<1> QED
  BY <1>2, <1>5, SameTables

\* Any of the three requests starts.
LEMMA StartIInv ==
  ASSUME Board!IInv, NEW w \in Workers, Board!Start(w)
  PROVE  Board!IInv'
<1>1. /\ Board!Untouched \in Board!Body /\ "idea" \in Board!Stages
      /\ BoardSteps = {"idle", "staging", "updating", "deleting"}
  BY DEF Board!Untouched, Board!Body, Board!Stages, BoardSteps
<1>2. ASSUME NEW e \in Events, NEW next \in Board!Stages, Board!StartStage(w, e, next)
      PROVE Board!IInv'
  BY <1>1, <1>2, ReadIInv DEF Board!StartStage, Board!Read
<1>3. ASSUME NEW e \in Events, NEW body \in MCBodies, Board!StartUpdate(w, e, body) PROVE Board!IInv'
  BY <1>1, <1>3, BodiesFit, ReadIInv DEF Board!StartUpdate, Board!Read
<1>4. ASSUME NEW e \in Events, Board!StartDelete(w, e) PROVE Board!IInv'
  BY <1>1, <1>4, ReadIInv DEF Board!StartDelete
<1> QED
  BY <1>2, <1>3, <1>4 DEF Board!Start

\* The board starts empty.
LEMMA BoardInitIInv == Board!Init => Board!IInv
<1> SUFFICES ASSUME Board!Init PROVE Board!IInv
  OBVIOUS
<1>1. Board!TypeOK
  BY NullBoardJob DEF Board!Init, Board!TypeOK
<1>2. Board!LinksInv
  BY DEF Board!Init, Board!LinksInv, Board!Linked
<1>3. Board!WorkersInv
  BY DEF Board!Init, Board!WorkersInv, Board!WorkerOK
<1>4. Board!OnTheBoard /\ Board!PublishedComplete
  BY DEF Board!Init, Board!OnTheBoard, Board!PublishedComplete
<1> QED
  BY <1>1, <1>2, <1>3, <1>4 DEF Board!IInv

\* Nothing happens on the board.
LEMMA StutterIInv == Board!IInv /\ UNCHANGED Board!vars => Board!IInv'
<1> SUFFICES ASSUME Board!IInv, UNCHANGED Board!vars PROVE Board!IInv'
  OBVIOUS
<1>1. used' \in Nat /\ used <= used' /\ UNCHANGED <<board, cal, used, boardPc, boardJob, strayed>>
  BY DEF Board!vars, Board!IInv, Board!TypeOK
<1>2. BoardJobs' /\ Board!WorkersInv'
  BY <1>1, Unmoved
<1> QED
  BY <1>1, <1>2, SameTables

\* Each step of the board keeps IInv.
LEMMA NextIInv == Board!IInv /\ [Board!Next]_Board!vars => Board!IInv'
<1> SUFFICES ASSUME Board!IInv, [Board!Next]_Board!vars PROVE Board!IInv'
  OBVIOUS
<1>1. CASE UNCHANGED Board!vars
  BY <1>1, StutterIInv
<1>2. ASSUME NEW e \in Events, NEW plan \in MCPlans, Board!CreateProgrammingTask(e, plan)
      PROVE Board!IInv'
  BY <1>2, CreateTaskIInv
<1>3. ASSUME NEW w \in Workers,
             Board!Start(w) \/ Board!SetStage(w) \/ Board!UpdateProgrammingTask(w)
                \/ Board!DeleteProgrammingTask(w)
             \/ Board!RollBack(w)
      PROVE Board!IInv'
  BY <1>3, StartIInv, PromoteIInv, DemoteIInv, MoveLaterallyIInv, UpdateTaskIInv,
     DeleteTaskIInv, RollBackIInv DEF Board!SetStage
<1>4. CASE Board!OtherPages
  BY <1>4, DeleteCalendarIInv, DeleteServiceEventIInv, BoardTakeRollIInv, UpdateCalendarIInv,
     CreateServiceEventIInv DEF Board!OtherPages
<1> QED
  BY <1>1, <1>2, <1>3, <1>4 DEF Board!Next

\* Programming: IInv, the tables with what each request has read of them, holds in every
\* reachable state of the board, for any events, plans and number of requests.
THEOREM BoardInductive == Board!Spec => []Board!IInv
BY BoardInitIInv, NextIInv, PTL DEF Board!Spec

\* setStage, updateProgrammingTask, deleteProgrammingTask: an event of the board has a
\* calendar event of its own exactly while it is published, and no calendar event that the
\* board made outlives its row, but for what overtaken requests strayed.
THEOREM OnTheBoardAlways == Board!Spec => []OnTheBoard
<1>1. Board!IInv => OnTheBoard
  BY DEF Board!IInv, OnTheBoard
<1> QED
  BY <1>1, BoardInductive, PTL

\* REQUIRED_FIELDS, canEnter: what is confirmed or done has what Confirmed asks for, whatever
\* updates and deletions ran between the check and the write.
THEOREM PublishedCompleteAlways == Board!Spec => []PublishedComplete
<1>1. Board!IInv => PublishedComplete
  BY DEF Board!IInv, PublishedComplete
<1> QED
  BY <1>1, BoardInductive, PTL

\* needsConfirmFirst: an event gets to Done from Confirmed only.
THEOREM DoneAfterConfirmAlways == Board!Spec => DoneAfterConfirm
<1>1. ASSUME Board!IInv, Board!Next, NEW e \in Events, board[e] # None, board'[e] # None,
             board'[e].stage = "done"
      PROVE  board[e].stage \in {"confirmed", "done"}
  <2>1. PICK b : b = board[e]
    OBVIOUS
  <2>2. b \in Board!BoardRow /\ Board!CheckHolds(b)
    BY <1>1, <2>1, RowFacts
  <2>3. Board!TypeOK
    BY <1>1 DEF Board!IInv
  <2>4. CASE board'[e] = b
    BY <1>1, <2>1, <2>2, <2>4
  <2>5. ASSUME NEW w \in Workers, Board!SetStage(w) PROVE b.stage \in {"confirmed", "done"}
    <3>1. PICK j : j = boardJob[w]
      OBVIOUS
    <3>2. boardPc[w] = "staging"
      BY <2>5 DEF Board!SetStage, Board!Promote, Board!Demote, Board!MoveLaterally
    <3>3. /\ j \in Board!Job /\ j.row \in Board!BoardRow /\ Board!CheckHolds(j.row)
          /\ Board!Gate(j.row, j.next)
          /\ j.event \in Events
      BY <1>1, <3>1, <3>2, Knows
    <3>4. CASE Board!Promote(w)
      <4>1. Board!StageIsPublished(j.next) /\ j.row.link = None
            /\ board' = [board EXCEPT ![j.event] = [@ EXCEPT !.stage = j.next, !.link = used + 1]]
        BY <3>1, <3>4 DEF Board!Promote
      <4>2. j.next # "done"
        BY <3>3, <4>1
           DEF Board!Gate, Board!NeedsConfirmFirst, Board!Order, Board!CheckHolds,
               Board!StageIsPublished, Board!BoardRow,
           Board!Stages
      <4>3. CASE e = j.event
        <5>1. board'[e] = [b EXCEPT !.stage = j.next, !.link = used + 1]
          BY <2>1, <2>3, <3>3, <4>1, <4>3 DEF Board!TypeOK
        <5>2. board'[e].stage = j.next
          BY <2>2, <5>1 DEF Board!BoardRow
        <5> QED
          BY <1>1, <4>2, <5>2
      <4>4. CASE e # j.event
        BY <2>1, <2>3, <2>4, <4>1, <4>4 DEF Board!TypeOK
      <4> QED
        BY <4>3, <4>4
    <3>5. CASE Board!Demote(w)
      <4>1. ~Board!StageIsPublished(j.next)
            /\ board' = [board EXCEPT ![j.event] = [@ EXCEPT !.stage = j.next, !.link = None]]
        BY <3>1, <3>5 DEF Board!Demote
      <4>2. CASE e = j.event
        <5>1. board'[e] = [b EXCEPT !.stage = j.next, !.link = None]
          BY <2>1, <2>3, <3>3, <4>1, <4>2 DEF Board!TypeOK
        <5>2. board'[e].stage = j.next
          BY <2>2, <5>1 DEF Board!BoardRow
        <5> QED
          BY <1>1, <4>1, <5>2 DEF Board!StageIsPublished
      <4>3. CASE e # j.event
        BY <2>1, <2>3, <2>4, <4>1, <4>3 DEF Board!TypeOK
      <4> QED
        BY <4>2, <4>3
    <3>6. CASE Board!MoveLaterally(w)
      <4>1. Board!CheckHolds([board[j.event] EXCEPT !.stage = j.next])
            /\ board' = [board EXCEPT ![j.event] = [@ EXCEPT !.stage = j.next]]
        BY <3>1, <3>6 DEF Board!MoveLaterally
      <4>2. CASE e = j.event
        <5>1. PICK r : r = [b EXCEPT !.stage = j.next]
          OBVIOUS
        <5>2. board'[e] = r /\ Board!CheckHolds(r)
          BY <2>1, <2>3, <3>3, <4>1, <4>2, <5>1 DEF Board!TypeOK
        <5>3. r.stage = j.next /\ r.link = b.link
          BY <2>2, <5>1 DEF Board!BoardRow
        <5> QED
          BY <1>1, <2>2, <5>2, <5>3 DEF Board!CheckHolds, Board!StageIsPublished
      <4>3. CASE e # j.event
        BY <2>1, <2>3, <2>4, <4>1, <4>3 DEF Board!TypeOK
      <4> QED
        BY <4>2, <4>3
    <3> QED
      BY <2>5, <3>4, <3>5, <3>6 DEF Board!SetStage
  <2>6. ASSUME NEW f \in Events, NEW plan \in MCPlans, Board!CreateProgrammingTask(f, plan)
        PROVE  board'[e] = b
    BY <1>1, <2>1, <2>3, <2>6 DEF Board!CreateProgrammingTask, Board!TypeOK
  <2>7. ASSUME NEW w \in Workers, Board!UpdateProgrammingTask(w)
        PROVE  board'[e].stage = b.stage
    <3>1. PICK j : j = boardJob[w]
      OBVIOUS
    <3>0. PICK plan : plan = Board!Onto(board[j.event].plan, j.body)
      OBVIOUS
    <3>2. board' = [board EXCEPT ![j.event] = [@ EXCEPT !.plan = plan]]
      BY <2>7, <3>0, <3>1 DEF Board!UpdateProgrammingTask
    <3>3. board'[e] = b \/ board'[e] = [b EXCEPT !.plan = plan]
      BY <2>1, <2>3, <3>2 DEF Board!TypeOK
    <3> QED
      BY <2>2, <3>3 DEF Board!BoardRow
  <2>8. ASSUME NEW w \in Workers, Board!DeleteProgrammingTask(w)
        PROVE  board'[e] = b
    BY <1>1, <2>1, <2>3, <2>8 DEF Board!DeleteProgrammingTask, Board!TypeOK
  <2>9. ASSUME NEW c \in Board!Cals, Board!DeleteCalendar(c)
        PROVE  board'[e] = b \/ board'[e].stage = "idea"
    <3>1. board'[e] = b \/ board'[e] = [b EXCEPT !.stage = "idea", !.link = None]
      BY <2>1, <2>3, <2>9 DEF Board!DeleteCalendar, Board!BackToIdea, Board!TypeOK
    <3> QED
      BY <2>2, <3>1 DEF Board!BoardRow
  <2>10. ASSUME NEW c \in Board!Cals, Board!DeleteServiceEvent(c)
         PROVE  board'[e].stage = b.stage
    <3>1. board'[e] = b \/ board'[e] = [b EXCEPT !.link = None]
      BY <2>1, <2>3, <2>10 DEF Board!DeleteServiceEvent, Board!SetNull, Board!TypeOK
    <3> QED
      BY <2>2, <3>1 DEF Board!BoardRow
  <2>11. CASE UNCHANGED board
    BY <2>1, <2>4, <2>11
  <2> QED
    BY <1>1, <2>1, <2>4, <2>5, <2>6, <2>7, <2>8, <2>9, <2>10, <2>11
       DEF Board!Next, Board!Start, Board!StartStage, Board!StartUpdate, Board!StartDelete,
           Board!Read, Board!RollBack, Board!OtherPages,
           Board!TakeRoll, Board!UpdateCalendar, Board!CreateServiceEvent
<1>2. Board!IInv /\ [Board!Next]_Board!vars =>
        [\A e \in Events :
           board[e] # None /\ board'[e] # None =>
             (board'[e].stage = "done" => board[e].stage \in {"confirmed", "done"})]_Board!vars
  BY <1>1
<1> QED
  BY BoardInductive, <1>2, PTL DEF Board!Spec, DoneAfterConfirm, Board!DoneAfterConfirm

HIDE BoardAssumption

-----------------------------------------------------------------------------
(* Parties *)

USE NightAssumption

NightSteps == {"idle", "completing", "rolling", "linking", "taking", "deleting", "cleaning"}

\* A request that is idle holds a record of the right type, about no party.
LEMMA NullNightJob ==
  /\ Night!NoJob \in Night!Job
  /\ Night!NoJob.party = None /\ Night!NoJob.link = 0 /\ Night!NoJob.event = 0
  /\ Night!NoJob.missed = {}
BY DEF Night!NoJob, Night!Job

\* Nothing happens to a request v: what it is at, holds and knows; at the other parties'
\* events; and at the hands of w, who may link its event.
Undisturbed(v, w) ==
  /\ partyPc'[v] = partyPc[v] /\ partyJob'[v].party = partyJob[v].party
  /\ partyJob'[v].link = partyJob[v].link
  /\ partyJob'[v].event = partyJob[v].event /\ partyJob[v].missed \subseteq partyJob'[v].missed
  /\ created' \in Nat /\ created <= created'
  /\ \A p \in Nights :
       /\ party[p].state = "deleted" => party'[p].state = "deleted"
       /\ \/ party'[p].event \in {0, party[p].event}
          \/ /\ w \in Workers \ {v} /\ partyPc[w] = "linking" /\ party'[p].event = partyJob[w].event
             /\ partyJob[v].party = p => partyJob[w].event \in partyJob'[v].missed
  /\ \A u \in Workers : partyPc'[u] = "linking" =>
       \/ partyPc[u] = "linking" /\ partyJob'[u].event = partyJob[u].event
       \/ partyJob'[u].event \notin 0..created

\* What v has read stays true for v when another request moves.
LEMMA OthersStand ==
  ASSUME Night!TypeOK, Night!WorkersInv, NEW v \in Workers, NEW w, Undisturbed(v, w)
  PROVE  Night!WorkerOK(v)'
<1>1. PICK j \in Night!Job : j = partyJob[v]
  BY DEF Night!TypeOK
<1>2. PICK k : k = partyJob'[v]
  OBVIOUS
<1>3. /\ partyPc'[v] = partyPc[v] /\ k.party = j.party /\ k.link = j.link
      /\ k.event = j.event /\ j.missed \subseteq k.missed
      /\ created \in Nat /\ created' \in Nat /\ created <= created'
  BY <1>1, <1>2 DEF Undisturbed, Night!TypeOK
<1>4. /\ partyPc[v] # "idle" => j.party \in Nights
      /\ partyPc[v] \in {"completing", "rolling", "linking", "deleting"} =>
           party[j.party].event \in {0, j.link} \cup j.missed
      /\ partyPc[v] = "linking" => j.link = 0 /\ Night!Fresh(v)
      /\ partyPc[v] \in {"deleting", "cleaning"} /\ j.link # 0 => Night!Settled(v)
      /\ partyPc[v] = "cleaning" => j.link # 0 /\ party[j.party].state = "deleted"
  BY <1>1 DEF Night!WorkersInv, Night!WorkerOK
<1>5. ASSUME NEW p \in Nights
      PROVE  /\ party[p].state = "deleted" => party'[p].state = "deleted"
             /\ \/ party'[p].event \in {0, party[p].event}
                \/ /\ w \in Workers \ {v} /\ partyPc[w] = "linking"
                   /\ party'[p].event = partyJob[w].event
                   /\ j.party = p => partyJob[w].event \in k.missed
  BY <1>1, <1>2 DEF Undisturbed
<1>6. ASSUME partyPc[v] \in {"completing", "rolling", "linking", "deleting"}
      PROVE  party'[j.party].event \in {0, j.link} \cup k.missed
  BY <1>3, <1>4, <1>5, <1>6
<1>7. ASSUME partyPc[v] = "linking" PROVE Night!Fresh(v)'
  <2>1. /\ j.event \in 1..created /\ \A p \in Nights : party[p].event # j.event
        /\ \A u \in Workers \ {v} : partyPc[u] = "linking" => partyJob[u].event # j.event
    BY <1>1, <1>4, <1>7 DEF Night!Fresh, Night!Owned
  <2>2. j.event \in 1..created'
    BY <1>3, <2>1
  <2>3. \A p \in Nights : party'[p].event # j.event
    BY <1>5, <2>1
  <2>4. ASSUME NEW u \in Workers \ {v}, partyPc'[u] = "linking" PROVE partyJob'[u].event # j.event
    <3>1. \/ partyPc[u] = "linking" /\ partyJob'[u].event = partyJob[u].event
          \/ partyJob'[u].event \notin 0..created
      BY <2>4 DEF Undisturbed
    <3> QED
      BY <1>3, <2>1, <3>1
  <2> QED
    BY <1>2, <1>3, <2>2, <2>3, <2>4 DEF Night!Fresh, Night!Owned
<1>8. ASSUME partyPc[v] \in {"deleting", "cleaning"}, j.link # 0 PROVE Night!Settled(v)'
  <2>1. /\ j.link \in 1..created
        /\ \A p \in Nights : party[p].event = j.link => p = j.party
        /\ \A u \in Workers : partyPc[u] = "linking" => partyJob[u].event # j.link
    BY <1>1, <1>4, <1>8 DEF Night!Settled
  <2>2. j.link \in 1..created'
    BY <1>3, <2>1
  <2>3. \A p \in Nights : party'[p].event = j.link => p = j.party
    BY <1>5, <1>8, <2>1
  <2>4. ASSUME NEW u \in Workers, partyPc'[u] = "linking" PROVE partyJob'[u].event # j.link
    <3>1. \/ partyPc[u] = "linking" /\ partyJob'[u].event = partyJob[u].event
          \/ partyJob'[u].event \notin 0..created
      BY <2>4 DEF Undisturbed
    <3> QED
      BY <1>3, <2>1, <3>1
  <2> QED
    BY <1>2, <1>3, <2>2, <2>3, <2>4 DEF Night!Settled
<1>9. partyPc[v] = "cleaning" => j.link # 0 /\ party'[j.party].state = "deleted"
  BY <1>4, <1>5
<1> QED
  BY <1>2, <1>3, <1>4, <1>6, <1>7, <1>8, <1>9 DEF Night!WorkerOK

\* Nobody but w moves, w links nothing, and no event comes or goes.
LEMMA LightIInv ==
  ASSUME Night!IInv, NEW w, UNCHANGED <<rollEvents, created>>,
         partyPc' \in [Workers -> NightSteps], partyJob' \in [Workers -> Night!Job],
         \A v \in Workers : v # w => partyPc'[v] = partyPc[v] /\ partyJob'[v] = partyJob[v],
         w \in Workers => Night!WorkerOK(w)' /\ partyPc'[w] # "linking",
         w \in Workers /\ partyPc[w] \in {"linking", "cleaning"}
            /\ Night!Holding(w) \in rollEvents =>
           Night!Holding(w) \in stranded',
         party' \in [Nights -> Night!Party],
         \A p \in Nights : party'[p].event = party[p].event,
         \A p \in Nights : party[p].state # "new" => party'[p].state = party[p].state,
         mandatory' \subseteq rollEvents, rolled' \subseteq rollEvents,
         stranded \subseteq stranded', stranded' \subseteq Night!Ids
  PROVE  Night!IInv'
<1>1. Night!TypeOK /\ Night!WorkersInv /\ Night!PartyBacked
  BY DEF Night!IInv
<1>2. Night!TypeOK'
  BY <1>1 DEF Night!TypeOK, Night!Live, NightSteps
<1>3. ASSUME NEW v \in Workers PROVE Night!WorkerOK(v)'
  <2>1. CASE v = w
    BY <2>1
  <2>2. CASE v # w
    <3>1. Undisturbed(v, w)
      BY <1>1, <2>2 DEF Undisturbed, Night!TypeOK
    <3> QED
      BY <1>1, <3>1, OthersStand
  <2> QED
    BY <2>1, <2>2
<1>4. Night!PartyBacked'
  <2> SUFFICES ASSUME NEW e \in rollEvents, e \notin stranded'
               PROVE  Night!Owned(e)' \/ Night!InHand(e)'
    BY DEF Night!PartyBacked
  <2>1. CASE Night!Owned(e)
    BY <2>1 DEF Night!Owned
  <2>2. CASE Night!InHand(e)
    <3>1. PICK v \in Workers : partyPc[v] \in {"linking", "cleaning"} /\ Night!Holding(v) = e
      BY <2>2 DEF Night!InHand
    <3>2. v # w
      BY <3>1
    <3> QED
      BY <3>1, <3>2 DEF Night!InHand, Night!Holding
  <2> QED
    BY <1>1, <2>1, <2>2 DEF Night!PartyBacked
<1> QED
  BY <1>2, <1>3, <1>4 DEF Night!IInv, Night!WorkersInv

\* The same, of a request that goes from one step to another.
LEMMA GoIInv ==
  ASSUME Night!IInv, NEW w \in Workers, NEW step \in NightSteps, NEW j \in Night!Job,
         Night!Go(w, step, j),
         UNCHANGED <<rollEvents, created>>,
         step # "linking",
         step # "idle" => j.party \in Nights,
         step \in {"completing", "rolling", "deleting"} =>
           party'[j.party].event \in {0, j.link} \cup j.missed,
         step = "deleting" /\ j.link # 0 =>
           /\ j.link \in 1..created
           /\ \A p \in Nights : party[p].event = j.link => p = j.party
           /\ \A v \in Workers : partyPc[v] = "linking" => partyJob[v].event # j.link,
         step # "cleaning",
         partyPc[w] \in {"linking", "cleaning"} /\ Night!Holding(w) \in rollEvents =>
             Night!Holding(w) \in stranded',
         party' \in [Nights -> Night!Party],
         \A p \in Nights : party'[p].event = party[p].event,
         \A p \in Nights : party[p].state # "new" => party'[p].state = party[p].state,
         mandatory' \subseteq rollEvents, rolled' \subseteq rollEvents,
         stranded \subseteq stranded', stranded' \subseteq Night!Ids
  PROVE  Night!IInv'
<1>1. Night!TypeOK
  BY DEF Night!IInv
<1>2. /\ partyPc' \in [Workers -> NightSteps] /\ partyJob' \in [Workers -> Night!Job]
      /\ \A v \in Workers : v # w => partyPc'[v] = partyPc[v] /\ partyJob'[v] = partyJob[v]
      /\ partyPc'[w] = step /\ partyJob'[w] = j
  BY <1>1 DEF Night!Go, Night!TypeOK, NightSteps
<1>3. Night!WorkerOK(w)'
  <2>1. step = "deleting" /\ j.link # 0 => Night!Settled(w)'
    BY <1>2 DEF Night!Settled
  <2> QED
    BY <1>2, <2>1 DEF Night!WorkerOK
<1> QED
  BY <1>2, <1>3, LightIInv

\* The types of IInv.
LEMMA Tables ==
  ASSUME Night!IInv
  PROVE  /\ party \in [Nights -> Night!Party] /\ partyJob \in [Workers -> Night!Job]
         /\ partyPc \in [Workers -> NightSteps]
         /\ mandatory \subseteq rollEvents /\ rolled \subseteq rollEvents
         /\ stranded \subseteq Night!Ids
         /\ created \in Nat /\ rollEvents \subseteq 1..created /\ rollEvents \subseteq Night!Ids
BY DEF Night!IInv, Night!TypeOK, NightSteps, Night!Ids

\* What a request knows.
LEMMA NightKnows ==
  ASSUME Night!IInv, NEW w \in Workers, NEW j, j = partyJob[w], partyPc[w] # "idle"
  PROVE  /\ j \in Night!Job /\ j.party \in Nights
         /\ partyPc[w] \in {"completing", "rolling", "linking", "deleting"} =>
              party[j.party].event \in {0, j.link} \cup j.missed
         /\ partyPc[w] = "linking" => j.link = 0 /\ Night!Fresh(w)
         /\ partyPc[w] \in {"deleting", "cleaning"} /\ j.link # 0 => Night!Settled(w)
         /\ partyPc[w] = "cleaning" => j.link # 0 /\ party[j.party].state = "deleted"
BY DEF Night!IInv, Night!TypeOK, Night!WorkersInv, Night!WorkerOK

\* The wrap-up form reads a party and its link.
LEMMA StartWrapUpIInv ==
  ASSUME Night!IInv, NEW w \in Workers, NEW p \in Nights, NEW roll \in BOOLEAN,
         NEW required \in BOOLEAN, Night!StartWrapUp(w, p, roll, required)
  PROVE  Night!IInv'
<1>1. party[p].event \in Night!Ids \cup {0} /\ party \in [Nights -> Night!Party]
  BY Tables DEF Night!Party
<1>2. PICK j \in Night!Job : /\ j = [Night!NoJob EXCEPT !.party = p, !.link = Night!Link(p),
                                            !.roll = roll, !.mandatory = required]
                       /\ j.party = p /\ j.link = party[p].event
  <2>1. [Night!NoJob EXCEPT !.party = p, !.link = Night!Link(p), !.roll = roll,
      !.mandatory = required] \in Night!Job
    BY <1>1, NullNightJob DEF Night!Link, Night!Job
  <2>2. PICK j \in Night!Job : j = [Night!NoJob EXCEPT !.party = p, !.link = Night!Link(p),
                                           !.roll = roll, !.mandatory = required]
    BY <2>1
  <2>3. j.party = p /\ j.link = party[p].event
    BY <2>2, NullNightJob DEF Night!Link, Night!Job
  <2> QED
    BY <2>2, <2>3
<1>3. /\ Night!Go(w, "completing", j) /\ partyPc[w] = "idle"
      /\ UNCHANGED <<party, rollEvents, mandatory, rolled, created, stranded>>
  BY <1>2 DEF Night!StartWrapUp, Night!calendar
<1>4. "completing" \in NightSteps
  BY DEF NightSteps
<1> QED
  BY <1>1, <1>2, <1>3, <1>4, Tables, GoIInv

\* updateParty: the party is completed.
LEMMA CompleteIInv ==
  ASSUME Night!IInv, NEW w \in Workers, Night!Complete(w)
  PROVE  Night!IInv'
<1>1. PICK j \in Night!Job : j = partyJob[w]
  BY Tables
<1>2. /\ partyPc[w] = "completing"
      /\ party' = [party EXCEPT ![j.party].completed = TRUE]
      /\ UNCHANGED <<rollEvents, mandatory, rolled, created, stranded>>
      /\ j.roll => Night!Go(w, "rolling", j)
      /\ ~j.roll => Night!Go(w, "idle", Night!NoJob)
  BY <1>1 DEF Night!Complete, Night!Finish, Night!calendar
<1>3. j.party \in Nights /\ party[j.party].event \in {0, j.link} \cup j.missed
  BY <1>1, <1>2, NightKnows
<1>4. /\ party' \in [Nights -> Night!Party]
      /\ \A p \in Nights : party'[p].event = party[p].event /\ party'[p].state = party[p].state
  BY <1>2, Tables DEF Night!Party
<1>5. "rolling" \in NightSteps /\ "idle" \in NightSteps
  BY DEF NightSteps
<1>6. CASE j.roll
  BY <1>2, <1>3, <1>4, <1>5, <1>6, Tables, GoIInv
<1>7. CASE ~j.roll
  BY <1>2, <1>3, <1>4, <1>5, <1>7, Tables, NullNightJob, GoIInv
<1> QED
  BY <1>6, <1>7

\* The party has an event already: the roll is taken on that one.
LEMMA KeepEventIInv ==
  ASSUME Night!IInv, NEW w \in Workers, Night!KeepEvent(w)
  PROVE  Night!IInv'
<1>1. PICK j \in Night!Job : j = partyJob[w]
  BY Tables
<1>2. PICK e : e = j.link
  OBVIOUS
<1>3. PICK k : k = [j EXCEPT !.event = e]
  OBVIOUS
<1>4. /\ partyPc[w] = "rolling" /\ e \in rollEvents /\ mandatory' \subseteq mandatory \cup {e}
      /\ Night!Go(w, "taking", k) /\ UNCHANGED <<party, rollEvents, rolled, created, stranded>>
  BY <1>1, <1>2, <1>3 DEF Night!KeepEvent, Night!Marked
<1>5. k \in Night!Job /\ k.party = j.party
  BY <1>3, <1>4, Tables DEF Night!Job
<1>6. j.party \in Nights
  BY <1>1, <1>4, NightKnows
<1>7. "taking" \in NightSteps
  BY DEF NightSteps
<1>8. mandatory' \subseteq rollEvents
  BY <1>4, Tables
<1> QED
  BY <1>4, <1>5, <1>6, <1>7, <1>8, Tables, GoIInv

\* The roll is taken.
LEMMA TakeRollIInv ==
  ASSUME Night!IInv, NEW w \in Workers, Night!TakeRoll(w)
  PROVE  Night!IInv'
<1>1. /\ partyPc[w] = "taking" /\ rolled' \subseteq rollEvents /\ Night!Go(w, "idle", Night!NoJob)
      /\ UNCHANGED <<party, rollEvents, mandatory, created, stranded>>
  BY Tables DEF Night!TakeRoll, Night!Finish
<1>2. "idle" \in NightSteps
  BY DEF NightSteps
<1> QED
  BY <1>1, <1>2, Tables, NullNightJob, GoIInv

\* The deletion reads a party and its link.
LEMMA StartDeleteIInv ==
  ASSUME Night!IInv, NEW w \in Workers, NEW p \in Nights, Night!StartDelete(w, p)
  PROVE  Night!IInv'
<1>1. PICK l \in Night!Ids \cup {0} : l = party[p].event
  BY Tables DEF Night!Party
<1>2. PICK j \in Night!Job :
        j = [Night!NoJob EXCEPT !.party = p, !.link = l] /\ j.party = p /\ j.link = l
  <2>1. PICK j \in Night!Job : j = [Night!NoJob EXCEPT !.party = p, !.link = l]
    BY NullNightJob DEF Night!Job
  <2>2. j.party = p /\ j.link = l
    BY <2>1, NullNightJob DEF Night!Job
  <2> QED
    BY <2>1, <2>2
<1>3. /\ Night!Go(w, "deleting", j) /\ partyPc[w] = "idle"
      /\ UNCHANGED <<party, rollEvents, mandatory, rolled, created, stranded>>
  BY <1>1, <1>2 DEF Night!StartDelete, Night!calendar
<1>4. ASSUME l # 0
      PROVE  /\ l \in 1..created
             /\ \A q \in Nights : party[q].event = l => q = p
             /\ \A v \in Workers : partyPc[v] = "linking" => partyJob[v].event # l
  <2>1. l \in rollEvents
    BY <1>1, <1>4 DEF Night!IInv, Night!TypeOK
  <2>2. \A q \in Nights : party[q].event = l => q = p
    BY <1>1, <1>4 DEF Night!IInv, Night!TypeOK
  <2>3. \A v \in Workers : partyPc[v] = "linking" => partyJob[v].event # l
    BY <1>1 DEF Night!IInv, Night!WorkersInv, Night!WorkerOK, Night!Fresh, Night!Owned
  <2> QED
    BY <2>1, <2>2, <2>3, Tables
<1>5. "deleting" \in NightSteps
  BY DEF NightSteps
<1> QED
  BY <1>1, <1>2, <1>3, <1>4, <1>5, Tables, GoIInv

\* A request dies between two calls.
LEMMA DieIInv ==
  ASSUME Night!IInv, NEW w \in Workers, Night!Die(w)
  PROVE  Night!IInv'
<1>1. /\ stranded' = IF partyPc[w] \in {"linking", "cleaning"} /\ Night!Holding(w) \in rollEvents
                     THEN stranded \cup {Night!Holding(w)} ELSE stranded
      /\ Night!Go(w, "idle", Night!NoJob)
      /\ UNCHANGED <<party, rollEvents, mandatory, rolled, created>>
  BY DEF Night!Die, Night!Finish, Night!calendar
<1>2. /\ stranded \subseteq stranded' /\ stranded' \subseteq Night!Ids
      /\ partyPc[w] \in {"linking", "cleaning"} /\ Night!Holding(w) \in rollEvents =>
           Night!Holding(w) \in stranded'
  BY <1>1, Tables
<1>3. "idle" \in NightSteps
  BY DEF NightSteps
<1> QED
  BY <1>1, <1>2, <1>3, Tables, NullNightJob, GoIInv

\* A step that is no request's.
LEMMA NobodyIInv ==
  ASSUME Night!IInv, UNCHANGED <<rollEvents, created, partyPc, partyJob, stranded>>,
         party' \in [Nights -> Night!Party],
         \A p \in Nights : party'[p].event = party[p].event,
         \A p \in Nights : party[p].state # "new" => party'[p].state = party[p].state,
         mandatory' \subseteq rollEvents, rolled' \subseteq rollEvents
  PROVE  Night!IInv'
<1>1. PICK w : w \notin Workers
  <2>1. \E w : w \notin Workers
    <3> DEFINE R == {x \in Workers : x \notin x}
    <3>1. R \notin Workers
      OBVIOUS
    <3> QED
      BY <3>1
  <2> QED
    BY <2>1
<1> QED
  BY <1>1, Tables, LightIInv

\* createParty.
LEMMA CreatePartyIInv ==
  ASSUME Night!IInv, NEW p \in Nights, Night!CreateParty(p)
  PROVE  Night!IInv'
<1>1. /\ party[p].state = "new" /\ party' = [party EXCEPT ![p].state = "live"]
      /\ UNCHANGED <<rollEvents, mandatory, rolled, created, partyPc, partyJob, stranded>>
  BY DEF Night!CreateParty, Night!calendar
<1>2. /\ party' \in [Nights -> Night!Party]
      /\ \A q \in Nights : party'[q].event = party[q].event
      /\ \A q \in Nights : party[q].state # "new" => party'[q].state = party[q].state
  BY <1>1, Tables DEF Night!Party
<1> QED
  BY <1>1, <1>2, Tables, NobodyIInv

\* updateParty of the parties page.
LEMMA UpdatePartyIInv ==
  ASSUME Night!IInv, NEW p \in Nights, NEW completed \in BOOLEAN, Night!UpdateParty(p, completed)
  PROVE  Night!IInv'
<1>1. /\ party' = [party EXCEPT ![p].completed = completed]
      /\ UNCHANGED <<rollEvents, mandatory, rolled, created, partyPc, partyJob, stranded>>
  BY DEF Night!UpdateParty, Night!calendar
<1>2. /\ party' \in [Nights -> Night!Party]
      /\ \A q \in Nights : party'[q].event = party[q].event
      /\ \A q \in Nights : party[q].state # "new" => party'[q].state = party[q].state
  BY <1>1, Tables DEF Night!Party
<1> QED
  BY <1>1, <1>2, Tables, NobodyIInv

\* Attendance or a requirement on an event of the calendar.
LEMMA ReferIInv ==
  ASSUME Night!IInv, NEW e \in Night!Ids, Night!Refer(e) \/ Night!EraseRoll(e)
  PROVE  Night!IInv'
<1>1. rolled' \subseteq rollEvents
      /\ UNCHANGED <<party, rollEvents, mandatory, created, partyPc, partyJob, stranded>>
  BY Tables DEF Night!Refer, Night!EraseRoll
<1> QED
  BY <1>1, Tables, NobodyIInv

\* createCalendarEvent for the roll: a new event, in nobody's hands but the request's.
LEMMA CreateEventIInv ==
  ASSUME Night!IInv, NEW w \in Workers, Night!CreateEvent(w)
  PROVE  Night!IInv'
<1>1. Night!TypeOK /\ Night!WorkersInv /\ Night!PartyBacked
  BY DEF Night!IInv
<1>2. PICK j \in Night!Job : j = partyJob[w]
  BY Tables
<1>3. PICK e : e = created + 1
  OBVIOUS
<1>4. PICK k : k = [j EXCEPT !.event = e]
  OBVIOUS
<1>5. /\ partyPc[w] = "rolling" /\ j.link = 0 /\ e \in Night!Ids /\ created' = e
      /\ rollEvents' = rollEvents \cup {e} /\ mandatory' \subseteq mandatory \cup {e}
      /\ partyPc' = [partyPc EXCEPT ![w] = "linking"] /\ partyJob' = [partyJob EXCEPT ![w] = k]
      /\ UNCHANGED <<party, rolled, stranded>>
  BY <1>2, <1>3, <1>4 DEF Night!CreateEvent, Night!Marked, Night!Go
<1>6. k \in Night!Job /\ k.party = j.party /\ k.link = 0 /\ k.event = e /\ k.missed = j.missed
  BY <1>4, <1>5 DEF Night!Job
<1>7. created \in Nat /\ e \in Nat /\ e = created + 1 /\ created' = e /\ e \notin 0..created
      /\ e \in 1..created' /\ created <= created' /\ created' \in 0..MaxRolls
  BY <1>1, <1>3, <1>5 DEF Night!TypeOK, Night!Ids
<1>8. \A v \in Workers : /\ partyPc'[v] = IF v = w THEN "linking" ELSE partyPc[v]
                         /\ partyJob'[v] = IF v = w THEN k ELSE partyJob[v]
  BY <1>5, Tables
<1>9. Night!TypeOK'
  <2>1. partyPc' \in [Workers -> NightSteps] /\ partyJob' \in [Workers -> Night!Job]
    BY <1>5, <1>6, Tables DEF NightSteps
  <2>2. /\ rollEvents' \subseteq 1..created' /\ mandatory' \subseteq rollEvents'
        /\ rolled' \subseteq rollEvents'
    BY <1>1, <1>5, <1>7 DEF Night!TypeOK
  <2> QED
    BY <1>1, <1>5, <1>7, <2>1, <2>2 DEF Night!TypeOK, NightSteps, Night!Live
<1>10. ASSUME NEW v \in Workers \ {w} PROVE Night!WorkerOK(v)'
  <2>1. Undisturbed(v, w)
    BY <1>1, <1>5, <1>6, <1>7, <1>8 DEF Undisturbed
  <2> QED
    BY <1>1, <2>1, OthersStand
<1>11. Night!WorkerOK(w)'
  <2>1. j.party \in Nights /\ party[j.party].event \in {0} \cup j.missed
    BY <1>2, <1>5, NightKnows
  <2>2. \A p \in Nights : party'[p].event # e
    <3>1. \A p \in Nights : party[p].event \in rollEvents \cup {0}
      BY <1>1 DEF Night!TypeOK
    <3> QED
      BY <1>5, <1>7, <3>1, Tables
  <2>3. \A v \in Workers \ {w} : partyPc'[v] = "linking" => partyJob'[v].event # e
    <3>1. \A v \in Workers : partyPc[v] = "linking" => partyJob[v].event \in 1..created
      BY <1>1 DEF Night!WorkersInv, Night!WorkerOK, Night!Fresh
    <3> QED
      BY <1>7, <1>8, <3>1
  <2>4. Night!Fresh(w)'
    BY <1>6, <1>7, <1>8, <2>2, <2>3 DEF Night!Fresh, Night!Owned
  <2> QED
    BY <1>5, <1>6, <1>8, <2>1, <2>4 DEF Night!WorkerOK
<1>12. Night!PartyBacked'
  <2> SUFFICES ASSUME NEW x \in rollEvents', x \notin stranded'
               PROVE Night!Owned(x)' \/ Night!InHand(x)'
    BY DEF Night!PartyBacked
  <2>1. CASE x = e
    <3>1. partyPc'[w] = "linking" /\ partyJob'[w].event = e
      BY <1>6, <1>8
    <3>2. Night!Holding(w)' = e
      BY <3>1 DEF Night!Holding
    <3> QED
      BY <2>1, <3>1, <3>2 DEF Night!InHand
  <2>2. CASE x # e
    <3>1. Night!Owned(x) \/ Night!InHand(x)
      BY <1>1, <1>5, <2>2 DEF Night!PartyBacked
    <3>2. CASE Night!Owned(x)
      BY <1>5, <3>2 DEF Night!Owned
    <3>3. CASE Night!InHand(x)
      <4>1. PICK v \in Workers : partyPc[v] \in {"linking", "cleaning"} /\ Night!Holding(v) = x
        BY <3>3 DEF Night!InHand
      <4>2. v # w
        BY <1>5, <4>1
      <4> QED
        BY <1>8, <4>1, <4>2 DEF Night!InHand, Night!Holding
    <3> QED
      BY <3>1, <3>2, <3>3
  <2> QED
    BY <2>1, <2>2
<1> QED
  BY <1>9, <1>10, <1>11, <1>12 DEF Night!IInv, Night!WorkersInv

\* updateParty with the event of the roll: the party that another request linked meanwhile
\* leaves that other event behind.
LEMMA LinkEventIInv ==
  ASSUME Night!IInv, NEW w \in Workers, Night!LinkEvent(w)
  PROVE  Night!IInv'
<1>1. Night!TypeOK /\ Night!WorkersInv /\ Night!PartyBacked
  BY DEF Night!IInv
<1>2. PICK j \in Night!Job : j = partyJob[w]
  BY Tables
<1>3. PICK p, e : p = j.party /\ e = j.event
  OBVIOUS
<1>4. PICK old : old = party[p].event
  OBVIOUS
<1>5. /\ partyPc[w] = "linking" /\ Night!Live(p) /\ e \in rollEvents
      /\ party' = [party EXCEPT ![p].event = e]
      /\ stranded' = stranded \cup ({old} \cap j.missed)
      /\ partyPc' = [partyPc EXCEPT ![w] = "taking"]
      /\ partyJob' = [v \in Workers |->
                  IF v # w /\ partyJob[v].party = p
                  THEN [partyJob[v] EXCEPT !.missed = @ \cup {e}] ELSE partyJob[v]]
      /\ UNCHANGED <<rollEvents, mandatory, rolled, created>>
  BY <1>2, <1>3, <1>4 DEF Night!LinkEvent, Night!calendar
<1>6. /\ p \in Nights /\ old \in {0} \cup j.missed
      /\ j.link = 0 /\ \A q \in Nights : party[q].event # e
      /\ \A v \in Workers \ {w} : partyPc[v] = "linking" => partyJob[v].event # e
  <2>1. p \in Nights /\ old \in {0, j.link} \cup j.missed /\ j.link = 0 /\ Night!Fresh(w)
    BY <1>2, <1>3, <1>4, <1>5, NightKnows
  <2> QED
    BY <1>2, <1>3, <2>1 DEF Night!Fresh, Night!Owned
<1>7. ASSUME NEW v \in Workers
      PROVE  /\ partyJob'[v] \in Night!Job /\ partyJob'[v].party = partyJob[v].party
             /\ partyJob'[v].link = partyJob[v].link
             /\ partyJob'[v].event = partyJob[v].event
             /\ partyJob[v].missed \subseteq partyJob'[v].missed
             /\ v # w /\ partyJob[v].party = p => e \in partyJob'[v].missed
  <2>1. PICK i \in Night!Job : i = partyJob[v]
    BY Tables
  <2>2. CASE v # w /\ partyJob[v].party = p
    <3>1. partyJob'[v] = [i EXCEPT !.missed = i.missed \cup {e}]
      BY <1>5, <2>1, <2>2
    <3>2. e \in Night!Ids
      BY <1>5, Tables
    <3> QED
      BY <2>1, <3>1, <3>2 DEF Night!Job
  <2>3. CASE ~(v # w /\ partyJob[v].party = p)
    BY <1>5, <2>1, <2>3
  <2> QED
    BY <2>2, <2>3
<1>8. /\ party' \in [Nights -> Night!Party]
      /\ \A q \in Nights : /\ party'[q].state = party[q].state
                            /\ party'[q].event = IF q = p THEN e ELSE party[q].event
  BY <1>5, <1>6, Tables DEF Night!Party
<1>9. \A v \in Workers : partyPc'[v] = IF v = w THEN "taking" ELSE partyPc[v]
  BY <1>5, Tables
<1>10. e # 0
  BY <1>5, Tables
<1>11. Night!TypeOK'
  <2>1. partyPc' \in [Workers -> NightSteps]
    BY <1>5, Tables DEF NightSteps
  <2>2. partyJob' \in [Workers -> Night!Job]
    BY <1>5, <1>7
  <2>3. stranded' \subseteq Night!Ids
    BY <1>2, <1>5, Tables DEF Night!Job
  <2>4. \A q \in Nights : party'[q].event # 0 => Night!Live(q)' /\ party'[q].event \in rollEvents'
    BY <1>1, <1>5, <1>8 DEF Night!TypeOK, Night!Live
  <2>5. \A q, r \in Nights :
          party'[q].event = party'[r].event => q = r \/ party'[q].event = 0
    BY <1>1, <1>6, <1>8 DEF Night!TypeOK
  <2> QED
    BY <1>1, <1>5, <1>8, <2>1, <2>2, <2>3, <2>4, <2>5 DEF Night!TypeOK, NightSteps
<1>12. ASSUME NEW v \in Workers \ {w} PROVE Night!WorkerOK(v)'
  <2>1. \A u \in Workers : partyPc'[u] = "linking" =>
          partyPc[u] = "linking" /\ partyJob'[u].event = partyJob[u].event
    BY <1>7, <1>9
  <2>2. ASSUME NEW q \in Nights
        PROVE  /\ party[q].state = "deleted" => party'[q].state = "deleted"
               /\ \/ party'[q].event \in {0, party[q].event}
                  \/ /\ w \in Workers \ {v} /\ partyPc[w] = "linking"
                     /\ party'[q].event = partyJob[w].event
                     /\ partyJob[v].party = q => partyJob[w].event \in partyJob'[v].missed
    BY <1>2, <1>3, <1>5, <1>7, <1>8
  <2>3. /\ partyPc'[v] = partyPc[v] /\ created' \in Nat /\ created <= created'
    BY <1>5, <1>9, Tables
  <2>4. Undisturbed(v, w)
    BY <1>7, <2>1, <2>2, <2>3 DEF Undisturbed
  <2> QED
    BY <1>1, <2>4, OthersStand
<1>13. Night!WorkerOK(w)'
  <2>1. partyPc'[w] = "taking" /\ partyJob'[w].party = p
    BY <1>2, <1>3, <1>7, <1>9
  <2> QED
    BY <1>6, <2>1 DEF Night!WorkerOK
<1>14. Night!PartyBacked'
  <2> SUFFICES ASSUME NEW x \in rollEvents, x \notin stranded'
               PROVE Night!Owned(x)' \/ Night!InHand(x)'
    BY <1>5 DEF Night!PartyBacked
  <2>1. CASE x = e
    BY <1>6, <1>8, <2>1 DEF Night!Owned
  <2>2. CASE x # e /\ Night!Owned(x)
    <3>1. PICK q \in Nights : party[q].event = x
      BY <2>2 DEF Night!Owned
    <3>2. q # p
      <4>1. x # 0
        BY Tables
      <4> QED
        BY <1>4, <1>5, <1>6, <3>1, <4>1
    <3> QED
      BY <1>8, <3>1, <3>2 DEF Night!Owned
  <2>3. CASE x # e /\ Night!InHand(x)
    <3>1. PICK v \in Workers : partyPc[v] \in {"linking", "cleaning"} /\ Night!Holding(v) = x
      BY <2>3 DEF Night!InHand
    <3>2. v # w
      BY <1>2, <1>3, <1>5, <2>3, <3>1 DEF Night!Holding
    <3>3. Night!Holding(v)' = x
      BY <1>7, <1>9, <3>1, <3>2 DEF Night!Holding
    <3> QED
      BY <1>9, <3>1, <3>2, <3>3 DEF Night!InHand
  <2>4. x \notin stranded
    BY <1>5
  <2> QED
    BY <1>1, <2>1, <2>2, <2>3, <2>4 DEF Night!PartyBacked
<1> QED
  BY <1>11, <1>12, <1>13, <1>14 DEF Night!IInv, Night!WorkersInv

\* deleteParty.
LEMMA DeletePartyIInv ==
  ASSUME Night!IInv, NEW w \in Workers, Night!DeleteParty(w)
  PROVE  Night!IInv'
<1>1. Night!TypeOK /\ Night!WorkersInv /\ Night!PartyBacked
  BY DEF Night!IInv
<1>2. PICK j \in Night!Job : j = partyJob[w]
  BY Tables
<1>3. PICK p : p = j.party
  OBVIOUS
<1>4. PICK old : old = party[p].event
  OBVIOUS
<1>5. PICK step \in NightSteps, k \in Night!Job :
        /\ step = (IF j.link = 0 THEN "idle" ELSE "cleaning")
        /\ k = (IF j.link = 0 THEN Night!NoJob ELSE j)
  BY NullNightJob DEF NightSteps
<1>6. /\ partyPc[w] = "deleting"
      /\ party' = [party EXCEPT ![p].state = "deleted", ![p].event = 0]
      /\ stranded' = stranded \cup ({old} \cap j.missed)
      /\ partyPc' = [partyPc EXCEPT ![w] = step] /\ partyJob' = [partyJob EXCEPT ![w] = k]
      /\ UNCHANGED <<rollEvents, mandatory, rolled, created>>
  BY <1>2, <1>3, <1>4, <1>5
     DEF Night!DeleteParty, Night!calendar, Night!NothingToClean, Night!Finish, Night!Go
<1>7. /\ p \in Nights /\ old \in {0, j.link} \cup j.missed
      /\ j.link # 0 => Night!Settled(w)
  BY <1>2, <1>3, <1>4, <1>6, NightKnows
<1>8. /\ party' \in [Nights -> Night!Party]
      /\ \A q \in Nights :
           /\ party'[q].state = IF q = p THEN "deleted" ELSE party[q].state
           /\ party'[q].event = IF q = p THEN 0 ELSE party[q].event
  <2>1. \A q \in Nights :
          party'[q] = IF q = p THEN [party[p] EXCEPT !.state = "deleted", !.event = 0]
                                       ELSE party[q]
    BY <1>6, <1>7, Tables
  <2>2. party' \in [Nights -> Night!Party]
    BY <1>6, <1>7, Tables DEF Night!Party
  <2> QED
    BY <1>7, <2>1, <2>2, Tables DEF Night!Party
<1>9. \A v \in Workers : /\ partyPc'[v] = IF v = w THEN step ELSE partyPc[v]
                         /\ partyJob'[v] = IF v = w THEN k ELSE partyJob[v]
  BY <1>6, Tables
<1>10. Night!TypeOK'
  <2>1. partyPc' \in [Workers -> NightSteps] /\ partyJob' \in [Workers -> Night!Job]
    BY <1>6, Tables
  <2>2. stranded' \subseteq Night!Ids
    BY <1>6, Tables DEF Night!Job
  <2>3. \A q \in Nights : party'[q].event # 0 => Night!Live(q)' /\ party'[q].event \in rollEvents'
    BY <1>1, <1>6, <1>8 DEF Night!TypeOK, Night!Live
  <2>4. \A q, r \in Nights :
          party'[q].event = party'[r].event => q = r \/ party'[q].event = 0
    BY <1>1, <1>8 DEF Night!TypeOK
  <2> QED
    BY <1>1, <1>6, <1>8, <2>1, <2>2, <2>3, <2>4 DEF Night!TypeOK, NightSteps
<1>11. ASSUME NEW v \in Workers \ {w} PROVE Night!WorkerOK(v)'
  <2>1. Undisturbed(v, w)
    BY <1>5, <1>6, <1>8, <1>9, Tables DEF Undisturbed
  <2> QED
    BY <1>1, <2>1, OthersStand
<1>12. Night!WorkerOK(w)'
  <2>1. CASE j.link = 0
    BY <1>5, <1>9, <2>1 DEF Night!WorkerOK
  <2>2. CASE j.link # 0
    <3>1. /\ j.link \in 1..created
          /\ \A q \in Nights : party[q].event = j.link => q = p
          /\ \A v \in Workers : partyPc[v] = "linking" => partyJob[v].event # j.link
      BY <1>2, <1>3, <1>7, <2>2 DEF Night!Settled
    <3>2. partyPc'[w] = "cleaning" /\ partyJob'[w] = j
      BY <1>5, <1>9, <2>2
    <3>3. Night!Settled(w)'
      BY <1>3, <1>6, <1>8, <1>9, <3>1, <3>2 DEF Night!Settled
    <3> QED
      BY <1>3, <1>7, <1>8, <2>2, <3>2, <3>3 DEF Night!WorkerOK
  <2> QED
    BY <2>1, <2>2
<1>13. Night!PartyBacked'
  <2> SUFFICES ASSUME NEW x \in rollEvents, x \notin stranded'
               PROVE Night!Owned(x)' \/ Night!InHand(x)'
    BY <1>6 DEF Night!PartyBacked
  <2>0. x # 0 /\ x \notin stranded
    BY <1>6, Tables
  <2>1. CASE Night!Owned(x)
    <3>1. PICK q \in Nights : party[q].event = x
      BY <2>1 DEF Night!Owned
    <3>2. CASE q = p
      <4>1. j.link = x
        BY <1>4, <1>6, <1>7, <2>0, <3>1, <3>2
      <4>2. partyPc'[w] = "cleaning" /\ partyJob'[w].link = x
        BY <1>5, <1>9, <2>0, <4>1
      <4>3. Night!Holding(w)' = x
        BY <4>2 DEF Night!Holding
      <4> QED
        BY <4>2, <4>3 DEF Night!InHand
    <3>3. CASE q # p
      BY <1>8, <3>1, <3>3 DEF Night!Owned
    <3> QED
      BY <3>2, <3>3
  <2>2. CASE Night!InHand(x)
    <3>1. PICK v \in Workers : partyPc[v] \in {"linking", "cleaning"} /\ Night!Holding(v) = x
      BY <2>2 DEF Night!InHand
    <3>2. v # w
      BY <1>6, <3>1
    <3> QED
      BY <1>9, <3>1, <3>2 DEF Night!InHand, Night!Holding
  <2> QED
    BY <1>1, <2>0, <2>1, <2>2 DEF Night!PartyBacked
<1> QED
  BY <1>10, <1>11, <1>12, <1>13 DEF Night!IInv, Night!WorkersInv

\* An event goes, and with it the link of its party, if it has one.
LEMMA RemovalIInv ==
  ASSUME Night!IInv, NEW e, NEW w, rollEvents' = rollEvents \ {e}, mandatory' = mandatory \ {e},
         e \notin rolled, UNCHANGED <<rolled, created, stranded>>,
         partyPc' \in [Workers -> NightSteps], partyJob' \in [Workers -> Night!Job],
         \A v \in Workers : v # w => partyPc'[v] = partyPc[v] /\ partyJob'[v] = partyJob[v],
         w \in Workers => partyPc'[w] = "idle" /\ partyJob'[w] = Night!NoJob,
         w \in Workers /\ partyPc[w] \in {"linking", "cleaning"} => Night!Holding(w) = e,
         party' \in [Nights -> Night!Party],
         \A p \in Nights :
           /\ party'[p].state = party[p].state
           /\ party'[p].event = IF party[p].event = e THEN 0 ELSE party[p].event
  PROVE  Night!IInv'
<1>1. Night!TypeOK /\ Night!WorkersInv /\ Night!PartyBacked
  BY DEF Night!IInv
<1>2. Night!TypeOK'
  <2>1. \A q \in Nights : party'[q].event # 0 => Night!Live(q)' /\ party'[q].event \in rollEvents'
    BY <1>1 DEF Night!TypeOK, Night!Live
  <2>2. \A q, r \in Nights :
          party'[q].event = party'[r].event => q = r \/ party'[q].event = 0
    BY <1>1 DEF Night!TypeOK
  <2>3. /\ rollEvents' \subseteq 1..created' /\ mandatory' \subseteq rollEvents'
        /\ rolled' \subseteq rollEvents'
    BY <1>1 DEF Night!TypeOK
  <2> QED
    BY <1>1, <2>1, <2>2, <2>3 DEF Night!TypeOK, NightSteps
<1>3. ASSUME NEW v \in Workers PROVE Night!WorkerOK(v)'
  <2>1. CASE v = w
    BY <2>1 DEF Night!WorkerOK
  <2>2. CASE v # w
    <3>1. Undisturbed(v, w)
      BY <1>1, <2>2, Tables DEF Undisturbed
    <3> QED
      BY <1>1, <3>1, OthersStand
  <2> QED
    BY <2>1, <2>2
<1>4. Night!PartyBacked'
  <2> SUFFICES ASSUME NEW x \in rollEvents', x \notin stranded'
               PROVE Night!Owned(x)' \/ Night!InHand(x)'
    BY DEF Night!PartyBacked
  <2>1. x \in rollEvents /\ x # e /\ x \notin stranded
    OBVIOUS
  <2>2. CASE Night!Owned(x)
    BY <2>1, <2>2 DEF Night!Owned
  <2>3. CASE Night!InHand(x)
    <3>1. PICK v \in Workers : partyPc[v] \in {"linking", "cleaning"} /\ Night!Holding(v) = x
      BY <2>3 DEF Night!InHand
    <3>2. v # w
      BY <2>1, <3>1
    <3> QED
      BY <3>1, <3>2 DEF Night!InHand, Night!Holding
  <2> QED
    BY <1>1, <2>1, <2>2, <2>3 DEF Night!PartyBacked
<1> QED
  BY <1>2, <1>3, <1>4 DEF Night!IInv, Night!WorkersInv

\* deleteParty, its second statement: the event goes unless something hangs on it.
LEMMA CleanUpIInv ==
  ASSUME Night!IInv, NEW w \in Workers, Night!CleanUp(w)
  PROVE  Night!IInv'
<1>1. Night!TypeOK /\ Night!WorkersInv
  BY DEF Night!IInv
<1>2. PICK e : e = partyJob[w].link
  OBVIOUS
<1>3. /\ partyPc[w] = "cleaning" /\ Night!Go(w, "idle", Night!NoJob) /\ UNCHANGED <<party, created>>
      /\ e \in rolled =>
           /\ stranded' = stranded \cup {e}
           /\ UNCHANGED <<rollEvents, mandatory, rolled>>
      /\ e \notin rolled =>
           /\ rollEvents' = rollEvents \ {e} /\ mandatory' = mandatory \ {e}
           /\ UNCHANGED <<rolled, stranded>>
  BY <1>2 DEF Night!CleanUp, Night!Finish, Night!calendar
<1>4. Night!Holding(w) = e
  BY <1>2, <1>3 DEF Night!Holding
<1>5. "idle" \in NightSteps
  BY DEF NightSteps
<1>6. CASE e \in rolled
  <2>1. stranded \subseteq stranded' /\ stranded' \subseteq Night!Ids /\ e \in stranded'
    BY <1>3, <1>6, Tables
  <2> QED
    BY <1>3, <1>4, <1>5, <1>6, <2>1, Tables, NullNightJob, GoIInv
<1>7. CASE e \notin rolled
  <2>1. PICK j \in Night!Job : j = partyJob[w]
    BY Tables
  <2>2. e # 0 /\ Night!Settled(w) /\ party[j.party].state = "deleted" /\ j.party \in Nights
    BY <1>2, <1>3, <2>1, NightKnows
  <2>3. ASSUME NEW p \in Nights PROVE party[p].event # e
    <3>1. party[p].event = e => p = j.party
      BY <1>2, <2>1, <2>2, <2>3 DEF Night!Settled
    <3>2. party[j.party].event # 0 => party[j.party].state = "live"
      BY <1>1, <2>2 DEF Night!TypeOK, Night!Live
    <3> QED
      BY <2>2, <3>1, <3>2
  <2>4. /\ partyPc' \in [Workers -> NightSteps] /\ partyJob' \in [Workers -> Night!Job]
        /\ \A v \in Workers : v # w => partyPc'[v] = partyPc[v] /\ partyJob'[v] = partyJob[v]
        /\ partyPc'[w] = "idle" /\ partyJob'[w] = Night!NoJob
    BY <1>3, <1>5, Tables, NullNightJob DEF Night!Go
  <2>5. /\ party' \in [Nights -> Night!Party]
        /\ \A p \in Nights :
             /\ party'[p].state = party[p].state
             /\ party'[p].event = IF party[p].event = e THEN 0 ELSE party[p].event
    BY <1>3, <2>3, Tables
  <2> QED
    BY <1>3, <1>4, <1>7, <2>4, <2>5, RemovalIInv
<1> QED
  BY <1>6, <1>7

\* deleteCalendar, of the calendar page.
LEMMA NightDeleteCalendarIInv ==
  ASSUME Night!IInv, NEW e \in Night!Ids, Night!DeleteCalendar(e)
  PROVE  Night!IInv'
<1>1. /\ e \in rollEvents \ rolled /\ rollEvents' = rollEvents \ {e} /\ mandatory' = mandatory \ {e}
      /\ party' = [p \in Nights |-> IF party[p].event = e THEN [party[p] EXCEPT !.event = 0]
                                     ELSE party[p]]
      /\ UNCHANGED <<rolled, created, partyPc, partyJob, stranded>>
  BY DEF Night!DeleteCalendar
<1>2. PICK w : w \notin Workers
  <2> DEFINE R == {x \in Workers : x \notin x}
  <2>1. R \notin Workers
    OBVIOUS
  <2> QED
    BY <2>1
<1>3. /\ party' \in [Nights -> Night!Party]
      /\ \A p \in Nights :
           /\ party'[p].state = party[p].state
           /\ party'[p].event = IF party[p].event = e THEN 0 ELSE party[p].event
  BY <1>1, Tables DEF Night!Party
<1> QED
  BY <1>1, <1>2, <1>3, Tables, RemovalIInv

\* There is no party and no event to begin with.
LEMMA NightInitIInv == Night!Init => Night!IInv
<1> SUFFICES ASSUME Night!Init PROVE Night!IInv
  OBVIOUS
<1>1. Night!TypeOK
  <2>1. party \in [Nights -> Night!Party] /\ \A p \in Nights : party[p].event = 0
    BY DEF Night!Init, Night!Party
  <2> QED
    BY <2>1, NullNightJob DEF Night!Init, Night!TypeOK
<1>2. Night!WorkersInv
  BY DEF Night!Init, Night!WorkersInv, Night!WorkerOK
<1>3. Night!PartyBacked
  BY DEF Night!Init, Night!PartyBacked
<1> QED
  BY <1>1, <1>2, <1>3 DEF Night!IInv

\* Each step keeps IInv.
LEMMA NightNextIInv == Night!IInv /\ [Night!Next]_Night!vars => Night!IInv'
<1> SUFFICES ASSUME Night!IInv, [Night!Next]_Night!vars PROVE Night!IInv'
  OBVIOUS
<1>1. CASE UNCHANGED Night!vars
  BY <1>1, Tables, NobodyIInv DEF Night!vars, Night!calendar
<1>2. CASE Night!Next
  BY <1>2, CreatePartyIInv, UpdatePartyIInv, StartWrapUpIInv, CompleteIInv, CreateEventIInv,
     LinkEventIInv, KeepEventIInv, TakeRollIInv, StartDeleteIInv, DeletePartyIInv, CleanUpIInv,
     DieIInv, NightDeleteCalendarIInv, ReferIInv DEF Night!Next
<1> QED
  BY <1>1, <1>2

\* Parties: IInv holds in every reachable state, for any parties and number of requests.
THEOREM PartiesInductive == Night!Spec => []Night!IInv
BY NightInitIInv, NightNextIInv, PTL DEF Night!Spec

\* wrapUpParty, deleteParty: an event made for the roll of a party is that party's, or
\* in the hands of the request that made it or deletes it, or is known to be stranded.
THEOREM PartyBackedAlways == Night!Spec => []PartyBacked
<1>1. Night!IInv => PartyBacked
  BY DEF Night!IInv, PartyBacked
<1> QED
  BY <1>1, PartiesInductive, PTL

HIDE NightAssumption

-----------------------------------------------------------------------------
(* Transaction categories *)

USE ClerkAssumption

\* The instance counts as this module does.
LEMMA SameCount ==
  ASSUME NEW S
  PROVE  Clerk!Cardinality(S) = Cardinality(S)
BY DEF Cardinality, Clerk!Cardinality

ClerkSteps == {"idle", "counted", "naming", "renaming", "deleting", "filing"}
ClerkJobs == clerkPc \in [Workers -> ClerkSteps] /\ clerkJob \in [Workers -> Clerk!Job]

\* IInv but for the limit.
ClerkKnowledge == Clerk!JobsInv /\ Clerk!FilingInv /\ Clerk!CountInv /\ Clerk!NameInv
ClerkSound == Clerk!TypeOK /\ ClerkKnowledge /\ Clerk!UsesNamed /\ Clerk!LabelTwins

\* A request that is idle holds a record of the right type, about nothing.
LEMMA ClerkNullJobType ==
  /\ Clerk!NoJob \in Clerk!Job
  /\ Clerk!NoJob.slug = Clerk!Unfiled /\ Clerk!NoJob.label = None /\ Clerk!NoJob.row = None
  /\ Clerk!NoJob.missed = FALSE /\ Clerk!NoJob.other = FALSE
BY DEF Clerk!NoJob, Clerk!Job

\* The slugs that mean something are no others' slug.
LEMMA ClerkSlugs ==
  Clerk!Unfiled \notin Clerk!Slugs /\ Clerk!Reserved \in Clerk!Slugs
     /\ Clerk!Unfiled # Clerk!Reserved
BY DEF Clerk!Slugs, Clerk!Unfiled, Clerk!Reserved

\* What others are left with when one of them has written.
LEMMA MissedJobs ==
  ASSUME ClerkJobs, NEW w \in Workers, NEW who, Clerk!Done(w, Clerk!Missed(who))
  PROVE  /\ ClerkJobs'
         /\ clerkPc'[w] = "idle" /\ clerkJob'[w] = Clerk!NoJob
         /\ \A v \in Workers \ {w} :
              /\ clerkPc'[v] = clerkPc[v]
              /\ clerkJob'[v].slug = clerkJob[v].slug /\ clerkJob'[v].label = clerkJob[v].label
              /\ clerkJob'[v].row = clerkJob[v].row /\ clerkJob'[v].other = clerkJob[v].other
              /\ v \in who => clerkJob'[v].missed
              /\ v \notin who => clerkJob'[v].missed = clerkJob[v].missed
<1>1. \A v \in Workers :
        Clerk!Missed(who)[v] = IF v \in who THEN [clerkJob[v] EXCEPT !.missed = TRUE]
                                         ELSE clerkJob[v]
  BY DEF Clerk!Missed
<1>2. \A v \in Workers :
        /\ Clerk!Missed(who)[v] \in Clerk!Job
        /\ Clerk!Missed(who)[v].slug = clerkJob[v].slug
        /\ Clerk!Missed(who)[v].label = clerkJob[v].label
        /\ Clerk!Missed(who)[v].row = clerkJob[v].row
        /\ Clerk!Missed(who)[v].other = clerkJob[v].other
        /\ v \in who => Clerk!Missed(who)[v].missed
        /\ v \notin who => Clerk!Missed(who)[v].missed = clerkJob[v].missed
  BY <1>1 DEF ClerkJobs, Clerk!Job
<1>3. Clerk!Missed(who) \in [Workers -> Clerk!Job]
  BY <1>2 DEF Clerk!Missed
<1>4. /\ clerkJob' \in [Workers -> Clerk!Job]
      /\ clerkJob'[w] = Clerk!NoJob
      /\ \A v \in Workers \ {w} : clerkJob'[v] = Clerk!Missed(who)[v]
  BY <1>3, ClerkNullJobType DEF Clerk!Done
<1>5. /\ clerkPc' \in [Workers -> ClerkSteps]
      /\ clerkPc'[w] = "idle"
      /\ \A v \in Workers \ {w} : clerkPc'[v] = clerkPc[v]
  BY DEF ClerkJobs, Clerk!Done, ClerkSteps
<1> QED
  BY <1>2, <1>4, <1>5 DEF ClerkJobs

\* What v remembers is about the category that w deletes.
DeletedFor(v, w) == clerkJob[v].slug = clerkJob[w].slug /\ ~clerkJob[v].other

\* After a deletion, a row that is being filed has missed it; a rename or another
\* deletion has lost its category.
LEMMA DeleteJobs ==
  ASSUME ClerkJobs, NEW w \in Workers, Clerk!Delete(w)
  PROVE  /\ ClerkJobs'
         /\ clerkPc'[w] = "idle" /\ clerkJob'[w] = Clerk!NoJob
         /\ \A v \in Workers \ {w} :
              /\ clerkPc'[v] = clerkPc[v]
              /\ clerkJob'[v].label = clerkJob[v].label /\ clerkJob'[v].row = clerkJob[v].row
              /\ clerkJob'[v].other = clerkJob[v].other
              /\ ~DeletedFor(v, w) => clerkJob'[v] = clerkJob[v]
              /\ DeletedFor(v, w) /\ clerkPc[v] = "filing" =>
                   clerkJob'[v].slug = clerkJob[v].slug /\ clerkJob'[v].missed
              /\ DeletedFor(v, w) /\ clerkPc[v] # "filing" =>
                   clerkJob'[v].slug = Clerk!Unfiled /\ clerkJob'[v].missed = clerkJob[v].missed
<1> DEFINE others ==
      [v \in Workers |->
         IF v \notin {u \in Workers : clerkJob[u].slug = clerkJob[w].slug /\ ~clerkJob[u].other}
         THEN clerkJob[v]
         ELSE IF clerkPc[v] = "filing" THEN [clerkJob[v] EXCEPT !.missed = TRUE]
         ELSE [clerkJob[v] EXCEPT !.slug = Clerk!Unfiled]]
<1>1. Clerk!Done(w, others)
  BY DEF Clerk!Delete
<1>2. \A v \in Workers :
        /\ others[v] \in Clerk!Job
        /\ others[v].label = clerkJob[v].label /\ others[v].row = clerkJob[v].row
        /\ others[v].other = clerkJob[v].other
        /\ ~DeletedFor(v, w) => others[v] = clerkJob[v]
        /\ DeletedFor(v, w) /\ clerkPc[v] = "filing" =>
             others[v].slug = clerkJob[v].slug /\ others[v].missed
        /\ DeletedFor(v, w) /\ clerkPc[v] # "filing" =>
             others[v].slug = Clerk!Unfiled /\ others[v].missed = clerkJob[v].missed
  BY DEF ClerkJobs, Clerk!Job, DeletedFor
<1>3. others \in [Workers -> Clerk!Job]
  BY <1>2
<1> HIDE DEF others
<1>4. /\ clerkJob' \in [Workers -> Clerk!Job]
      /\ clerkJob'[w] = Clerk!NoJob
      /\ \A v \in Workers \ {w} : clerkJob'[v] = others[v]
  BY <1>1, <1>3, ClerkNullJobType DEF Clerk!Done
<1>5. /\ clerkPc' \in [Workers -> ClerkSteps]
      /\ clerkPc'[w] = "idle"
      /\ \A v \in Workers \ {w} : clerkPc'[v] = clerkPc[v]
  BY <1>1 DEF ClerkJobs, Clerk!Done, ClerkSteps
<1> QED
  BY <1>2, <1>4, <1>5 DEF ClerkJobs

-----------------------------------------------------------------------------
(* What was found stays so until it is missed *)

\* A read, or an end: the tables stand still, and so does what the others found.
LEMMA GoKeeps ==
  ASSUME ClerkSound, NEW w \in Workers, NEW step \in ClerkSteps, NEW j \in Clerk!Job,
         Clerk!Go(w, step, j),
         step \in {"counted", "naming", "renaming"} => j.label \in Labels,
         step = "deleting" => j.slug # Clerk!Reserved /\ Clerk!Unused(j.slug),
         step = "filing" => j.row \in Rows /\ j.slug \in Clerk!Slugs
                              /\ (j.other \/ j.slug \in Clerk!Listed \/ j.missed),
         step = "naming" => j.label \notin Clerk!Named,
         step = "renaming" => Clerk!NoClash(j.slug, j.label)
  PROVE  ClerkSound'
<1>1. /\ clerkPc'[w] = step /\ clerkJob'[w] = j
      /\ \A v \in Workers \ {w} : clerkPc'[v] = clerkPc[v] /\ clerkJob'[v] = clerkJob[v]
      /\ clerkPc' \in [Workers -> ClerkSteps] /\ clerkJob' \in [Workers -> Clerk!Job]
  BY DEF Clerk!Go, ClerkSound, Clerk!TypeOK, ClerkSteps
<1>2. UNCHANGED <<label, filed, away, twinned, orphaned>>
  BY DEF Clerk!Go
<1>3. Clerk!Listed' = Clerk!Listed /\ Clerk!Named' = Clerk!Named
  BY <1>2 DEF Clerk!Listed, Clerk!Named
<1>4. Clerk!TypeOK'
  BY <1>1, <1>2 DEF ClerkSound, Clerk!TypeOK, ClerkSteps
<1>5. Clerk!JobsInv'
  BY <1>1 DEF ClerkSound, ClerkKnowledge, Clerk!JobsInv
<1>6. Clerk!FilingInv'
  BY <1>1, <1>3 DEF ClerkSound, ClerkKnowledge, Clerk!FilingInv
<1>7. Clerk!CountInv'
  BY <1>1, <1>2 DEF ClerkSound, ClerkKnowledge, Clerk!CountInv, Clerk!Unused, Clerk!Uses
<1>8. Clerk!NameInv'
  BY <1>1, <1>2, <1>3 DEF ClerkSound, ClerkKnowledge, Clerk!NameInv, Clerk!NoClash
<1>9. Clerk!UsesNamed' /\ Clerk!LabelTwins'
  BY <1>2, <1>3 DEF ClerkSound, Clerk!UsesNamed, Clerk!LabelTwins
<1> QED
  BY <1>4, <1>5, <1>6, <1>7, <1>8, <1>9 DEF ClerkSound, ClerkKnowledge

\* A request that throws leaves everything as it was.
LEMMA FailKeeps ==
  ASSUME ClerkSound, NEW w \in Workers, Clerk!Go(w, "idle", Clerk!NoJob)
  PROVE  ClerkSound'
BY GoKeeps, ClerkNullJobType DEF ClerkSteps

\* A label is new unless somebody gave it meanwhile: what Insert and Rename share.
LEMMA LabelWritten ==
  ASSUME ClerkSound, NEW w \in Workers, NEW s \in Clerk!Slugs,
         clerkPc[w] \in {"naming", "renaming"},
         \A t \in Clerk!Listed \ {s} : label[t] = clerkJob[w].label => clerkJob[w].missed,
         label' = [label EXCEPT ![s] = clerkJob[w].label],
         twinned' = Clerk!Tagged(twinned, s, clerkJob[w].missed),
         Clerk!Done(w, Clerk!Missed(Clerk!Naming(clerkJob[w].label))),
         UNCHANGED <<filed, away, orphaned>>
  PROVE  ClerkSound' /\ Clerk!Listed' = Clerk!Listed \cup {s}
<1> DEFINE l == clerkJob[w].label
<1>1. l \in Labels /\ l # None
  BY DEF ClerkSound, ClerkKnowledge, Clerk!JobsInv
<1>2. label \in [Clerk!Slugs -> Labels \cup {None}]
  BY DEF ClerkSound, Clerk!TypeOK
<1>3. /\ label' \in [Clerk!Slugs -> Labels \cup {None}]
      /\ label'[s] = l /\ \A t \in Clerk!Slugs \ {s} : label'[t] = label[t]
  BY <1>1, <1>2
<1>4. Clerk!Listed' = Clerk!Listed \cup {s}
  BY <1>1, <1>3 DEF Clerk!Listed
<1>5. Clerk!Listed \subseteq Clerk!Slugs
  BY DEF Clerk!Listed
<1>6. ClerkJobs
  BY DEF ClerkSound, Clerk!TypeOK, ClerkJobs, ClerkSteps
<1>7. /\ ClerkJobs' /\ clerkPc'[w] = "idle" /\ clerkJob'[w] = Clerk!NoJob
      /\ \A v \in Workers \ {w} :
           /\ clerkPc'[v] = clerkPc[v]
           /\ clerkJob'[v].slug = clerkJob[v].slug /\ clerkJob'[v].label = clerkJob[v].label
           /\ clerkJob'[v].row = clerkJob[v].row /\ clerkJob'[v].other = clerkJob[v].other
           /\ v \in Clerk!Naming(l) => clerkJob'[v].missed
           /\ v \notin Clerk!Naming(l) => clerkJob'[v].missed = clerkJob[v].missed
  BY <1>6, MissedJobs
<1> HIDE DEF l
<1>8. Clerk!TypeOK'
  <2>1. twinned' \subseteq Clerk!Slugs
    BY DEF ClerkSound, Clerk!TypeOK, Clerk!Tagged
  <2>2. label'[Clerk!Reserved] # None
    BY <1>1, <1>3, ClerkSlugs DEF ClerkSound, Clerk!TypeOK
  <2> QED
    BY <1>3, <1>7, <2>1, <2>2 DEF ClerkSound, Clerk!TypeOK, ClerkJobs, ClerkSteps
<1>9. Clerk!JobsInv'
  BY <1>7 DEF ClerkSound, ClerkKnowledge, Clerk!JobsInv
<1>10. Clerk!FilingInv'
  <2> SUFFICES ASSUME NEW v \in Workers, clerkPc'[v] = "filing"
               PROVE  \/ clerkJob'[v].other
                      \/ clerkJob'[v].slug \in Clerk!Listed' \/ clerkJob'[v].missed
    BY DEF Clerk!FilingInv
  <2>1. v # w /\ clerkPc[v] = "filing"
    BY <1>7
  <2>2. clerkJob[v].other \/ clerkJob[v].slug \in Clerk!Listed \/ clerkJob[v].missed
    BY <2>1 DEF ClerkSound, ClerkKnowledge, Clerk!FilingInv
  <2> QED
    BY <1>4, <1>7, <2>1, <2>2
<1>11. Clerk!CountInv'
  <2> SUFFICES ASSUME NEW v \in Workers, clerkPc'[v] = "deleting"
               PROVE  \/ clerkJob'[v].slug = Clerk!Unfiled \/ clerkJob'[v].missed
                      \/ \A r \in Rows \ away' : filed'[r] # clerkJob'[v].slug
    BY DEF Clerk!CountInv, Clerk!Unused, Clerk!Uses
  <2>1. v # w /\ clerkPc[v] = "deleting"
    BY <1>7
  <2>2. clerkJob[v].slug = Clerk!Unfiled \/ Clerk!Unused(clerkJob[v].slug) \/ clerkJob[v].missed
    BY <2>1 DEF ClerkSound, ClerkKnowledge, Clerk!CountInv
  <2>3. v \notin Clerk!Naming(l)
    BY <2>1 DEF Clerk!Naming
  <2> QED
    BY <1>7, <2>1, <2>2, <2>3 DEF Clerk!Unused, Clerk!Uses
<1>12. Clerk!NameInv'
  <2> SUFFICES ASSUME NEW v \in Workers, clerkPc'[v] \in {"naming", "renaming"},
                      ~clerkJob'[v].missed
               PROVE  /\ clerkPc'[v] = "naming" => clerkJob'[v].label \notin Clerk!Named'
                      /\ clerkPc'[v] = "renaming" =>
                           \A t \in Clerk!Listed' \ {clerkJob'[v].slug} :
                               label'[t] # clerkJob'[v].label
    BY DEF Clerk!NameInv, Clerk!NoClash
  <2>1. v # w /\ clerkPc[v] = clerkPc'[v] /\ v \notin Clerk!Naming(l)
    BY <1>7
  <2>2. clerkJob[v].label # l
    BY <2>1 DEF Clerk!Naming
  <2>3. /\ clerkJob'[v].slug = clerkJob[v].slug /\ clerkJob'[v].label = clerkJob[v].label
        /\ clerkJob'[v].missed = clerkJob[v].missed
    BY <1>7, <2>1
  <2>4. ASSUME clerkPc[v] = "naming" PROVE clerkJob[v].label \notin Clerk!Named'
    <3>1. clerkJob[v].label \notin Clerk!Named
      BY <2>1, <2>3, <2>4 DEF ClerkSound, ClerkKnowledge, Clerk!NameInv
    <3>2. \A t \in Clerk!Listed' : label'[t] # clerkJob[v].label
      BY <1>3, <1>4, <1>5, <2>2, <3>1 DEF Clerk!Named
    <3> QED
      BY <3>2 DEF Clerk!Named
  <2>5. ASSUME clerkPc[v] = "renaming"
        PROVE  \A t \in Clerk!Listed' \ {clerkJob[v].slug} : label'[t] # clerkJob[v].label
    <3>1. \A t \in Clerk!Listed \ {clerkJob[v].slug} : label[t] # clerkJob[v].label
      BY <2>1, <2>3, <2>5 DEF ClerkSound, ClerkKnowledge, Clerk!NameInv, Clerk!NoClash
    <3> QED
      BY <1>3, <1>4, <1>5, <2>2, <3>1
  <2> QED
    BY <2>1, <2>3, <2>4, <2>5
<1>13. Clerk!UsesNamed'
  BY <1>4 DEF ClerkSound, Clerk!UsesNamed
<1>14. Clerk!LabelTwins'
  <2> SUFFICES ASSUME NEW a \in Clerk!Listed', NEW b \in Clerk!Listed', label'[a] = label'[b], a # b
               PROVE  a \in twinned' \/ b \in twinned'
    BY DEF Clerk!LabelTwins
  <2>1. \A t \in Clerk!Listed \ {s} : label[t] = l => clerkJob[w].missed
    BY DEF l
  <2>2. clerkJob[w].missed => s \in twinned'
    BY DEF Clerk!Tagged
  <2>3. \A t \in Clerk!Slugs \ {s} : t \in twinned => t \in twinned'
    BY DEF Clerk!Tagged
  <2>4. CASE a = s
    BY <1>3, <1>4, <1>5, <2>1, <2>2, <2>4
  <2>5. CASE b = s
    BY <1>3, <1>4, <1>5, <2>1, <2>2, <2>5
  <2>6. CASE a # s /\ b # s
    <3>1. a \in Clerk!Listed /\ b \in Clerk!Listed /\ label[a] = label[b]
      BY <1>3, <1>4, <1>5, <2>6
    <3> QED
      BY <1>5, <2>3, <2>6, <3>1 DEF ClerkSound, Clerk!LabelTwins
  <2> QED
    BY <2>4, <2>5, <2>6
<1> QED
  BY <1>4, <1>8, <1>9, <1>10, <1>11, <1>12, <1>13, <1>14 DEF ClerkSound, ClerkKnowledge

\* createTransactionCategory's insert.
LEMMA InsertKeeps ==
  ASSUME ClerkSound, NEW w \in Workers, Clerk!Insert(w)
  PROVE  /\ ClerkSound'
         /\ \E s \in Clerk!Slugs \ Clerk!Listed : Clerk!Listed' = Clerk!Listed \cup {s}
<1> DEFINE s == Clerk!FirstFree(clerkJob[w].seen)
<1>1. /\ clerkPc[w] = "naming" /\ s \in Clerk!Slugs \ Clerk!Listed
      /\ label' = [label EXCEPT ![s] = clerkJob[w].label]
      /\ twinned' = Clerk!Tagged(twinned, s, clerkJob[w].missed)
      /\ Clerk!Done(w, Clerk!Missed(Clerk!Naming(clerkJob[w].label)))
      /\ UNCHANGED <<filed, away, orphaned>>
  BY DEF Clerk!Insert
<1> HIDE DEF s
<1>2. clerkJob[w].label \notin Clerk!Named \/ clerkJob[w].missed
  BY <1>1 DEF ClerkSound, ClerkKnowledge, Clerk!NameInv
<1>3. \A t \in Clerk!Listed \ {s} : label[t] = clerkJob[w].label => clerkJob[w].missed
  BY <1>2 DEF Clerk!Named
<1>4. ClerkSound' /\ Clerk!Listed' = Clerk!Listed \cup {s}
  BY <1>1, <1>3, LabelWritten
<1> QED
  BY <1>1, <1>4

\* updateTransactionCategory's write.
LEMMA RenameKeeps ==
  ASSUME ClerkSound, NEW w \in Workers, Clerk!Rename(w)
  PROVE  ClerkSound' /\ Clerk!Listed' = Clerk!Listed
<1> DEFINE s == clerkJob[w].slug
<1>1. /\ clerkPc[w] = "renaming" /\ s \in Clerk!Listed
      /\ label' = [label EXCEPT ![s] = clerkJob[w].label]
      /\ twinned' = Clerk!Tagged(twinned, s, clerkJob[w].missed)
      /\ Clerk!Done(w, Clerk!Missed(Clerk!Naming(clerkJob[w].label)))
      /\ UNCHANGED <<filed, away, orphaned>>
  BY DEF Clerk!Rename
<1>2. \A t \in Clerk!Listed \ {s} : label[t] = clerkJob[w].label => clerkJob[w].missed
  BY <1>1 DEF ClerkSound, ClerkKnowledge, Clerk!NameInv, Clerk!NoClash
<1>3. s \in Clerk!Slugs
  BY <1>1 DEF Clerk!Listed
<1> HIDE DEF s
<1>4. ClerkSound' /\ Clerk!Listed' = Clerk!Listed \cup {s}
  BY <1>1, <1>2, <1>3, LabelWritten
<1> QED
  BY <1>1, <1>4

\* deleteTransactionCategory's transaction.
LEMMA DeleteKeeps ==
  ASSUME ClerkSound, NEW w \in Workers, Clerk!Delete(w)
  PROVE  ClerkSound' /\ Clerk!Listed' \subseteq Clerk!Listed
<1> DEFINE s == clerkJob[w].slug
<1>1. /\ clerkPc[w] = "deleting" /\ s \in Clerk!Listed
      /\ label' = [label EXCEPT ![s] = None]
      /\ twinned' = twinned \ {s}
      /\ orphaned' = IF clerkJob[w].missed
                     THEN orphaned \cup Clerk!Uses(s) ELSE orphaned
      /\ filed' = filed /\ away' = away
  BY DEF Clerk!Delete
<1>2. /\ s \in Clerk!Slugs /\ s # Clerk!Unfiled /\ s # Clerk!Reserved
      /\ Clerk!Listed \subseteq Clerk!Slugs
  BY <1>1, ClerkSlugs DEF Clerk!Listed, ClerkSound, ClerkKnowledge, Clerk!JobsInv
<1>3. label \in [Clerk!Slugs -> Labels \cup {None}] /\ label[Clerk!Reserved] # None
  BY DEF ClerkSound, Clerk!TypeOK
<1>4. /\ label' \in [Clerk!Slugs -> Labels \cup {None}]
      /\ label'[s] = None /\ \A t \in Clerk!Slugs \ {s} : label'[t] = label[t]
  BY <1>1, <1>2, <1>3
<1>5. Clerk!Listed' = Clerk!Listed \ {s}
  BY <1>4 DEF Clerk!Listed
<1>6. ClerkJobs
  BY DEF ClerkSound, Clerk!TypeOK, ClerkJobs, ClerkSteps
<1>7. /\ ClerkJobs' /\ clerkPc'[w] = "idle" /\ clerkJob'[w] = Clerk!NoJob
      /\ \A v \in Workers \ {w} :
           /\ clerkPc'[v] = clerkPc[v]
           /\ clerkJob'[v].label = clerkJob[v].label /\ clerkJob'[v].row = clerkJob[v].row
           /\ clerkJob'[v].other = clerkJob[v].other
           /\ clerkJob[v].slug # s \/ clerkJob[v].other => clerkJob'[v] = clerkJob[v]
           /\ clerkJob[v].slug = s /\ ~clerkJob[v].other /\ clerkPc[v] = "filing" =>
                clerkJob'[v].slug = clerkJob[v].slug /\ clerkJob'[v].missed
           /\ clerkJob[v].slug = s /\ ~clerkJob[v].other /\ clerkPc[v] # "filing" =>
                clerkJob'[v].slug = Clerk!Unfiled /\ clerkJob'[v].missed = clerkJob[v].missed
  BY <1>6, DeleteJobs DEF DeletedFor
<1>8. Clerk!Unused(s) \/ clerkJob[w].missed
  BY <1>1, <1>2 DEF ClerkSound, ClerkKnowledge, Clerk!CountInv
<1> HIDE DEF s
<1>9. Clerk!TypeOK'
  <2>1. label'[Clerk!Reserved] # None
    BY <1>2, <1>3, <1>4, ClerkSlugs
  <2>2. twinned' \subseteq Clerk!Slugs /\ orphaned' \subseteq Rows
    BY <1>1 DEF ClerkSound, Clerk!TypeOK, Clerk!Uses
  <2> QED
    BY <1>1, <1>4, <1>7, <2>1, <2>2 DEF ClerkSound, Clerk!TypeOK, ClerkJobs, ClerkSteps
<1>10. Clerk!JobsInv'
  BY <1>7, ClerkSlugs DEF ClerkSound, ClerkKnowledge, Clerk!JobsInv
<1>11. Clerk!FilingInv'
  BY <1>5, <1>7 DEF ClerkSound, ClerkKnowledge, Clerk!FilingInv
<1>12. Clerk!CountInv'
  BY <1>1, <1>7 DEF ClerkSound, ClerkKnowledge, Clerk!CountInv, Clerk!Unused, Clerk!Uses
<1>13. Clerk!NameInv'
  <2> SUFFICES ASSUME NEW v \in Workers, clerkPc'[v] \in {"naming", "renaming"},
                      ~clerkJob'[v].missed
               PROVE  /\ clerkPc'[v] = "naming" => clerkJob'[v].label \notin Clerk!Named'
                      /\ clerkPc'[v] = "renaming" =>
                           \A t \in Clerk!Listed' \ {clerkJob'[v].slug} :
                               label'[t] # clerkJob'[v].label
    BY DEF Clerk!NameInv, Clerk!NoClash
  <2>1. /\ v # w /\ clerkPc[v] = clerkPc'[v] /\ clerkPc[v] # "filing"
        /\ clerkJob'[v].label = clerkJob[v].label /\ clerkJob'[v].missed = clerkJob[v].missed
        /\ clerkJob'[v].slug # clerkJob[v].slug =>
             clerkJob[v].slug = s /\ clerkJob'[v].slug = Clerk!Unfiled
    <3>1. v # w /\ clerkPc[v] = clerkPc'[v] /\ clerkPc[v] # "filing"
      BY <1>7
    <3>2. CASE clerkJob[v].slug # s \/ clerkJob[v].other
      BY <1>7, <3>1, <3>2
    <3>3. CASE clerkJob[v].slug = s /\ ~clerkJob[v].other
      BY <1>7, <3>1, <3>3
    <3> QED
      BY <3>1, <3>2, <3>3
  <2>2. ASSUME clerkPc[v] = "naming" PROVE clerkJob[v].label \notin Clerk!Named'
    <3>1. clerkJob[v].label \notin Clerk!Named
      BY <2>1, <2>2 DEF ClerkSound, ClerkKnowledge, Clerk!NameInv
    <3> QED
      BY <1>2, <1>4, <1>5, <3>1 DEF Clerk!Named
  <2>3. ASSUME clerkPc[v] = "renaming"
        PROVE  \A t \in Clerk!Listed' \ {clerkJob'[v].slug} : label'[t] # clerkJob'[v].label
    <3>1. \A t \in Clerk!Listed \ {clerkJob[v].slug} : label[t] # clerkJob[v].label
      BY <2>1, <2>3 DEF ClerkSound, ClerkKnowledge, Clerk!NameInv, Clerk!NoClash
    <3> QED
      BY <1>2, <1>4, <1>5, <2>1, <3>1
  <2> QED
    BY <2>1, <2>2, <2>3
<1>14. Clerk!UsesNamed'
  BY <1>1, <1>5, <1>8 DEF ClerkSound, Clerk!UsesNamed, Clerk!Unused, Clerk!Uses
<1>15. Clerk!LabelTwins'
  BY <1>1, <1>2, <1>4, <1>5 DEF ClerkSound, Clerk!LabelTwins
<1> QED
  BY <1>5, <1>9, <1>10, <1>11, <1>12, <1>13, <1>14, <1>15 DEF ClerkSound, ClerkKnowledge

\* A ledger entry is filed under a category that was checked before.
LEMMA FileKeeps ==
  ASSUME ClerkSound, NEW w \in Workers, Clerk!File(w)
  PROVE  ClerkSound'
<1> DEFINE j == clerkJob[w]
           r == j.row
           s == IF "category" \in j.body THEN j.slug ELSE filed[r]
           other == IF "type" \in j.body THEN j.other ELSE r \in away
           unchecked == j.missed \/ s # j.slug \/ other # j.other
           counted == {v \in Workers : clerkPc[v] = "deleting" /\ ~other /\ clerkJob[v].slug = s}
<1>1. /\ clerkPc[w] = "filing"
      /\ j.body # Clerk!Halves => filed[r] # Clerk!Unfiled
      /\ filed' = [filed EXCEPT ![r] = s]
      /\ away' = Clerk!Tagged(away, r, other)
      /\ orphaned' = Clerk!Tagged(orphaned, r, ~other /\ unchecked)
      /\ Clerk!Done(w, Clerk!Missed(counted))
      /\ label' = label /\ twinned' = twinned
  BY DEF Clerk!File
<1>2. r \in Rows /\ s \in Clerk!Slugs /\ (other \/ s \in Clerk!Listed \/ unchecked)
  <2>1. /\ r \in Rows /\ j.slug \in Clerk!Slugs
        /\ j.other \/ j.slug \in Clerk!Listed \/ j.missed
    BY <1>1 DEF ClerkSound, ClerkKnowledge, Clerk!JobsInv, Clerk!FilingInv
  <2>2. filed[r] \in Clerk!Slugs \cup {Clerk!Unfiled} /\ j.body \subseteq Clerk!Halves
    BY <2>1 DEF ClerkSound, Clerk!TypeOK, Clerk!Job
  <2>3. s \in Clerk!Slugs
    BY <1>1, <2>1, <2>2 DEF Clerk!Halves
  <2> QED
    BY <2>1, <2>3
<1>3. /\ filed' \in [Rows -> Clerk!Slugs \cup {Clerk!Unfiled}]
      /\ filed'[r] = s /\ \A q \in Rows \ {r} : filed'[q] = filed[q]
  BY <1>1, <1>2 DEF ClerkSound, Clerk!TypeOK
<1>4. Clerk!Listed' = Clerk!Listed /\ Clerk!Named' = Clerk!Named
  BY <1>1 DEF Clerk!Listed, Clerk!Named
<1>5. ClerkJobs
  BY DEF ClerkSound, Clerk!TypeOK, ClerkJobs, ClerkSteps
<1>6. /\ ClerkJobs' /\ clerkPc'[w] = "idle" /\ clerkJob'[w] = Clerk!NoJob
      /\ \A v \in Workers \ {w} :
           /\ clerkPc'[v] = clerkPc[v]
           /\ clerkJob'[v].slug = clerkJob[v].slug /\ clerkJob'[v].label = clerkJob[v].label
           /\ clerkJob'[v].row = clerkJob[v].row /\ clerkJob'[v].other = clerkJob[v].other
           /\ v \in counted => clerkJob'[v].missed
           /\ v \notin counted => clerkJob'[v].missed = clerkJob[v].missed
  BY <1>1, <1>5, MissedJobs
<1>7. \A v \in Workers :
        v \in counted <=> clerkPc[v] = "deleting" /\ ~other /\ clerkJob[v].slug = s
  OBVIOUS
<1> HIDE DEF j, r, s, other, unchecked, counted
<1>8. Clerk!TypeOK'
  <2>1. orphaned' \subseteq Rows /\ away' \subseteq Rows
    BY <1>1, <1>2 DEF ClerkSound, Clerk!TypeOK, Clerk!Tagged
  <2> QED
    BY <1>1, <1>3, <1>6, <2>1 DEF ClerkSound, Clerk!TypeOK, ClerkJobs, ClerkSteps
<1>9. Clerk!JobsInv'
  BY <1>6 DEF ClerkSound, ClerkKnowledge, Clerk!JobsInv
<1>10. Clerk!FilingInv'
  BY <1>4, <1>6, <1>7 DEF ClerkSound, ClerkKnowledge, Clerk!FilingInv
<1>11. Clerk!CountInv'
  <2> SUFFICES ASSUME NEW v \in Workers, clerkPc'[v] = "deleting", ~clerkJob'[v].missed,
                      clerkJob'[v].slug # Clerk!Unfiled
               PROVE  \A q \in Rows \ away' : filed'[q] # clerkJob'[v].slug
    BY DEF Clerk!CountInv, Clerk!Unused, Clerk!Uses
  <2>1. /\ v # w /\ clerkPc[v] = "deleting" /\ v \notin counted
        /\ clerkJob'[v].slug = clerkJob[v].slug /\ clerkJob'[v].missed = clerkJob[v].missed
    BY <1>6
  <2>2. Clerk!Unused(clerkJob[v].slug) /\ (other \/ clerkJob[v].slug # s)
    BY <1>7, <2>1 DEF ClerkSound, ClerkKnowledge, Clerk!CountInv
  <2>3. (other => r \in away') /\ \A q \in Rows \ {r} : q \in away => q \in away'
    BY <1>1 DEF Clerk!Tagged
  <2> QED
    BY <1>3, <2>1, <2>2, <2>3 DEF Clerk!Unused, Clerk!Uses
<1>12. Clerk!NameInv'
  BY <1>1, <1>4, <1>6, <1>7 DEF ClerkSound, ClerkKnowledge, Clerk!NameInv, Clerk!NoClash
<1>13. Clerk!UsesNamed'
  <2>1. (other => r \in away') /\ (~other /\ unchecked => r \in orphaned')
    BY <1>1 DEF Clerk!Tagged
  <2>2. \A q \in Rows \ {r} :
          (q \in orphaned => q \in orphaned') /\ (q \in away => q \in away')
    BY <1>1 DEF Clerk!Tagged
  <2> QED
    BY <1>2, <1>3, <1>4, <2>1, <2>2 DEF ClerkSound, Clerk!UsesNamed
<1>14. Clerk!LabelTwins'
  BY <1>1, <1>4 DEF ClerkSound, Clerk!LabelTwins
<1> QED
  BY <1>8, <1>9, <1>10, <1>11, <1>12, <1>13, <1>14 DEF ClerkSound, ClerkKnowledge

\* A ledger entry is deleted.
LEMMA DropKeeps ==
  ASSUME ClerkSound, NEW r \in Rows, Clerk!Drop(r)
  PROVE  ClerkSound'
<1>1. /\ filed' = [filed EXCEPT ![r] = Clerk!Unfiled]
      /\ away' = away \ {r} /\ orphaned' = orphaned \ {r}
      /\ UNCHANGED <<label, clerkPc, clerkJob, twinned>>
  BY DEF Clerk!Drop
<1>2. /\ filed' \in [Rows -> Clerk!Slugs \cup {Clerk!Unfiled}]
      /\ filed'[r] = Clerk!Unfiled /\ \A q \in Rows \ {r} : filed'[q] = filed[q]
  BY <1>1 DEF ClerkSound, Clerk!TypeOK
<1>3. Clerk!Listed' = Clerk!Listed /\ Clerk!Named' = Clerk!Named
  BY <1>1 DEF Clerk!Listed, Clerk!Named
<1>4. Clerk!TypeOK'
  BY <1>1, <1>2 DEF ClerkSound, Clerk!TypeOK
<1>5. Clerk!JobsInv' /\ Clerk!FilingInv'
  BY <1>1, <1>3 DEF ClerkSound, ClerkKnowledge, Clerk!JobsInv, Clerk!FilingInv
<1>6. Clerk!CountInv'
  <2> SUFFICES ASSUME NEW v \in Workers, clerkPc[v] = "deleting", ~clerkJob[v].missed,
                      clerkJob[v].slug # Clerk!Unfiled
               PROVE  \A q \in Rows \ away' : filed'[q] # clerkJob[v].slug
    BY <1>1 DEF Clerk!CountInv, Clerk!Unused, Clerk!Uses
  <2>1. \A q \in Rows \ away : filed[q] # clerkJob[v].slug
    BY DEF ClerkSound, ClerkKnowledge, Clerk!CountInv, Clerk!Unused, Clerk!Uses
  <2> QED
    BY <1>1, <1>2, <2>1
<1>7. Clerk!NameInv'
  BY <1>1, <1>3 DEF ClerkSound, ClerkKnowledge, Clerk!NameInv, Clerk!NoClash
<1>8. Clerk!UsesNamed' /\ Clerk!LabelTwins'
  BY <1>1, <1>2, <1>3 DEF ClerkSound, Clerk!UsesNamed, Clerk!LabelTwins
<1> QED
  BY <1>4, <1>5, <1>6, <1>7, <1>8 DEF ClerkSound, ClerkKnowledge

\* Every step keeps IInv but for the limit.
LEMMA SoundStep ==
  ASSUME ClerkSound, [Clerk!Next]_Clerk!vars
  PROVE  ClerkSound'
<1>1. ASSUME NEW w \in Workers, NEW l \in Labels, Clerk!CountForCreate(w, l) PROVE ClerkSound'
  <2>1. [Clerk!NoJob EXCEPT !.label = l] \in Clerk!Job /\ [Clerk!NoJob EXCEPT !.label = l].label = l
    BY DEF Clerk!NoJob, Clerk!Job
  <2> QED
    BY <1>1, <2>1, GoKeeps DEF Clerk!CountForCreate, ClerkSteps
<1>2. ASSUME NEW w \in Workers, Clerk!ReadSiblings(w) PROVE ClerkSound'
  <2>1. CASE clerkJob[w].label \in Clerk!Named
    BY <1>2, <2>1, FailKeeps DEF Clerk!ReadSiblings
  <2>2. CASE clerkJob[w].label \notin Clerk!Named
    <3> DEFINE j == [clerkJob[w] EXCEPT !.seen = Clerk!Listed]
    <3>1. /\ clerkJob[w] \in Clerk!Job /\ clerkJob[w].label \in Labels
          /\ Clerk!Listed \subseteq Clerk!Slugs
      BY <1>2
         DEF Clerk!ReadSiblings, ClerkSound, Clerk!TypeOK, ClerkKnowledge, Clerk!JobsInv,
             Clerk!Listed
    <3>2. j \in Clerk!Job /\ j.label = clerkJob[w].label
      BY <3>1 DEF Clerk!Job
    <3>3. Clerk!Go(w, "naming", j)
      BY <1>2, <2>2 DEF Clerk!ReadSiblings
    <3> QED
      BY <2>2, <3>1, <3>2, <3>3, GoKeeps DEF ClerkSteps
  <2> QED
    BY <2>1, <2>2
<1>3. ASSUME NEW w \in Workers, Clerk!Insert(w) PROVE ClerkSound'
  BY <1>3, InsertKeeps
<1>4. ASSUME NEW w \in Workers, NEW s \in Clerk!Slugs, NEW l \in Labels,
             Clerk!ReadForRename(w, s, l)
      PROVE  ClerkSound'
  <2> DEFINE j == [Clerk!NoJob EXCEPT !.slug = s, !.label = l]
  <2>1. j \in Clerk!Job /\ j.slug = s /\ j.label = l
    BY DEF Clerk!NoJob, Clerk!Job
  <2>2. Clerk!NoClash(s, l) /\ Clerk!Go(w, "renaming", j)
    BY <1>4 DEF Clerk!ReadForRename
  <2> HIDE DEF j
  <2> QED
    BY <2>1, <2>2, GoKeeps DEF ClerkSteps
<1>5. ASSUME NEW w \in Workers, Clerk!Rename(w) PROVE ClerkSound'
  BY <1>5, RenameKeeps
<1>6. ASSUME NEW w \in Workers, NEW s \in Clerk!Slugs, Clerk!CountUses(w, s) PROVE ClerkSound'
  <2> DEFINE j == [Clerk!NoJob EXCEPT !.slug = s]
  <2>1. j \in Clerk!Job /\ j.slug = s
    BY DEF Clerk!NoJob, Clerk!Job
  <2>2. s # Clerk!Reserved /\ Clerk!Unused(s) /\ Clerk!Go(w, "deleting", j)
    BY <1>6 DEF Clerk!CountUses
  <2> HIDE DEF j
  <2> QED
    BY <2>1, <2>2, GoKeeps DEF ClerkSteps
<1>7. ASSUME NEW w \in Workers, Clerk!Delete(w) PROVE ClerkSound'
  BY <1>7, DeleteKeeps
<1>8. ASSUME NEW w \in Workers, NEW r \in Rows, NEW body \in SUBSET Clerk!Halves,
             NEW slug \in Clerk!Slugs, NEW gone \in BOOLEAN,
             Clerk!StartFile(w, r, body, slug, gone)
      PROVE  ClerkSound'
  <2> DEFINE s == IF "category" \in body THEN slug ELSE filed[r]
             other == IF "type" \in body THEN gone ELSE r \in away
             j == [Clerk!NoJob EXCEPT !.row = r, !.slug = s, !.body = body, !.other = other,
                                      !.missed = ~other /\ s \notin Clerk!Listed]
  <2>1. /\ Clerk!Go(w, "filing", j)
        /\ IF other THEN s \in Across
           ELSE s \in Clerk!Listed \/ (body = Clerk!Halves /\ Clerk!Uses(s) # {})
    BY <1>8 DEF Clerk!StartFile
  <2>2. s \in Clerk!Slugs
    <3>1. body = Clerk!Halves => s = slug
      BY DEF Clerk!Halves
    <3>2. Clerk!Listed \subseteq Clerk!Slugs /\ Across \subseteq Clerk!Slugs
      BY ClerkAssumption DEF Clerk!Listed
    <3> HIDE DEF s, other
    <3> QED
      BY <2>1, <3>1, <3>2
  <2>3. other \in BOOLEAN
    <3>1. CASE "type" \in body
      BY <3>1
    <3>2. CASE "type" \notin body
      <4>1. r \in away => other = TRUE
        BY <3>2
      <4>2. r \notin away => other = FALSE
        BY <3>2
      <4> QED
        BY <4>1, <4>2
    <3> QED
      BY <3>1, <3>2
  <2> HIDE DEF s, other
  <2>4. /\ j \in Clerk!Job /\ j.row = r /\ j.slug = s
        /\ (j.other \/ s \in Clerk!Listed \/ j.missed)
    BY <2>2, <2>3 DEF Clerk!NoJob, Clerk!Job
  <2> HIDE DEF j
  <2> QED
    BY <2>1, <2>2, <2>4, GoKeeps DEF ClerkSteps
<1>9. ASSUME NEW w \in Workers, Clerk!File(w) PROVE ClerkSound'
  BY <1>9, FileKeeps
<1>10. ASSUME NEW w \in Workers, Clerk!Fail(w) PROVE ClerkSound'
  BY <1>10, FailKeeps DEF Clerk!Fail
<1>11. ASSUME NEW r \in Rows, Clerk!Drop(r) PROVE ClerkSound'
  BY <1>11, DropKeeps
<1>12. CASE UNCHANGED Clerk!vars
  BY <1>12
     DEF Clerk!vars, ClerkSound, Clerk!TypeOK, ClerkKnowledge, Clerk!JobsInv, Clerk!FilingInv,
         Clerk!CountInv, Clerk!NameInv,
       Clerk!UsesNamed, Clerk!LabelTwins, Clerk!Listed, Clerk!Named, Clerk!Unused, Clerk!Uses, Clerk!NoClash
<1> QED
  BY <1>1, <1>2, <1>3, <1>4, <1>5, <1>6, <1>7, <1>8, <1>9, <1>10, <1>11, <1>12 DEF Clerk!Next

-----------------------------------------------------------------------------
(* The limit *)

\* The sets that are counted are finite.
LEMMA ClerkFinite ==
  /\ IsFiniteSet(Clerk!Listed) /\ Clerk!Cardinality(Clerk!Listed) \in Nat
  /\ IsFiniteSet(Clerk!Claiming) /\ Clerk!Cardinality(Clerk!Claiming) \in Nat
  /\ Clerk!Cardinality(Clerk!Claiming) <= Clerk!Cardinality(Workers)
  /\ Clerk!Cardinality(Workers) \in Nat
<1>1. IsFiniteSet(Clerk!Slugs)
  BY FS_Interval DEF Clerk!Slugs
<1>2. Clerk!Listed \subseteq Clerk!Slugs /\ Clerk!Claiming \subseteq Workers
  BY DEF Clerk!Listed, Clerk!Claiming
<1> QED
  BY SameCount, <1>1, <1>2, FS_Subset, FS_CardinalityType

\* Nothing is added, and nobody new was told that there is room.
LEMMA NoneAdded ==
  ASSUME Clerk!RoomInv, Clerk!Listed' \subseteq Clerk!Listed,
         Clerk!Claiming' \subseteq Clerk!Claiming
  PROVE  Clerk!RoomInv'
<1>1. /\ Clerk!Cardinality(Clerk!Listed') <= Clerk!Cardinality(Clerk!Listed)
      /\ Clerk!Cardinality(Clerk!Listed') \in Nat
      /\ Clerk!Cardinality(Clerk!Claiming') <= Clerk!Cardinality(Clerk!Claiming)
      /\ Clerk!Cardinality(Clerk!Claiming') \in Nat
  BY SameCount, ClerkFinite, FS_Subset, FS_CardinalityType
<1> QED
  BY <1>1, ClerkFinite DEF Clerk!RoomInv

\* A step to idle, or on to naming, which says nothing new about room.
LEMMA OnesStep ==
  ASSUME NEW w \in Workers,
         \A v \in Workers \ {w} : clerkPc'[v] = clerkPc[v],
         clerkPc'[w] \in {"counted", "naming"} => clerkPc[w] \in {"counted", "naming"}
  PROVE  Clerk!Claiming' \subseteq Clerk!Claiming
BY DEF Clerk!Claiming

\* A request that goes on adds no category.
LEMMA GoMoves ==
  ASSUME Clerk!TypeOK, NEW w \in Workers, NEW step, NEW j, Clerk!Go(w, step, j)
  PROVE  /\ clerkPc'[w] = step /\ \A v \in Workers \ {w} : clerkPc'[v] = clerkPc[v]
         /\ Clerk!Listed' = Clerk!Listed
BY DEF Clerk!TypeOK, Clerk!Go, Clerk!Listed

\* Nobody else moves when a request finishes.
LEMMA DoneMoves ==
  ASSUME Clerk!TypeOK, NEW w \in Workers, NEW others, Clerk!Done(w, others)
  PROVE  clerkPc'[w] = "idle" /\ \A v \in Workers \ {w} : clerkPc'[v] = clerkPc[v]
BY DEF Clerk!TypeOK, Clerk!Done

\* Every step keeps the limit.
LEMMA RoomStep ==
  ASSUME ClerkSound, Clerk!RoomInv, [Clerk!Next]_Clerk!vars
  PROVE  Clerk!RoomInv'
<1>0. Clerk!TypeOK
  BY DEF ClerkSound
<1>1. ASSUME NEW w \in Workers, NEW l \in Labels, Clerk!CountForCreate(w, l) PROVE Clerk!RoomInv'
  <2>1. Clerk!Cardinality(Clerk!Listed) < MaxCategories /\ Clerk!Listed' = Clerk!Listed
    BY <1>0, <1>1, GoMoves DEF Clerk!CountForCreate, Clerk!BelowCap
  <2>2. Clerk!Claiming' \subseteq Workers
    BY DEF Clerk!Claiming
  <2>3. /\ Clerk!Cardinality(Clerk!Claiming') <= Clerk!Cardinality(Workers)
        /\ Clerk!Cardinality(Clerk!Claiming') \in Nat
    BY SameCount, <2>2, FS_Subset, FS_CardinalityType
  <2> QED
    BY <2>1, <2>3, ClerkFinite DEF Clerk!RoomInv
<1>2. ASSUME NEW w \in Workers, Clerk!ReadSiblings(w) PROVE Clerk!RoomInv'
  <2>1. /\ clerkPc[w] = "counted" /\ clerkPc'[w] \in {"idle", "naming"}
        /\ \A v \in Workers \ {w} : clerkPc'[v] = clerkPc[v]
        /\ Clerk!Listed' = Clerk!Listed
    BY <1>0, <1>2, GoMoves DEF Clerk!ReadSiblings
  <2> QED
    BY <2>1, OnesStep, NoneAdded
<1>3. ASSUME NEW w \in Workers, Clerk!Insert(w) PROVE Clerk!RoomInv'
  <2>1. PICK s \in Clerk!Slugs \ Clerk!Listed : Clerk!Listed' = Clerk!Listed \cup {s}
    BY <1>3, InsertKeeps
  <2>2. Clerk!Cardinality(Clerk!Listed') = Clerk!Cardinality(Clerk!Listed) + 1
    BY SameCount, <2>1, ClerkFinite, FS_AddElement
  <2>3. clerkPc[w] = "naming" /\ clerkPc'[w] = "idle" /\ \A v \in Workers \ {w} :
          clerkPc'[v] = clerkPc[v]
    BY <1>0, <1>3, DoneMoves DEF Clerk!Insert
  <2>4. w \in Clerk!Claiming /\ Clerk!Claiming' = Clerk!Claiming \ {w}
    BY <2>3 DEF Clerk!Claiming
  <2>5. Clerk!Cardinality(Clerk!Claiming') = Clerk!Cardinality(Clerk!Claiming) - 1
    BY SameCount, <2>4, ClerkFinite, FS_RemoveElement
  <2> QED
    BY <2>2, <2>5, ClerkFinite DEF Clerk!RoomInv
<1>4. ASSUME NEW w \in Workers, NEW s \in Clerk!Slugs, NEW l \in Labels,
             Clerk!ReadForRename(w, s, l)
      PROVE  Clerk!RoomInv'
  BY <1>0, <1>4, GoMoves, OnesStep, NoneAdded DEF Clerk!ReadForRename
<1>5. ASSUME NEW w \in Workers, Clerk!Rename(w) PROVE Clerk!RoomInv'
  <2>1. clerkPc'[w] = "idle" /\ \A v \in Workers \ {w} : clerkPc'[v] = clerkPc[v]
    BY <1>0, <1>5, DoneMoves DEF Clerk!Rename
  <2> QED
    BY <1>5, <2>1, RenameKeeps, OnesStep, NoneAdded
<1>6. ASSUME NEW w \in Workers, NEW s \in Clerk!Slugs, Clerk!CountUses(w, s) PROVE Clerk!RoomInv'
  BY <1>0, <1>6, GoMoves, OnesStep, NoneAdded DEF Clerk!CountUses
<1>7. ASSUME NEW w \in Workers, Clerk!Delete(w) PROVE Clerk!RoomInv'
  <2>1. clerkPc'[w] = "idle" /\ \A v \in Workers \ {w} : clerkPc'[v] = clerkPc[v]
    BY <1>0, <1>7, DoneMoves DEF Clerk!Delete
  <2> QED
    BY <1>7, <2>1, DeleteKeeps, OnesStep, NoneAdded
<1>8. ASSUME NEW w \in Workers, NEW r \in Rows, NEW body \in SUBSET Clerk!Halves,
             NEW slug \in Clerk!Slugs, NEW gone \in BOOLEAN,
             Clerk!StartFile(w, r, body, slug, gone)
      PROVE  Clerk!RoomInv'
  BY <1>0, <1>8, GoMoves, OnesStep, NoneAdded DEF Clerk!StartFile
<1>9. ASSUME NEW w \in Workers, Clerk!File(w) PROVE Clerk!RoomInv'
  <2>1. clerkPc'[w] = "idle" /\ \A v \in Workers \ {w} : clerkPc'[v] = clerkPc[v]
    BY <1>0, <1>9, DoneMoves DEF Clerk!File
  <2>2. Clerk!Listed' = Clerk!Listed
    BY <1>9 DEF Clerk!File, Clerk!Listed
  <2> QED
    BY <2>1, <2>2, OnesStep, NoneAdded
<1>10. ASSUME NEW w \in Workers, Clerk!Fail(w) PROVE Clerk!RoomInv'
  BY <1>0, <1>10, GoMoves, OnesStep, NoneAdded DEF Clerk!Fail
<1>11. ASSUME UNCHANGED <<label, clerkPc>> PROVE Clerk!RoomInv'
  BY <1>11 DEF Clerk!RoomInv, Clerk!Listed, Clerk!Claiming
<1> QED
  BY <1>1, <1>2, <1>3, <1>4, <1>5, <1>6, <1>7, <1>8, <1>9, <1>10, <1>11
     DEF Clerk!Next, Clerk!Drop, Clerk!vars

-----------------------------------------------------------------------------
(* Theorems *)

\* A chapter starts with the reserved category alone.
LEMMA ClerkInitIInv ==
  ASSUME Clerk!Init
  PROVE  Clerk!IInv
<1>1. Clerk!TypeOK
  BY ClerkNullJobType, ClerkSlugs DEF Clerk!Init, Clerk!TypeOK, Clerk!Job
<1>2. Clerk!Listed = {Clerk!Reserved}
  BY ClerkSlugs DEF Clerk!Init, Clerk!Listed
<1>3. Clerk!JobsInv /\ Clerk!FilingInv /\ Clerk!CountInv /\ Clerk!NameInv
  BY DEF Clerk!Init, Clerk!JobsInv, Clerk!FilingInv, Clerk!CountInv, Clerk!NameInv
<1>4. Clerk!UsesNamed /\ Clerk!LabelTwins
  BY <1>2 DEF Clerk!Init, Clerk!UsesNamed, Clerk!LabelTwins
<1>5. Clerk!RoomInv
  <2>1. Clerk!Claiming = {}
    BY DEF Clerk!Init, Clerk!Claiming
  <2>2. Clerk!Cardinality(Clerk!Listed) = 1 /\ Clerk!Cardinality(Clerk!Claiming) = 0
    BY SameCount, <1>2, <2>1, FS_Singleton, FS_EmptySet
  <2> QED
    BY <2>2, ClerkFinite DEF Clerk!RoomInv
<1> QED
  BY <1>1, <1>3, <1>4, <1>5 DEF Clerk!IInv

\* IInv holds in every reachable state, for any labels, rows and finite number of
\* requests of transaction-category-service.
THEOREM ClerkInductive == Clerk!Spec => []Clerk!IInv
<1>1. Clerk!IInv /\ [Clerk!Next]_Clerk!vars => Clerk!IInv'
  BY SoundStep, RoomStep DEF Clerk!IInv, ClerkSound, ClerkKnowledge
<1> QED
  BY <1>1, ClerkInitIInv, PTL DEF Clerk!Spec

\* deleteTransactionCategory: a row names a category that is listed on its side, unless it
\* was filed between a check and the statement that relied on it, or an edit moved the other
\* half of its pair in between.
THEOREM UsesNamedAlways == Clerk!Spec => []UsesNamed
<1>1. Clerk!IInv => UsesNamed
  BY DEF Clerk!IInv, UsesNamed
<1> QED
  BY <1>1, ClerkInductive, PTL

\* createTransactionCategory, updateTransactionCategory: no two categories of one label,
\* but where two requests gave it at once.
THEOREM LabelTwinsAlways == Clerk!Spec => []LabelTwins
<1>1. Clerk!IInv => LabelTwins
  BY DEF Clerk!IInv, LabelTwins
<1> QED
  BY <1>1, ClerkInductive, PTL

\* MAX_CATEGORIES_PER_ORG is passed by no more than the requests that counted together.
THEOREM CapBoundedAlways == Clerk!Spec => []CapBounded
<1>1. Clerk!IInv => CapBounded
  BY ClerkFinite DEF Clerk!IInv, Clerk!RoomInv, CapBounded, Clerk!CapBounded
<1> QED
  BY <1>1, ClerkInductive, PTL

-----------------------------------------------------------------------------
(* The four together *)

\* A behaviour of MCLinks is a behaviour of each of its parts, so that what the theorems say
\* of a part holds of the specification that the run checks.
THEOREM PartsApart == MCSpec => Spec /\ Board!Spec /\ Night!Spec /\ Clerk!Spec
<1>1. MCInit => Init /\ Board!Init /\ Night!Init /\ Clerk!Init
  BY DEF MCInit
<1>2. [MCNext]_<<part, vars, boardVars, partyVars, clerkVars>> =>
        [Next]_vars /\ [Board!Next]_Board!vars /\ [Night!Next]_Night!vars
        /\ [Clerk!Next]_Clerk!vars
  BY DEF MCNext, vars, boardVars, partyVars, clerkVars, Board!vars, Night!vars, Night!calendar,
         Clerk!vars
<1> QED
  BY <1>1, <1>2, PTL DEF MCSpec, Spec, Board!Spec, Night!Spec, Clerk!Spec
=============================================================================
