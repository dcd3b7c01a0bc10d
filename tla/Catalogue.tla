----------------------------- MODULE Catalogue -----------------------------
(***************************************************************************)
(* The catalogue of a chapter's transaction categories on one side of the  *)
(* ledger (transaction-category-service.ts) and the rows that name them:   *)
(* entries of the ledger, reimbursements and lines of a budget store the   *)
(* slug, with no foreign key.  Every handler checks first and writes later *)
(* without a transaction; what stands between the two is the unique key of *)
(* the slug.                                                               *)
(*                                                                         *)
(* A row of the ledger is on one side or the other; the catalogue of the   *)
(* other side may hold, at any time, any of the slugs in Across.           *)
(*                                                                         *)
(* The labels here all fold to one base, so a slug is its suffix: 1 is the *)
(* bare base, 2 is base-2.  Slug 0 is the reserved one the treasury posts  *)
(* to by itself.  Colours, order and hidden (a hint to a picker) are left  *)
(* out.  The custom fields of events have a catalogue of the same shape    *)
(* (event-field-service.ts), with the answers of events for rows.          *)
(***************************************************************************)
EXTENDS Naturals, FiniteSets

CONSTANTS
  Labels,        \* names an officer may give, up to letter case
  Seeded,        \* the one of them that the reserved category is seeded with
  Rows,          \* entries, reimbursements and budget lines
  Clerks,        \* concurrent requests
  MaxCategories, \* MAX_CATEGORIES_PER_ORG, less the categories of the other side
  MaxSuffix,     \* bound: suffixes in use
  Across,        \* slugs that are in use on the other side
  Nobody         \* no label, no row

VARIABLES
  label,    \* the label of every live slug
  filed,    \* the slug every row names
  away,     \* rows that are on the other side
  pc, job,  \* where each request is, and what it remembers
  twinned,  \* ghost: slugs whose label was written after a check gone stale
  orphaned  \* ghost: rows that were filed, or robbed, after a check gone stale

vars == <<label, filed, away, pc, job, twinned, orphaned>>

Reserved == 0
Slugs == 0..MaxSuffix
Unfiled == MaxSuffix + 1

\* slug: that of the category as it was read, Unfiled once that one is deleted; seen: the
\* slugs that were read; body: which of type and category a row is given; other: the side
\* is not this one; missed (ghost): another request has written, since this one checked,
\* what the check was about.
Halves == {"type", "category"}
Job == [slug : Slugs \cup {Unfiled}, label : Labels \cup {Nobody}, row : Rows \cup {Nobody},
        seen : SUBSET Slugs, body : SUBSET Halves, other : BOOLEAN, missed : BOOLEAN]
NoJob == [slug |-> Unfiled, label |-> Nobody, row |-> Nobody, seen |-> {}, body |-> {},
          other |-> FALSE, missed |-> FALSE]

Listed == {s \in Slugs : label[s] # Nobody}
Named == {label[s] : s \in Listed}

Init ==
  /\ label = [s \in Slugs |-> IF s = Reserved THEN Seeded ELSE Nobody]
  /\ filed = [r \in Rows |-> Unfiled] /\ away = {}
  /\ pc = [w \in Clerks |-> "idle"]
  /\ job = [w \in Clerks |-> NoJob]
  /\ twinned = {} /\ orphaned = {}

Go(w, step, j) ==
  /\ pc' = [pc EXCEPT ![w] = step]
  /\ job' = [job EXCEPT ![w] = j]
  /\ UNCHANGED <<label, filed, away, twinned, orphaned>>

\* What others remember, these having missed something.
Missed(who) == [v \in Clerks |-> IF v \in who THEN [job[v] EXCEPT !.missed = TRUE] ELSE job[v]]

Done(w, others) ==
  /\ pc' = [pc EXCEPT ![w] = "idle"]
  /\ job' = [others EXCEPT ![w] = NoJob]

-----------------------------------------------------------------------------
(* createTransactionCategory *)

AnyCount == TRUE                               \* mutant: the catalogue has no limit
BelowCap == Cardinality(Listed) < MaxCategories

CountForCreate(w, l) ==
  /\ pc[w] = "idle"
  /\ BelowCap
  /\ Go(w, "counted", [NoJob EXCEPT !.label = l])

\* The duplicate guard is on the label, and the slug avoids those of the siblings.
ReadSiblings(w) ==
  /\ pc[w] = "counted"
  /\ IF job[w].label \in Named THEN Go(w, "idle", NoJob)
     ELSE Go(w, "naming", [job[w] EXCEPT !.seen = Listed])

FirstFree(taken) == CHOOSE s \in (Slugs \cup {Unfiled}) \ (taken \cup {Reserved}) :
                      \A t \in Slugs \ (taken \cup {Reserved}) : s <= t

\* Those who have found that no category is called so.
Naming(l) == {v \in Clerks : pc[v] \in {"naming", "renaming"} /\ job[v].label = l}
Tagged(set, x, yes) == IF yes THEN set \cup {x} ELSE set \ {x}

\* The unique key on (kind, slug) refuses the second of two.
Insert(w) ==
  LET s == FirstFree(job[w].seen) IN
  /\ pc[w] = "naming"
  /\ s \in Slugs \ Listed
  /\ label' = [label EXCEPT ![s] = job[w].label]
  /\ twinned' = Tagged(twinned, s, job[w].missed)
  /\ Done(w, Missed(Naming(job[w].label)))
  /\ UNCHANGED <<filed, away, orphaned>>

-----------------------------------------------------------------------------
(* updateTransactionCategory with a label, of a reserved category as well *)

AnyName(s, l) == TRUE                          \* mutant: a rename does not look round
NoClash(s, l) == \A t \in Listed \ {s} : label[t] # l

ReadForRename(w, s, l) ==
  /\ pc[w] = "idle"
  /\ s \in Listed /\ NoClash(s, l)
  /\ Go(w, "renaming", [NoJob EXCEPT !.slug = s, !.label = l])

Rename(w) ==
  LET s == job[w].slug IN
  /\ pc[w] = "renaming"
  /\ s \in Listed
  /\ label' = [label EXCEPT ![s] = job[w].label]
  /\ twinned' = Tagged(twinned, s, job[w].missed)
  /\ Done(w, Missed(Naming(job[w].label)))
  /\ UNCHANGED <<filed, away, orphaned>>

-----------------------------------------------------------------------------
(* deleteTransactionCategory *)

Unasked(s) == TRUE                             \* mutant: deleted without a count
Uses(s) == {r \in Rows \ away : filed[r] = s}
Unused(s) == Uses(s) = {}

CountUses(w, s) ==
  /\ pc[w] = "idle"
  /\ s \in Listed \ {Reserved} /\ Unused(s)
  /\ Go(w, "deleting", [NoJob EXCEPT !.slug = s])

\* A row that is being filed names the slug; a rename or another deletion, the category.
Delete(w) ==
  LET s == job[w].slug
      at == {v \in Clerks : job[v].slug = s /\ ~job[v].other}
  IN
  /\ pc[w] = "deleting"
  /\ s \in Listed
  /\ label' = [label EXCEPT ![s] = Nobody]
  /\ twinned' = twinned \ {s}
  /\ orphaned' = IF job[w].missed THEN orphaned \cup Uses(s) ELSE orphaned
  /\ Done(w, [v \in Clerks |->
                IF v \notin at THEN job[v]
                ELSE IF pc[v] = "filing" THEN [job[v] EXCEPT !.missed = TRUE]
                ELSE [job[v] EXCEPT !.slug = Unfiled]])
  /\ UNCHANGED <<filed, away>>

-----------------------------------------------------------------------------
(* The rows *)

\* assertCategoryExists, on a new row or on one that is given another type, another
\* category or both: what the body leaves out is taken from the row as it is read.  The
\* approval of a reimbursement copies its category unasked.
StartFile(w, r, body, slug, gone) ==
  LET s == IF "category" \in body THEN slug ELSE filed[r]
      other == IF "type" \in body THEN gone ELSE r \in away
  IN
  /\ pc[w] = "idle"
  /\ body # Halves => filed[r] # Unfiled
  /\ IF other THEN s \in Across ELSE s \in Listed \/ (body = Halves /\ Uses(s) # {})
  /\ Go(w, "filing", [NoJob EXCEPT !.row = r, !.slug = s, !.body = body, !.other = other,
                                   !.missed = ~other /\ s \notin Listed])

\* Only what the body holds is written, beside whatever the row is by then; a voided row
\* stays one.
File(w) ==
  LET j == job[w]
      s == IF "category" \in j.body THEN j.slug ELSE filed[j.row]
      other == IF "type" \in j.body THEN j.other ELSE j.row \in away
      counted == {v \in Clerks : pc[v] = "deleting" /\ ~other /\ job[v].slug = s}
      unchecked == j.missed \/ s # j.slug \/ other # j.other
  IN
  /\ pc[w] = "filing"
  /\ j.body # Halves => filed[j.row] # Unfiled
  /\ filed' = [filed EXCEPT ![j.row] = s]
  /\ away' = Tagged(away, j.row, other)
  /\ orphaned' = Tagged(orphaned, j.row, ~other /\ unchecked)
  /\ Done(w, Missed(counted))
  /\ UNCHANGED <<label, twinned>>

\* An entry is voided, a request erased with its member, a budget replaced.
Drop(r) ==
  /\ filed[r] # Unfiled
  /\ filed' = [filed EXCEPT ![r] = Unfiled]
  /\ away' = away \ {r} /\ orphaned' = orphaned \ {r}
  /\ UNCHANGED <<label, pc, job, twinned>>

\* A statement is refused, or the process dies.
Fail(w) == pc[w] # "idle" /\ Go(w, "idle", NoJob)

Next ==
  \/ \E w \in Clerks :
       \/ \E l \in Labels : CountForCreate(w, l)
       \/ ReadSiblings(w) \/ Insert(w)
       \/ \E s \in Slugs, l \in Labels : ReadForRename(w, s, l)
       \/ Rename(w)
       \/ \E s \in Slugs : CountUses(w, s)
       \/ Delete(w)
       \/ \E r \in Rows, body \in SUBSET Halves \ {{}}, s \in Slugs, gone \in BOOLEAN :
            StartFile(w, r, body, s, gone)
       \/ File(w) \/ Fail(w)
  \/ \E r \in Rows : Drop(r)

Spec == Init /\ [][Next]_vars

-----------------------------------------------------------------------------
(* Properties *)

\* Well typed; the reserved category is always there.
TypeOK ==
  /\ label \in [Slugs -> Labels \cup {Nobody}] /\ label[Reserved] # Nobody
  /\ filed \in [Rows -> Slugs \cup {Unfiled}] /\ away \subseteq Rows
  /\ pc \in [Clerks -> {"idle", "counted", "naming", "renaming", "deleting", "filing"}]
  /\ job \in [Clerks -> Job]
  /\ twinned \subseteq Slugs /\ orphaned \subseteq Rows

\* deleteTransactionCategory refuses to orphan the rows that name a category: a row
\* names a category that is listed on its side, unless it was filed between a count or a
\* check and the statement that relied on it, or another request has changed its type or
\* category in between.
UsesNamed == \A r \in Rows \ (away \cup orphaned) : filed[r] \in Listed \cup {Unfiled}

\* Two rows with one label are "indistinguishable in a dropdown": there are none but
\* where two requests gave the same label at once.
LabelTwins ==
  \A s, t \in Listed : label[s] = label[t] => s = t \/ s \in twinned \/ t \in twinned

\* MAX_CATEGORIES_PER_ORG is passed by no more than the requests that counted together.
CapBounded == Cardinality(Listed) < MaxCategories + Cardinality(Clerks)

-----------------------------------------------------------------------------
(* What the three follow from *)

JobsInv ==
  \A w \in Clerks :
    /\ pc[w] \in {"counted", "naming", "renaming"} => job[w].label \in Labels
    /\ pc[w] = "deleting" => job[w].slug # Reserved
    /\ pc[w] = "filing" => job[w].row \in Rows /\ job[w].slug \in Slugs

\* What a request has found is still so, unless it has missed something.
FilingInv ==
  \A w \in Clerks : pc[w] = "filing" => job[w].other \/ job[w].slug \in Listed \/ job[w].missed
CountInv ==
  \A w \in Clerks : pc[w] = "deleting" =>
    job[w].slug = Unfiled \/ Unused(job[w].slug) \/ job[w].missed
NameInv ==
  \A w \in Clerks :
    /\ pc[w] = "naming" => job[w].label \notin Named \/ job[w].missed
    /\ pc[w] = "renaming" => NoClash(job[w].slug, job[w].label) \/ job[w].missed

\* The categories, with those that were found to fit.
Claiming == {w \in Clerks : pc[w] \in {"counted", "naming"}}
RoomInv ==
  Cardinality(Listed) + Cardinality(Claiming) < MaxCategories + Cardinality(Clerks)

IInv ==
  /\ TypeOK /\ JobsInv /\ FilingInv /\ CountInv /\ NameInv
  /\ UsesNamed /\ LabelTwins /\ RoomInv

-----------------------------------------------------------------------------

\* What the comment on the counts says, which the code does not keep: "check every
\* table that stores a category string and refuse to orphan any of them".
NoneOrphaned == \A r \in Rows \ away : filed[r] \in Listed \cup {Unfiled}
=============================================================================
