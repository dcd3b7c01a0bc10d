-------------------------------- MODULE Dues --------------------------------
(***************************************************************************)
(* The dues side of one chapter's treasury: the balance on each roster row *)
(* (Membership.duesOwed) and the income rows of the ledger (Transaction),  *)
(* as the request handlers of lib/services/transaction-service.ts and      *)
(* lib/services/dues-service.ts move them.                                 *)
(*                                                                         *)
(* Workers run requests concurrently.  An action is one database statement *)
(* or one database transaction; a read whose result a later statement      *)
(* relies on is an action of its own, and what the handler remembers of it *)
(* is kept in job[w].  Postgres runs at READ COMMITTED, so an UPDATE that  *)
(* restates its condition in the WHERE clause is atomic and one that does  *)
(* not overwrites whatever is there by then.  A refused request (403, 404, *)
(* 409) that has written nothing is a stuttering step unless it gives up   *)
(* something the handler holds.                                            *)
(***************************************************************************)
EXTENDS Integers

CONSTANTS
  Members,       \* people who have ever been on the chapter's roster
  Workers,       \* concurrent request handlers
  Rows,          \* identifiers of ledger rows, as many as may be created
  Inputs,        \* bodies of POST /api/transactions
  Patches,       \* bodies of PATCH /api/transactions/:id
  Deltas,        \* bodies of an adjustment: > 0 charges, < 0 waives
  Amounts,       \* the amounts of money in all of these
  Half,          \* half a cent, CENT_EPSILON, in the unit of these amounts
  Memos,         \* what a date and a description amount to
  Drift,         \* may float arithmetic leave a residue, too small to count as a unit?
  MaxAssessed,   \* bound: what one member may be charged, or waived, in all
  None,          \* no member, no row, no body
  Keep           \* a field a PATCH leaves out

\* type, category, amount, date and description of a transaction: dues says
\* whether it is an income row in the category "Dues", memo stands for date and
\* description, who is the optional brotherId.  The schemas round nothing: an amount need
\* not be a number of cents.
InputSet == [amount : Amounts, dues : BOOLEAN, memo : Memos,
             who : Members \cup {None}, posted : BOOLEAN]
PatchSet == [amount : Amounts \cup {Keep}, dues : BOOLEAN \cup {Keep},
             memo : Memos \cup {Keep}, posted : BOOLEAN \cup {Keep}]

ASSUME NoneAssumption == None \notin Members \cup Rows \cup Inputs \cup Patches
ASSUME KeepAssumption == Keep \notin Nat \cup BOOLEAN \cup Memos
ASSUME InputsAssumption == Inputs \subseteq InputSet
ASSUME PatchesAssumption == Patches \subseteq PatchSet
ASSUME AmountsAssumption == 0 \in Amounts /\ Amounts \subseteq Nat
ASSUME HalfAssumption == Half \in Nat \ {0}
ASSUME DeltasAssumption == \A d \in Deltas : d \in Int \ {0} /\ (d \in Amounts \/ -d \in Amounts)
ASSUME DriftAssumption == Drift \in BOOLEAN

VARIABLES
  roster,     \* "member", "left" (no Membership row) or "erased" (no account)
  owed,       \* Membership.duesOwed, but for a residue
  drift,      \* duesOwed has a residue
  rows,       \* the Transaction table
  pc,         \* where each handler is
  job,        \* what each handler remembers
  assessed    \* ghost: what a member was charged, net of waivers, write-offs and snaps

vars == <<roster, owed, drift, rows, pc, job, assessed>>

(***************************************************************************)
(* A row is "free" before it is created and "void" once deletedAt is set.  *)
(* fresh says that createdAt is within DUPLICATE_WINDOW_MS.  credit and    *)
(* input are ghosts: credit says that the row's amount was taken off its   *)
(* member's balance and not given back, input is the POST that created the *)
(* row, until an edit makes the row something else.                        *)
(***************************************************************************)
Row == [state : {"free", "live", "void"}, amount : Amounts, dues : BOOLEAN,
        memo : Memos \cup {None}, who : Members \cup {None}, posted : BOOLEAN,
        fresh : BOOLEAN, credit : BOOLEAN, input : Inputs \cup {None}]

FreeRow == [state |-> "free", amount |-> 0, dues |-> FALSE, memo |-> None,
            who |-> None, posted |-> FALSE, fresh |-> FALSE, credit |-> FALSE,
            input |-> None]

NewRow(in, who, posted, credit) ==
  [state |-> "live", amount |-> in.amount, dues |-> in.dues, memo |-> in.memo,
   who |-> who, posted |-> posted, fresh |-> TRUE, credit |-> credit,
   input |-> in]

Job == [row : Rows \cup {None}, who : Members \cup {None}, amount : Amounts,
        input : Inputs \cup {None}, patch : Patches \cup {None}]

NoJob == [row |-> None, who |-> None, amount |-> 0, input |-> None,
          patch |-> None]

Steps == {"idle", "posting", "locked", "reread", "snap", "attribute", "update",
          "voidDues", "voidPlain"}

Residues == IF Drift THEN BOOLEAN ELSE {FALSE}

OnRoster(m) == roster[m] = "member"

\* An income row in the category "Dues" that carries a member.
IsDuesPayment(r) == r.who # None /\ r.dues

Cent == 2 * Half
IsWhole(n) == n % Cent = 0

\* money: the nearest number of cents.  Of two that are as near, binary fractions decide
\* (1.005 * 100 is 100.49...), so either may be the answer.
Rounded(n) == {c \in (n - Half)..(n + Half) : IsWhole(c)}

\* duesOwed >= atLeast(amount), which is half a cent less than the amount rounded.  At
\* equality the residue decides, so both answers are possible.
CoversUnguarded(m, amount) == OnRoster(m)            \* mutant: no guard
Covers(m, amount) == OnRoster(m) /\ \E c \in Rounded(amount) : owed[m] >= c - Half
FallsShort(m, amount) == OnRoster(m) => \E c \in Rounded(amount) : owed[m] <= c - Half

\* What remains of a balance of n where what rounds to zero is snapped to it.
Remainders(n) == {IF c = 0 THEN 0 ELSE n : c \in Rounded(n)}

\* The natural key the advisory lock hashes and the duplicate lookup compares.
SameKey(a, b) ==
  a.amount = b.amount /\ a.dues = b.dues /\ a.memo = b.memo /\ a.who = b.who

Duplicate(r, in) == r.state = "live" /\ r.fresh /\ SameKey(r, in)

\* w holds the transaction-scoped advisory lock on the key of in.
HoldsNothing(w, in) == FALSE                 \* mutant: no advisory lock
HoldsKey(w, in) == pc[w] = "locked" /\ SameKey(job[w].input, in)

At(w, step) == pc[w] = step
Goto(w, step, j) == pc' = [pc EXCEPT ![w] = step] /\ job' = [job EXCEPT ![w] = j]
Finish(w) == Goto(w, "idle", NoJob)

\* A write to m's balance may leave any residue the arithmetic can.
SetOwed(m, amount, residue) ==
  /\ owed' = [owed EXCEPT ![m] = amount]
  /\ drift' = [drift EXCEPT ![m] = residue]

Init ==
  /\ roster = [m \in Members |-> "member"]
  /\ owed = [m \in Members |-> 0]
  /\ drift = [m \in Members |-> FALSE]
  /\ rows = [x \in Rows |-> FreeRow]
  /\ pc = [w \in Workers |-> "idle"]
  /\ job = [w \in Workers |-> NoJob]
  /\ assessed = [m \in Members |-> 0]

-----------------------------------------------------------------------------
(* createTransaction and recordDuesPayment *)

\* Everything before the database transaction: a dues payment is refused for
\* someone who is not on the roster.  x is the next value of the id sequence.
StartPost(w, in, x) ==
  /\ At(w, "idle")
  /\ rows[x].state = "free"
  /\ \A v \in Workers : job[v].row # x
  /\ IsDuesPayment(in) => OnRoster(in.who)
  /\ Goto(w, "posting", [NoJob EXCEPT !.row = x, !.input = in])
  /\ UNCHANGED <<roster, owed, drift, rows, assessed>>

\* The advisory lock is granted and the lookup finds an identical recent row:
\* that row is the answer and nothing is written or emitted.
SuppressDuplicate(w) ==
  /\ At(w, "posting")
  /\ \A v \in Workers : ~HoldsKey(v, job[w].input)
  /\ \E x \in Rows : Duplicate(rows[x], job[w].input)
  /\ Finish(w)
  /\ UNCHANGED <<roster, owed, drift, rows, assessed>>

\* The lock is granted, the lookup finds nothing, and the lock stays held.
LockKey(w) ==
  /\ At(w, "posting")
  /\ \A v \in Workers : ~HoldsKey(v, job[w].input)
  /\ \A x \in Rows : ~Duplicate(rows[x], job[w].input)
  /\ Goto(w, "locked", job[w])
  /\ UNCHANGED <<roster, owed, drift, rows, assessed>>

\* An ordinary transaction: the insert leaves brotherId out of the row.
InsertPlain(w) ==
  LET in == job[w].input IN
  /\ At(w, "locked")
  /\ ~IsDuesPayment(in)
  /\ rows' = [rows EXCEPT ![job[w].row] = NewRow(in, None, in.posted, FALSE)]
  /\ Finish(w)
  /\ UNCHANGED <<roster, owed, drift, assessed>>

\* A dues payment: decrement, income row and snap to zero commit together.
PostPayment(w) ==
  LET in == job[w].input
      left == owed[in.who] - in.amount
  IN
  /\ At(w, "locked")
  /\ IsDuesPayment(in)
  /\ Covers(in.who, in.amount)
  /\ \E rest \in Remainders(left), residue \in Residues :
       /\ SetOwed(in.who, rest, residue /\ rest # 0)
       /\ assessed' = [assessed EXCEPT ![in.who] = @ - (left - rest)]
  /\ rows' = [rows EXCEPT ![job[w].row] = NewRow(in, in.who, TRUE, TRUE)]
  /\ Finish(w)
  /\ UNCHANGED roster

\* The compare-and-set matches no row: 409, and the transaction rolls back.
RefusePayment(w) ==
  /\ At(w, "locked")
  /\ IsDuesPayment(job[w].input)
  /\ FallsShort(job[w].input.who, job[w].input.amount)
  /\ Finish(w)
  /\ UNCHANGED <<roster, owed, drift, rows, assessed>>

\* Ten seconds pass: x is no longer what a repeated POST is compared with.
Expire(x) ==
  /\ rows[x].fresh
  /\ rows' = [rows EXCEPT ![x].fresh = FALSE]
  /\ UNCHANGED <<roster, owed, drift, pc, job, assessed>>

-----------------------------------------------------------------------------
(* adjustDues: three statements, no database transaction *)

\* The compare-and-set; a charge has no guard but the roster row itself.
Adjust(w, m, d) ==
  /\ At(w, "idle")
  /\ OnRoster(m)
  /\ d < 0 => Covers(m, -d)
  /\ assessed[m] + d \in -MaxAssessed..MaxAssessed
  /\ \E residue \in Residues : SetOwed(m, owed[m] + d, residue)
  /\ assessed' = [assessed EXCEPT ![m] = @ + d]
  /\ Goto(w, "reread", [NoJob EXCEPT !.who = m])
  /\ UNCHANGED <<roster, rows>>

\* The balance is read back: does it round to zero without being zero?
Reread(w) ==
  LET m == job[w].who IN
  /\ At(w, "reread")
  /\ \/ OnRoster(m) /\ 0 \in Rounded(owed[m]) /\ (owed[m] # 0 \/ drift[m])
        /\ Goto(w, "snap", job[w])
     \/ (OnRoster(m) => Rounded(owed[m]) # {0} \/ (owed[m] = 0 /\ ~drift[m]))
        /\ Finish(w)
  /\ UNCHANGED <<roster, owed, drift, rows, assessed>>

\* If it did, zero is written, whatever the balance is by now: what it takes off, a
\* charge of somebody else included, the ghost accounts for, and SnapIsSubCent is about.
Snap(w) ==
  LET m == job[w].who IN
  /\ At(w, "snap")
  /\ IF OnRoster(m)
       THEN /\ SetOwed(m, 0, FALSE)
            /\ assessed' = [assessed EXCEPT ![m] = @ - owed[m]]
       ELSE UNCHANGED <<owed, drift, assessed>>
  /\ Finish(w)
  /\ UNCHANGED <<roster, rows>>

-----------------------------------------------------------------------------
(* attributeDuesPayment *)

\* The checks: m is on the roster, x is a live dues row with no member.
ReadForAttribution(w, m, x) ==
  /\ At(w, "idle")
  /\ OnRoster(m)
  /\ rows[x].state = "live" /\ rows[x].dues /\ rows[x].who = None
  /\ Goto(w, "attribute", [NoJob EXCEPT !.row = x, !.who = m])
  /\ UNCHANGED <<roster, owed, drift, rows, assessed>>

\* The write restates none of them; only the foreign key refuses an account
\* that is gone.
Attribute(w) ==
  LET x == job[w].row
      m == job[w].who
  IN
  /\ At(w, "attribute")
  /\ rows' = IF roster[m] = "erased" THEN rows
             ELSE [rows EXCEPT ![x].who = m, ![x].input = None]
  /\ Finish(w)
  /\ UNCHANGED <<roster, owed, drift, assessed>>

-----------------------------------------------------------------------------
(* updateTransaction *)

\* The fields whose change would move one book and not the other.  The read
\* selects no amount, so any amount a PATCH names counts as changed.
DesyncsByAmount(p, r) == p.amount # Keep       \* mutant: may be re-bucketed
DesyncsByCategory(p, r) == p.dues \notin {Keep, r.dues}   \* mutant: re-priced
Desyncs(p, r) == p.amount # Keep \/ p.dues \notin {Keep, r.dues}

\* Soft-deleted rows are not excluded.
ReadForUpdate(w, x, p) ==
  /\ At(w, "idle")
  /\ rows[x].state # "free"
  /\ ~(IsDuesPayment(rows[x]) /\ Desyncs(p, rows[x]))
  /\ Goto(w, "update", [NoJob EXCEPT !.row = x, !.patch = p])
  /\ UNCHANGED <<roster, owed, drift, rows, assessed>>

Set(new, old) == IF new = Keep THEN old ELSE new

Patched(r, p) ==
  [r EXCEPT !.amount = Set(p.amount, @), !.dues = Set(p.dues, @),
            !.memo = Set(p.memo, @), !.posted = Set(p.posted, @),
            !.input = None]

Update(w) ==
  /\ At(w, "update")
  /\ rows' = [rows EXCEPT ![job[w].row] = Patched(@, job[w].patch)]
  /\ Finish(w)
  /\ UNCHANGED <<roster, owed, drift, assessed>>

-----------------------------------------------------------------------------
(* softDeleteTransaction *)

ReadForVoid(w, x) ==
  /\ At(w, "idle")
  /\ rows[x].state # "free"
  /\ IF rows[x].state = "live" /\ IsDuesPayment(rows[x])
       THEN Goto(w, "voidDues", [NoJob EXCEPT !.row = x, !.who = rows[x].who,
                                              !.amount = rows[x].amount])
       ELSE Goto(w, "voidPlain", [NoJob EXCEPT !.row = x])
  /\ UNCHANGED <<roster, owed, drift, rows, assessed>>

ClaimsAny(x) == rows[x].state # "free"          \* mutant: no deletedAt guard
Claims(x) == rows[x].state = "live"

\* A dues payment: the row is claimed by its deletedAt and the amount that was
\* read goes back to the member that was read, in one database transaction.
VoidDues(w) ==
  LET x == job[w].row
      m == job[w].who
      a == job[w].amount
  IN
  /\ At(w, "voidDues")
  /\ Claims(x)
  /\ rows' = [rows EXCEPT ![x].state = "void", ![x].credit = FALSE]
  /\ IF OnRoster(m)
       THEN \E residue \in Residues : SetOwed(m, owed[m] + a, residue)
       ELSE UNCHANGED <<owed, drift>>
  \* Ghost: a credit turns back into debt.  Voiding a live row that was only
  \* attributed is a new charge; where no roster row stands, a write-off.
  /\ assessed' = [assessed EXCEPT ![m] =
       @ + (IF OnRoster(m) /\ rows[x].state = "live" THEN a ELSE 0)
         - (IF rows[x].credit THEN a ELSE 0)]
  /\ Finish(w)
  /\ UNCHANGED roster

\* Somebody else voided it first: 409.
RefuseVoid(w) ==
  /\ At(w, "voidDues")
  /\ ~Claims(job[w].row)
  /\ Finish(w)
  /\ UNCHANGED <<roster, owed, drift, rows, assessed>>

\* Any other row: deletedAt is written unconditionally.
VoidPlain(w) ==
  /\ At(w, "voidPlain")
  /\ rows' = [rows EXCEPT ![job[w].row].state = "void"]
  /\ Finish(w)
  /\ UNCHANGED <<roster, owed, drift, assessed>>

-----------------------------------------------------------------------------
(* The roster, as far as money is concerned *)

\* leaveOrg: the Membership row is deleted, the ledger is not touched.
Leave(m) ==
  /\ OnRoster(m)
  /\ roster' = [roster EXCEPT ![m] = "left"]
  /\ SetOwed(m, 0, FALSE)
  /\ assessed' = [assessed EXCEPT ![m] = @ - owed[m]]
  /\ UNCHANGED <<rows, pc, job>>

\* approveJoinRequest for a known account: a new Membership row, duesOwed 0.
Rejoin(m) ==
  /\ roster[m] = "left"
  /\ roster' = [roster EXCEPT ![m] = "member"]
  /\ UNCHANGED <<owed, drift, rows, pc, job, assessed>>

\* Transaction.brotherId is SET NULL: the money stays on the ledger, of nobody.
Unnamed(m) ==
  [x \in Rows |->
    IF rows[x].who = m
      THEN [rows[x] EXCEPT !.who = None, !.credit = FALSE, !.input = None]
      ELSE rows[x]]

\* deleteBrother of someone in this chapter only: the foreign keys cascade.
Erase(m) ==
  /\ OnRoster(m)
  /\ roster' = [roster EXCEPT ![m] = "erased"]
  /\ SetOwed(m, 0, FALSE)
  /\ rows' = Unnamed(m)
  /\ assessed' = [assessed EXCEPT ![m] = 0]
  /\ UNCHANGED <<pc, job>>

\* deleteBrother of someone with another chapter: what this chapter recorded is
\* erased first, in a transaction of its own.  The roster row goes later, as in
\* Leave, and requests may come in between.
EraseRecords(m) ==
  /\ OnRoster(m)
  /\ rows' = Unnamed(m)
  /\ assessed' = [assessed EXCEPT ![m] = owed[m]]
  /\ UNCHANGED <<roster, owed, drift, pc, job>>

-----------------------------------------------------------------------------

Handler(w) ==
  \/ \E in \in Inputs, x \in Rows : StartPost(w, in, x)
  \/ SuppressDuplicate(w) \/ LockKey(w)
  \/ InsertPlain(w) \/ PostPayment(w) \/ RefusePayment(w)
  \/ \E m \in Members, d \in Deltas : Adjust(w, m, d)
  \/ Reread(w) \/ Snap(w)
  \/ \E m \in Members, x \in Rows : ReadForAttribution(w, m, x)
  \/ Attribute(w)
  \/ \E x \in Rows, p \in Patches : ReadForUpdate(w, x, p)
  \/ Update(w)
  \/ \E x \in Rows : ReadForVoid(w, x)
  \/ VoidDues(w) \/ RefuseVoid(w) \/ VoidPlain(w)

Environment ==
  \/ \E x \in Rows : Expire(x)
  \/ \E m \in Members : Leave(m) \/ Rejoin(m) \/ Erase(m) \/ EraseRecords(m)

Next == (\E w \in Workers : Handler(w)) \/ Environment

Spec == Init /\ [][Next]_vars

-----------------------------------------------------------------------------

TypeOK ==
  /\ roster \in [Members -> {"member", "left", "erased"}]
  /\ owed \in [Members -> Int]
  /\ drift \in [Members -> BOOLEAN]
  /\ rows \in [Rows -> Row]
  /\ pc \in [Workers -> Steps]
  /\ job \in [Workers -> Job]
  /\ assessed \in [Members -> Int]

WholeCents == \A a \in Amounts : IsWhole(a)

\* No interleaving of payments, waivers, voids and departures takes a balance below
\* minus a cent, or below zero as long as all amounts are in cents: every decrement
\* restates the balance it needs, within half a cent of an amount rounded to cents.
NotOverdrawn ==
  \A m \in Members : owed[m] >= -Cent /\ (WholeCents => owed[m] >= 0)

\* Two POSTs of the same body within the duplicate window leave one live row,
\* however they interleave, as long as nobody edits the first in between.
NoDoublePost ==
  \A x, y \in Rows :
    /\ x # y
    /\ rows[x].state = "live" /\ rows[x].fresh /\ rows[x].input # None
    /\ rows[y].state = "live" /\ rows[y].fresh /\ rows[y].input # None
    => ~SameKey(rows[x].input, rows[y].input)

\* A payment that was taken off a balance stays a live dues row with a member:
\* no edit, attribution or plain delete whose check is out of date by the time
\* it writes can carry it off the dues books.
CreditsStand ==
  \A x \in Rows :
    rows[x].credit => rows[x].state = "live" /\ IsDuesPayment(rows[x])

\* While it stands, neither its amount nor its member changes.
CreditsFrozen ==
  [][\A x \in Rows :
       rows[x].credit /\ rows'[x].credit =>
         /\ rows'[x].amount = rows[x].amount
         /\ rows'[x].who = rows[x].who]_vars

\* What comments in the code say and some instance refutes.

\* dues-service.ts: "A waiver can't push the balance below zero".  It can, by less than a
\* cent, because the tolerance is meant for amounts that validators have rounded.
NonNegative == \A m \in Members : owed[m] >= 0

\* dues-service.ts: adjustDues only snaps "a sub-cent remainder to exactly zero".
\* The write is not conditional on what was read, so a charge that lands between
\* the two is what it takes off.
SnapIsSubCent ==
  [][\A w \in Workers :
       Snap(w) => LET m == job[w].who IN owed'[m] - owed[m] \in -Half..Half]_vars

\* transaction-service.ts: a payment must not "vanish from every dues total while
\* the member stays credited for it".  duesPaymentWhere counts posted rows only,
\* and the guard of updateTransaction does not look at the status.
CreditsCounted ==
  \A x \in Rows : rows[x].credit => rows[x].posted

-----------------------------------------------------------------------------
(***************************************************************************)
(* The inductive invariant: what a handler remembers is still true of the  *)
(* table when it writes, as far as the properties above rely on it.        *)
(***************************************************************************)

Creating(w) == pc[w] \in {"posting", "locked"}

\* A handler that creates a row has it to itself; one that edits a row found
\* it in the table, and rows are never removed.
JobsInv ==
  \A w \in Workers :
    /\ Creating(w) =>
         /\ job[w].row \in Rows /\ rows[job[w].row].state = "free"
         /\ job[w].input \in Inputs
         /\ \A v \in Workers \ {w} : job[v].row # job[w].row
    /\ pc[w] \in {"reread", "snap", "attribute", "voidDues"} =>
         job[w].who \in Members
    /\ pc[w] \in {"attribute", "update", "voidDues", "voidPlain"} =>
         job[w].row \in Rows /\ rows[job[w].row].state # "free"
    /\ pc[w] = "update" => job[w].patch \in Patches

\* A pending write on a row with a standing credit is one the credit survives,
\* or the void that gives back exactly what the credit took.
CreditInv ==
  /\ CreditsStand
  /\ \A w \in Workers :
       /\ pc[w] \in {"attribute", "voidPlain"} => ~rows[job[w].row].credit
       /\ pc[w] = "update" /\ rows[job[w].row].credit =>
            ~Desyncs(job[w].patch, rows[job[w].row])
       /\ pc[w] = "voidDues" /\ rows[job[w].row].credit =>
            /\ rows[job[w].row].who = job[w].who
            /\ rows[job[w].row].amount = job[w].amount

\* Only a dues payment names a member: the lookup for any other POST with a
\* brotherId compares it with a column the insert never filled.
Untagged == \A in \in Inputs : in.who # None => in.dues

\* An unedited row still carries the key it was posted with.
RowsMatchInputs ==
  \A x \in Rows : rows[x].input # None => SameKey(rows[x], rows[x].input)

\* The holder of a key is alone, and no live row has had that key since its
\* lookup.
LockInv ==
  \A w \in Workers : pc[w] = "locked" =>
    /\ \A v \in Workers \ {w} : ~HoldsKey(v, job[w].input)
    /\ \A x \in Rows :
         rows[x].state = "live" /\ rows[x].fresh /\ rows[x].input # None =>
           ~SameKey(rows[x].input, job[w].input)

\* Amounts in cents keep the balances in cents.
CentsInv == WholeCents => \A m \in Members : IsWhole(owed[m])

IInv ==
  /\ TypeOK /\ JobsInv /\ CreditInv /\ CentsInv /\ NotOverdrawn
  /\ Untagged => RowsMatchInputs /\ LockInv /\ NoDoublePost

-----------------------------------------------------------------------------

\* Dues implements DuesBooks: what stands in the books as a credit is a row
\* whose amount was taken off a balance.
CreditOf == [x \in Rows |->
  [who |-> IF rows[x].credit THEN rows[x].who ELSE None,
   amount |-> IF rows[x].credit THEN rows[x].amount ELSE 0]]

Books == INSTANCE DuesBooks WITH credit <- CreditOf

\* Every step of every handler moves the two books the way DuesBooks allows, or
\* not at all.
ImplementsBooks == Books!Spec

=============================================================================
