------------------------------ MODULE DuesBooks ------------------------------
(***************************************************************************)
(* What the treasury promises about dues, with no handler, no row lock and *)
(* no half-finished request in it.  A chapter keeps one balance per member *)
(* and a set of credits, one per recorded payment.  lib/dues.ts and the    *)
(* header of lib/services/dues-service.ts say how the two may move: a      *)
(* charge or a waiver moves the balance alone, a payment turns part of a   *)
(* balance into a credit, a void turns a credit back into a balance.       *)
(* Module Dues implements this specification.                              *)
(***************************************************************************)
EXTENDS Integers

CONSTANTS
  Members,   \* people who have ever been on the chapter's roster
  Rows,      \* identifiers of ledger rows
  Amounts,   \* amounts of money
  None       \* not a member

VARIABLES
  roster,    \* "member", "left" (no roster row) or "erased" (no account)
  owed,      \* Membership.duesOwed, 0 for one with no roster row
  credit     \* row -> who paid how much, NoCredit when none stands

vars == <<roster, owed, credit>>

NoCredit == [who |-> None, amount |-> 0]

Init ==
  /\ roster = [m \in Members |-> "member"]
  /\ owed = [m \in Members |-> 0]
  /\ credit = [x \in Rows |-> NoCredit]

\* An assessment: more is owed, no money moved.
Charge(m, d) ==
  /\ roster[m] = "member"
  /\ owed' = [owed EXCEPT ![m] = @ + d]
  /\ UNCHANGED <<roster, credit>>

\* A waiver never makes a balance negative.
Waive(m, d) ==
  /\ roster[m] = "member"
  /\ d <= owed[m]
  /\ owed' = [owed EXCEPT ![m] = @ - d]
  /\ UNCHANGED <<roster, credit>>

\* A payment never exceeds the balance and is never recorded by halves.
Pay(m, a, x) ==
  /\ roster[m] = "member"
  /\ a <= owed[m]
  /\ credit[x] = NoCredit
  /\ owed' = [owed EXCEPT ![m] = @ - a]
  /\ credit' = [credit EXCEPT ![x] = [who |-> m, amount |-> a]]
  /\ UNCHANGED roster

\* Voiding a payment gives the debt back, once, to the member who paid, if
\* that member still has a balance in this chapter.
Void(m, x) ==
  /\ credit[x] # NoCredit
  /\ credit[x].who = m
  /\ credit' = [credit EXCEPT ![x] = NoCredit]
  /\ owed' = IF roster[m] = "member"
               THEN [owed EXCEPT ![m] = @ + credit[x].amount] ELSE owed
  /\ UNCHANGED roster

\* The roster row goes, and the balance with it; the payments stay recorded.
Leave(m) ==
  /\ roster[m] = "member"
  /\ roster' = [roster EXCEPT ![m] = "left"]
  /\ owed' = [owed EXCEPT ![m] = 0]
  /\ UNCHANGED credit

\* A new roster row starts with nothing owed.
Rejoin(m) ==
  /\ roster[m] = "left"
  /\ roster' = [roster EXCEPT ![m] = "member"]
  /\ UNCHANGED <<owed, credit>>

\* The account goes: the money stays on the ledger, credited to nobody.
Erase(m) ==
  /\ roster[m] = "member"
  /\ roster' = [roster EXCEPT ![m] = "erased"]
  /\ owed' = [owed EXCEPT ![m] = 0]
  /\ credit' = [x \in Rows |-> IF credit[x].who = m THEN NoCredit ELSE credit[x]]

\* The account stays, but this chapter's payments lose their name.
Forget(m) ==
  /\ roster[m] = "member"
  /\ credit' = [x \in Rows |-> IF credit[x].who = m THEN NoCredit ELSE credit[x]]
  /\ UNCHANGED <<roster, owed>>

Next ==
  \E m \in Members :
    \/ \E d \in Amounts : Charge(m, d) \/ Waive(m, d)
    \/ \E x \in Rows : Void(m, x) \/ \E a \in Amounts : Pay(m, a, x)
    \/ Leave(m) \/ Rejoin(m) \/ Erase(m) \/ Forget(m)

Spec == Init /\ [][Next]_vars
=============================================================================
