------------------------------- MODULE MCDues -------------------------------
(***************************************************************************)
(* Instances of Dues for TLC, and the properties that sum over the ledger. *)
(***************************************************************************)
EXTENDS Dues, FiniteSetsExt, TLC

CONSTANTS m1, m2, memo

\* A payment by each member, an unattributed dues row (the treasurer did not say
\* who paid) and an ordinary row.
Body(a, d, m) == [amount |-> a, dues |-> d, memo |-> memo, who |-> m, posted |-> TRUE]
Untouched == [amount |-> Keep, dues |-> Keep, memo |-> Keep, posted |-> Keep]

MCMembers == {m1, m2}
OneMember == {m1}
MCMemos == {memo}
\* A unit is a quarter of a cent, or half a cent.  Half a cent is charged, a cent and a
\* quarter waived, a cent paid; or all is in cents.
MCAmounts == {0, 2, 4, 5}
MCDeltas == {2, 4, -5}
CentAmounts == {0, 2, 4}
CentDeltas == {4, -2}
UnitDeltas == {2, -2}
MCInputs == {Body(4, TRUE, m) : m \in Members \cup {None}}
CentInputs == {Body(2, TRUE, m) : m \in Members \cup {None}}
OnePatch == {[Untouched EXCEPT !.dues = FALSE]}
MCPatches == {[Untouched EXCEPT !.amount = 5], [Untouched EXCEPT !.dues = FALSE]}

\* The status PATCH of a recurring payment that has not cleared yet, and a POST
\* that names a member on an ordinary expense.
StatusPatch == {[Untouched EXCEPT !.posted = FALSE]}
PaymentInputs == {Body(2, TRUE, m1)}
TaggedInputs == {Body(2, FALSE, m1)}

Symmetry ==
  Permutations(Members) \cup Permutations(Workers) \cup Permutations(Rows)

\* What the standing credits of m add up to.
Paid(m) ==
  MapThenSumSet(LAMBDA x : rows[x].amount,
                {x \in Rows : rows[x].credit /\ rows[x].who = m})

\* A balance is what was charged, less what was paid and is still on the ledger
\* (and less what the snaps took, which SnapIsSubCent is about), whatever fractions of a
\* cent these are: the equation "owed = charged - payments" the dues migration wants to
\* derive it by.
BalanceExplained ==
  \A m \in Members : owed[m] + Paid(m) = assessed[m]

=============================================================================
