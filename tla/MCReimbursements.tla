------------------------- MODULE MCReimbursements -------------------------
(***************************************************************************)
(* Instances of Reimbursements for TLC.                                    *)
(***************************************************************************)
EXTENDS Reimbursements, TLC

CONSTANTS fallback, travel

MCCategories == {fallback, travel}

Body(status, category) == [status |-> status, category |-> category]

\* Every decision a treasurer takes, with and without naming a bucket.
MCPatches ==
  {Body("approved", Keep), Body("approved", travel), Body("rejected", Keep),
   Body(Keep, travel), Body(Keep, None)}

\* Decisions alone.
Decisions == {Body("approved", Keep), Body("rejected", Keep)}

Symmetry ==
  Permutations(Requests) \cup Permutations(Workers) \cup Permutations(Entries)
=============================================================================
