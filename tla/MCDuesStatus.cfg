\* A dues payment is edited to a status no dues total counts.
SPECIFICATION Spec
CONSTANTS
  m1 = m1
  m2 = m2
  memo = memo
  Members <- OneMember
  Workers = {w1, w2}
  Rows = {r1}
  Inputs <- PaymentInputs
  Patches <- StatusPatch
  Deltas <- CentDeltas
  Amounts <- CentAmounts
  Half = 1
  Memos <- MCMemos
  Drift = FALSE
  MaxAssessed = 4
  None = None
  Keep = Keep
SYMMETRY Symmetry
INVARIANT
  CreditsCounted
\* With its only member erased and no row in the ledger the chapter is at rest.
CHECK_DEADLOCK FALSE
