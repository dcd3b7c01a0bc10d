\* A charge lands between the read and the write of another's snap to zero.
SPECIFICATION Spec
CONSTANTS
  m1 = m1
  m2 = m2
  memo = memo
  Members <- OneMember
  Workers = {w1, w2}
  Rows = {r1}
  Inputs <- PaymentInputs
  Patches <- OnePatch
  Deltas <- CentDeltas
  Amounts <- CentAmounts
  Half = 1
  Memos <- MCMemos
  Drift = TRUE
  MaxAssessed = 4
  None = None
  Keep = Keep
SYMMETRY Symmetry
PROPERTY
  SnapIsSubCent
\* With its only member erased and no row in the ledger the chapter is at rest.
CHECK_DEADLOCK FALSE
