\* Two members and exact arithmetic: the handlers implement the abstract books.
SPECIFICATION Spec
CONSTANTS
  m1 = m1
  m2 = m2
  memo = memo
  Members <- MCMembers
  Workers = {w1, w2}
  Rows = {r1, r2}
  Inputs <- CentInputs
  Patches <- OnePatch
  Deltas <- UnitDeltas
  Amounts <- CentAmounts
  Half = 1
  Memos <- MCMemos
  Drift = FALSE
  MaxAssessed = 2
  None = None
  Keep = Keep
SYMMETRY Symmetry
PROPERTY
  ImplementsBooks
