\* The same ordinary POST twice, naming a member.
SPECIFICATION Spec
CONSTANTS
  m1 = m1
  m2 = m2
  memo = memo
  Members <- OneMember
  Workers = {w1, w2}
  Rows = {r1, r2}
  Inputs <- TaggedInputs
  Patches <- OnePatch
  Deltas <- CentDeltas
  Amounts <- CentAmounts
  Half = 1
  Memos <- MCMemos
  Drift = FALSE
  MaxAssessed = 4
  None = None
  Keep = Keep
SYMMETRY Symmetry
INVARIANT
  NoDoublePost
