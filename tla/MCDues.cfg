\* Everything at once: two handlers, a member who may leave, float residues.
SPECIFICATION Spec
CONSTANTS
  m1 = m1
  m2 = m2
  memo = memo
  Members <- OneMember
  Workers = {w1, w2}
  Rows = {r1, r2}
  Inputs <- MCInputs
  Patches <- MCPatches
  Deltas <- MCDeltas
  Amounts <- MCAmounts
  Half = 2
  Memos <- MCMemos
  Drift = TRUE
  MaxAssessed = 6
  None = None
  Keep = Keep
SYMMETRY Symmetry
INVARIANTS
  NoDoublePost
  CreditsStand
  BalanceExplained
PROPERTY
  CreditsFrozen
