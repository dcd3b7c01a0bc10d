\* From before the checkout, two handlers at a time.
SPECIFICATION Spec
CONSTANTS
  Workers = {w1, w2}
  Counts <- TwoSizes
  Checkouts <- TwoSizes
  Subscribed = FALSE
  MaxChanges = 2
  None = None
SYMMETRY Symmetry
INVARIANTS
  InStep
  OwedIsFlagged
