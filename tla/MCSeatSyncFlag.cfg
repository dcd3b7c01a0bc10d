\* One handler at a time, a paying chapter: is every owed push flagged?
SPECIFICATION Spec
CONSTANTS
  Workers = {w1}
  Counts <- TwoSizes
  Checkouts = {}
  Subscribed = TRUE
  MaxChanges = 2
  None = None
INVARIANT
  AlwaysFlagged
