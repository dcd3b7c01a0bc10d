\* A paying chapter whose roster comes to rest: no symmetry, this is liveness.
SPECIFICATION FairSpec
CONSTANTS
  Workers = {w1, w2}
  Counts <- TwoSizes
  Checkouts = {}
  Subscribed = TRUE
  MaxChanges = 1
  None = None
PROPERTY
  Converges
