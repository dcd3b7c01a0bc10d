\* A service event that the board has published cannot be deleted.
SPECIFICATION MCSpec
CONSTANTS
  fallback = fallback
  travel = travel
  Requests = {q1}
  Entries = {x1, x2}
  Workers = {w1, w2}
  Categories <- MCCategories
  Fallback = fallback
  Patches <- MCPatches
  Events = {e1}
  Days = {d1, d2}
  MaxCals = 2
  Nights = {n1}
  MaxRolls = 2
  Labels = {dues, l1, l2}
  Seeded = dues
  Rows = {r1}
  MaxCategories = 2
  MaxSuffix = 3
  Across = {0, 1}
  None = None
  Keep = Keep
SYMMETRY LinkSymmetry
INVARIANT
  ServiceDeletable
CHECK_DEADLOCK FALSE
