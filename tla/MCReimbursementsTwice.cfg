\* A rejection decided before an approval and written after it.
SPECIFICATION Spec
CONSTANTS
  fallback = fallback
  travel = travel
  Requests = {q1}
  Entries = {e1, e2}
  Workers = {w1, w2}
  Categories <- MCCategories
  Fallback = fallback
  Patches <- Decisions
  None = None
  Keep = Keep
SYMMETRY Symmetry
INVARIANT
  OneLiveEntry
\* With every request erased and no row left to edit nothing is asked any more.
CHECK_DEADLOCK FALSE
