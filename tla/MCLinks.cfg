\* Two requests at a time: on one reimbursement and its expense, on one event of the
\* board and two calendar events, on one party, or on the categories of one row.
SPECIFICATION MCSpec
CONSTANTS
  fallback = fallback
  travel = travel
  Requests = {q1}
  Entries = {x1, x2}
  Workers = {w1, w2}
  Categories <- MCCategories
  Fallback = fallback
  Patches <- MCPatches
  Events = {e1}
  Days = {d1}
  MaxCals = 2
  Nights = {n1}
  MaxRolls = 2
  Labels = {dues, l1, l2}
  Seeded = dues
  Rows = {r1}
  MaxCategories = 2
  MaxSuffix = 3
  Across = {0, 1}
  None = None
  Keep = Keep
SYMMETRY LinkSymmetry
INVARIANTS
  ApprovedIsMinted
  BooksAgree
  OnTheBoard
  PublishedComplete
  PartyBacked
  UsesNamed
  LabelTwins
  CapBounded
PROPERTY
  DoneAfterConfirm
\* With every request erased and no row left to edit nothing is asked any more.
CHECK_DEADLOCK FALSE
