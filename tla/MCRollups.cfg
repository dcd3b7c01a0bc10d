\* Two events, two semesters, two requests at a time.
SPECIFICATION MCSpec
CONSTANTS
  Members = {m1, m2}
  Events = {e1, e2}
  Workers = {w1, w2}
  MaxTerms = 2
  MaxRequests = 4
  MaxHours = 2
  HoursRequests = 3
  None = None
SYMMETRY Symmetry
INVARIANTS
  RollsTrue
  TermStands
  HoursTrue
PROPERTY
  ApprovalStands
CHECK_DEADLOCK FALSE
