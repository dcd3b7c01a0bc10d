\* Two subscriptions after each other, two requests at a time.
SPECIFICATION Spec
CONSTANTS
  Workers = {w1, w2}
  MaxSubs = 2
  Courses <- MCCourses
  MaxSessions = 1
  MaxChanges = 1
  MaxFaults = 1
  None = None
SYMMETRY Symmetry
INVARIANTS
  AckedIsWritten
  InOrderIsTrue
  BilledOnce
  NoSilentCharge
CHECK_DEADLOCK FALSE
