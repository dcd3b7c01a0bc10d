\* Two subscriptions whose notices may be lost: the page load heals the row.
SPECIFICATION FairSpec
CONSTANTS
  Workers = {w1}
  MaxSubs = 2
  Courses <- MCLongerCourses
  MaxSessions = 1
  MaxChanges = 1
  MaxFaults = 2
  None = None
PROPERTY
  Unwalled
CHECK_DEADLOCK FALSE
