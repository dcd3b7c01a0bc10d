\* Two chapters, one request at a time: the history of those who left.
SPECIFICATION Spec
CONSTANTS
  Orgs = {a, b}
  People = {p1}
  Workers = {w1}
  None = None
PROPERTY
  PastStands
CHECK_DEADLOCK FALSE
