\* Two chapters, one person, three requests at a time.
SPECIFICATION Spec
CONSTANTS
  Orgs = {a, b}
  People = {p1}
  Workers = {w1, w2, w3}
  None = None
SYMMETRY Symmetry
INVARIANTS
  TypeOK
  Erasure
  NoStaleGrant
PROPERTY
  OthersStand
CHECK_DEADLOCK FALSE
