\* The tasks page, where an error puts back the whole list.
SPECIFICATION MCSpec
CONSTANTS
  Members = {v1, v2}
  Role = Role
  Ballots <- MCBallots
  Edits <- MCEditSet
  Workers = {w1, w2}
  MaxLists = 3
  Rows = {v1, v2}
  Values = {a, b}
  Wholesale = TRUE
  Sections = {"brothers", "treasury"}
  Paths = {"chapter", "treasury"}
  Needs <- MCNeeds
  Landing = "chapter"
  MaxLoads = 2
  MaxMoves = 1
  MaxVersion = 2
  MaxChanges = 1
  None = None
  Keep = Keep
SYMMETRY Symmetry
INVARIANT
  RowsTrue
CHECK_DEADLOCK FALSE
