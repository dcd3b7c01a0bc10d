\* Two voters and two requests at a time on polls of three lists between them, or two
\* edits at a time of a row of a page, or two loads after a page's first (or the first
\* and another) of two pages, with one navigation.
SPECIFICATION MCSpec
CONSTANTS
  Members = {v1, v2}
  Role = Role
  Ballots <- MCBallots
  Edits <- MCEditSet
  Workers = {w1, w2}
  MaxLists = 3
  Rows = {r1}
  Values = {a, b}
  Wholesale = FALSE
  Sections = {"brothers", "treasury"}
  Paths = {"chapter", "treasury"}
  Needs <- MCNeeds
  Landing = "chapter"
  MaxLoads = 2
  MaxMoves = 1
  MaxVersion = 2
  MaxChanges = 1
  None = None
  Keep = Keep
SYMMETRY Symmetry
INVARIANTS
  LateBounded
  RowsTrue
  PagesServed
PROPERTIES
  TallyStands
  BlindBallot
  NoGoingBack
\* With every list written there is nothing left to do on a poll that is gone, and a page
\* is at rest once its loads are over.
CHECK_DEADLOCK FALSE
