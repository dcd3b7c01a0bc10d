\* Two loads after the first, or the first and another; two pages.
SPECIFICATION FairSpec
CONSTANTS
  Sections <- MCSections
  Paths <- MCPaths
  Needs <- MCNeeds
  Landing = "chapter"
  MaxLoads = 2
  MaxMoves = 2
  MaxVersion = 2
  MaxChanges = 1
PROPERTY
  LoadingEnds
CHECK_DEADLOCK FALSE
