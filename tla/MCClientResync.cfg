SPECIFICATION Spec
CONSTANTS
  Sections <- MCSections
  Paths <- MCPaths
  Needs <- MCNeeds
  Landing = "chapter"
  MaxLoads = 2
  MaxMoves = 1
  MaxVersion = 2
  MaxChanges = 1
INVARIANT
  ResyncKept
CHECK_DEADLOCK FALSE
