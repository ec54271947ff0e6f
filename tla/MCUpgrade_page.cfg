SPECIFICATION Spec
CONSTANTS
  a = a
  Processes = {a}
  Precedence <- MCPrecedence
  Releases <- MCReleases
  MaxReleases = 3
  PageSize = 2
  MaxUint = 8
PROPERTY HighestOfChannel
CHECK_DEADLOCK FALSE
