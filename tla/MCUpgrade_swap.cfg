SPECIFICATION Spec
CONSTANTS
  a = a
  b = b
  Processes = {a, b}
  Precedence <- MCPrecedence
  Releases <- MCReleases
  MaxReleases = 2
  PageSize = 2
  MaxUint = 8
INVARIANT ExecutableKept
PROPERTY ReportTrue
PROPERTY NeverDowngrades
PROPERTY LatestIsNewest
SYMMETRY Symmetry
CHECK_DEADLOCK FALSE
