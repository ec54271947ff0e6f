SPECIFICATION Spec
CONSTANTS
  a = a
  u1 = u1
  v1 = v1
  v2 = v2
  v3 = v3
  Processes = {a}
  Agents = {1, 2}
  Dependent = {2}
  Builds = {v1, v2, v3}
  UserContents = {u1}
  MaxCommands = 2
  MaxEdits = 1
  LastSecond = 0
  MaxMishaps = 0
INVARIANT OnlyModifiedRefused
SYMMETRY Symmetry
CHECK_DEADLOCK FALSE
