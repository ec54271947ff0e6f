SPECIFICATION Spec
CONSTANTS
  a = a
  b = b
  u1 = u1
  v1 = v1
  v2 = v2
  Processes = {a, b}
  Agents = {1, 2}
  Dependent = {2}
  Builds = {v1, v2}
  UserContents = {u1}
  MaxCommands = 2
  MaxEdits = 1
  LastSecond = 0
  MaxMishaps = 1
INVARIANT UserContentKept
INVARIANT UntouchedNotRefused
INVARIANT SharedSkillKept
INVARIANT WrapperRepairable
PROPERTY FailureRestores
PROPERTY RedoNotRefused
SYMMETRY Symmetry
CHECK_DEADLOCK FALSE
