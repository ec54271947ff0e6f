SPECIFICATION Spec
CONSTANTS
  p1 = p1
  p2 = p2
  Processes = {a, b}
  Levels = {1, 2}
  Profiles = {p1, p2}
  NoProfile = NoProfile
  Contents <- MCContents
  NoContent = NoContent
  MaxChanges = 1
  MaxCommands = 2
INVARIANT ReadOneMoment
INVARIANT ApprovedOnly
INVARIANT SignedInUsed
SYMMETRY Symmetry
CHECK_DEADLOCK FALSE
