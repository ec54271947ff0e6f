SPECIFICATION Spec
CONSTANTS
  Profiles = {p1, p2}
  NoProfile = NoProfile
  Clients = {c1}
  NoClient = NoClient
  Absent = Absent
  Projects = {d1}
  Processes = {a, b}
  KindsAsked = {"create", "restore"}
  Nobody = Nobody
  NoFile = NoFile
  AtomicReplace = FALSE
  HoldersMayStall = FALSE
  MaxCrashes = 1
INVARIANT FileValid
PROPERTY LostOnlyIfStranded
SYMMETRY Symmetry
