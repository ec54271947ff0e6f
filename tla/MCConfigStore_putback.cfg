SPECIFICATION Spec
CONSTANTS
  Profiles = {p1}
  NoProfile = NoProfile
  Clients = {c1}
  NoClient = NoClient
  Absent = Absent
  Projects = {d1}
  Processes = {a, b}
  KindsAsked = {"upsert", "delete", "trust", "untrust"}
  Nobody = Nobody
  NoFile = NoFile
  AtomicReplace = FALSE
  HoldersMayStall = FALSE
  MaxCrashes = 0
SYMMETRY Symmetry
PROPERTY NothingLost
