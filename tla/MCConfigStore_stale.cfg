SPECIFICATION Spec
CONSTANTS
  Profiles = {p1}
  NoProfile = NoProfile
  Clients = {c1}
  NoClient = NoClient
  Absent = Absent
  Projects = {d1}
  Processes = {a, b, c}
  KindsAsked = {"untrust"}
  Nobody = Nobody
  NoFile = NoFile
  AtomicReplace = TRUE
  HoldersMayStall = FALSE
  MaxCrashes = 1
INVARIANT OneWriter
