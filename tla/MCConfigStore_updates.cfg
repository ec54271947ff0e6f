SPECIFICATION FairSpec
CONSTANTS
  Profiles = {p1}
  NoProfile = NoProfile
  Clients = {c1}
  NoClient = NoClient
  Absent = Absent
  Projects = {d1}
  Processes = {a, b}
  KindsAsked = {"upsert", "delete", "restore"}
  Nobody = Nobody
  NoFile = NoFile
  AtomicReplace = TRUE
  HoldersMayStall = FALSE
  MaxCrashes = 1
INVARIANT TypeOK
INVARIANT OneWriter
PROPERTY IsRegister
PROPERTY UpdatesReturn
