SPECIFICATION Spec
CONSTANTS
  Profiles = {p1}
  NoProfile = NoProfile
  Clients = {c1}
  NoClient = NoClient
  Absent = Absent
  Projects = {d1}
  a = a
  b = b
  Processes = {a, b}
  MaxGrants = 2
  Rotating = {1}
  MaxTokens = 2
  MaxFaults = 2
INVARIANT StoredUsable
INVARIANT NoOrphanGrant
INVARIANT CredentialsHaveProfile
PROPERTY FailedLoginRestores
SYMMETRY Symmetry
CHECK_DEADLOCK FALSE
