CONSTANTS
    c1 = c1
    Callers = {c1}
    Nobody = Nobody
    tool = tool
    Tools = {tool}
    ReadOnlyTools = {tool}
    Revisions = {1, 2}
    ReviewedRevision = 1
    NoRevision = 0
    MaxPreviews = 1
    MaxVersion = 2
    MaxGrants = 2
SPECIFICATION Spec
INVARIANTS
    Pinned
