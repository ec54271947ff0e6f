CONSTANTS
    c1 = c1
    c2 = c2
    Callers = {c1, c2}
    Nobody = Nobody
    tool = tool
    Tools = {tool}
    ReadOnlyTools = {tool}
    Revisions = {1, 2}
    ReviewedRevision = 1
    NoRevision = 0
    MaxPreviews = 1
    MaxVersion = 1
    MaxGrants = 1
SPECIFICATION FairSpec
PROPERTIES
    OperationsReturn
