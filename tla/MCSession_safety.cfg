CONSTANTS
    c1 = c1
    c2 = c2
    Callers = {c1, c2}
    Nobody = Nobody
    tool = tool
    Tools = {tool}
    ReadOnlyTools = {tool}
    Revisions = {1, 2}
    ReviewedRevision = 1
    NoRevision = 0
    MaxPreviews = 1
    MaxVersion = 2
    MaxGrants = 2
SPECIFICATION Spec
SYMMETRY Symmetry
INVARIANTS
    TypeOK
    SingleConfirmation
    LivePreviewsCurrent
    HonestReport
    PinnedUnlessPutBack
PROPERTIES
    KeepsLifecycle
