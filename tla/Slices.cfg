SPECIFICATION PersistentSpec
CONSTANTS
    Rows = 3
    Columns = 2
    Modes = {"full", "slices", "none"}
    Orders = {"tile2", "diagonal"}
    Sliced = {TRUE, FALSE}
    MaxFaults = 1
    MaxRots = 1
    Deletes = TRUE
INVARIANTS
    VerifiedIsRight
    EvidenceIsSound
    DependenciesFirst
PROPERTIES
    WorkIsKept
    Completes
