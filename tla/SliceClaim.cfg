SPECIFICATION Spec
CONSTANTS
    Rows = 2
    Columns = 1
    Modes = {"full"}
    Orders = {"row"}
    Sliced = {TRUE}
    MaxFaults = 1
    MaxRots = 0
    Deletes = FALSE
INVARIANT ResumesItsOwnWork
