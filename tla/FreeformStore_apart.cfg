CONSTANTS
    Ids = {i1, i2, i3, i4}
    States = {"backlog", "done"}
    Texts = {"t", "u"}
    Calls = {x, y, z, w}
    None = None
    Overlap = FALSE
    MaxFaults = 2
SPECIFICATION StoreSpec
SYMMETRY Interchangeable
INVARIANT RemovedIsKept
PROPERTY OneBoard
CHECK_DEADLOCK FALSE
