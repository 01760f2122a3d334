SPECIFICATION Spec
CONSTANTS
    Lengths = {3, 4}
    Chunk = 2
    Strict = FALSE
    Faults = {"crash_in_compact"}
    MaxRecs = 3
    MaxCells = 11
    None = None
PROPERTY NothingLost
