SPECIFICATION Spec
CONSTANTS
    Lengths = {3, 4, 5}
    Chunk = 2
    Strict = TRUE
    Faults = {"crash", "crash_in_create", "crash_in_compact", "write_error", "fsync_error",
              "compact_error"}
    MaxRecs = 4
    MaxCells = 12
    None = None
INVARIANTS TypeOK AckedReadable WindowFresh ScanMeetsNoTornRecord
PROPERTIES CompactionPacks
