SPECIFICATION Spec
CONSTANTS
    Names = {"A"}
    ColIds = {c1}
    DocIds = {d1, d2}
    Fields = {"f"}
    Values = {x, y}
    Kind <- MCKind
    Stored <- MCStored
    IndexDefs <- BothDefs
    Faults = {"crash", "crash_in_compact", "throw_in_batch"}
    MaxLog = 6
    MaxBatch = 2
    None = None
    Date = Date
    Iso = Iso
SYMMETRY Symmetry
INVARIANTS TypeOK PrimaryOffsets CompactionHeads IndexAgree StatsPredictCompaction
PROPERTIES CompactionPreservesView CompactedIsMinimal
