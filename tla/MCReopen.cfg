SPECIFICATION CarefulSpec
CONSTANTS
    Names = {"A"}
    ColIds = {c1, c2}
    DocIds = {d1, d2}
    Fields = {"f"}
    Values = {x, y}
    Kind <- MCKind
    Stored <- MCStored
    IndexDefs <- BothDefs
    Faults = {"crash", "throw_in_batch"}
    MaxLog = 6
    MaxBatch = 2
    None = None
    Date = Date
    Iso = Iso
SYMMETRY Symmetry
INVARIANTS UniqueKeys OpenSucceeds
PROPERTIES ReopenRestores ImplementsDocumentStore
