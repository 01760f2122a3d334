SPECIFICATION Spec
CONSTANTS
    Names = {"A"}
    ColIds = {c1, c2}
    DocIds = {d1, d2}
    Fields = {"f"}
    Values = {x}
    Kind <- MCKind
    Stored <- MCStored
    IndexDefs <- UniqueOnly
    Faults = {"throw_in_batch"}
    MaxLog = 5
    MaxBatch = 1
    None = None
    Date = Date
    Iso = Iso
PROPERTY ReopenRestores
