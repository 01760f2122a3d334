SPECIFICATION Spec
CONSTANTS
    Lengths = {3, 4}
    Chunk = 2
    Strict = TRUE
    Faults = {"crash", "crash_in_create", "power_loss"}
    MaxRecs = 3
    MaxCells = 11
    None = None
PROPERTIES RecoversAcked
INVARIANT RefusesOnlyDamage
