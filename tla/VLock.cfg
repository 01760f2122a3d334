SPECIFICATION Spec
CONSTANTS
    Procs = {p1, p2}
    MaxRetries = 3
    PidReuse = FALSE
    None = None
INVARIANT MutualExclusion
CHECK_DEADLOCK FALSE
