SPECIFICATION FairSpec
CONSTANTS
    Procs = {p1, p2, p3}
    MaxRetries = 3
    PidReuse = TRUE
    None = None
INVARIANTS TypeOK NoLeak ExclusiveUnlessContended
PROPERTIES AcquireTerminates StaleLockReclaimed
