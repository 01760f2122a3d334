SPECIFICATION Spec
CONSTANTS
    DocIds = {d1, d2}
    Values = {1, 3}
    SizeOf <- MCSizeOf
    Budgets = {2, 3}
    Cursors = {k1}
    Filters = {{3}}
    IdLists = {}
    Chains <- MCChains
    EscalateAfter = 1
    Habits = {}
    MaxFile = 3
    MaxCaches = 1
    None = None
SYMMETRY Symmetry
INVARIANTS TypeOK CursorYieldsSnapshot CacheWithinBudget CacheIsCurrent
PROPERTIES CountIsSnapshot
