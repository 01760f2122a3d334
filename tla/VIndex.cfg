SPECIFICATION Spec
CONSTANTS
    Ids = {1, 2}
    Fields <- MCFields
    Docs <- MCDocs
    Queries <- MCQueries
    Updates <- MCUpdates
    IndexDefs <- MCIndexDefs
    Collation <- MCCollation
    Now = 2
    NowString = 5
    MaxItems = 1
    MaxNumber = 2
    ReadErrors = FALSE
    None = None
    Keep = Keep
    NoScan = NoScan
INVARIANT PlanConservative
