CONSTANTS
    a1 = a1
    a2 = a2
    b = b
    c = c
    None = None
    Revs = {a1, a2, b, c}
    Content <- Contents
    StartRoles = {"primary", "primary-with-nodes"}
    Reapply = TRUE
    MaxJobs = 3
    MaxExt = 1
    HealRecent = 2
    MaxAborts = 1
SPECIFICATION FairPrimarySpec
INVARIANTS RowsMatchJobs
PROPERTIES EventuallyPublished
