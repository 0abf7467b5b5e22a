CONSTANTS
    a1 = a1
    a2 = a2
    b = b
    c = c
    None = None
    Revs = {a1, b}
    Content <- Contents
    StartRoles = {"primary"}
    Reapply = FALSE
    MaxJobs = 2
    MaxExt = 1
    HealRecent = 8
    MaxAborts = 0
SPECIFICATION FairPrimarySpec
PROPERTIES HealRepublishes
