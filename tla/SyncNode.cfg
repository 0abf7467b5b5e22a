CONSTANTS
    a = a
    b = b
    None = None
    Revs = {a, b}
    Content <- OwnContents
    StartRoles = {"primary", "primary-with-nodes"}
    Reapply = TRUE
    MaxJobs = 3
    MaxExt = 1
    HealRecent = 8
    MaxAborts = 1
    MaxEnrolls = 2
    MaxNodeJobs = 5
    Allowed <- SyncEvents
SPECIFICATION FairSpec
INVARIANTS AckedWasApplied UpToDateRunsIt UnlinkedIsTrue
PROPERTIES Converges LearnsUnlink
