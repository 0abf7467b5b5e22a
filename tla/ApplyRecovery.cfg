CONSTANTS
    r1 = r1
    r2 = r2
    i1 = i1
    None = None
    Baked = Baked
    Revs = {r1, r2}
    ImportRevs = {}
    MaxJobs = 4
    MaxEdits = 2
    MaxRepairs = 2
    Allowed <- RecoveryTroubles
SPECIFICATION FairSpec
PROPERTIES EveryJobFinishes DriftRepaired
