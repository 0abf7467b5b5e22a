CONSTANTS
    r1 = r1
    r2 = r2
    i1 = i1
    None = None
    Baked = Baked
    Revs = {r1, r2}
    ImportRevs = {}
    MaxJobs = 2
    MaxEdits = 2
    MaxRepairs = 0
    Allowed <- SafetyTroubles
SPECIFICATION Spec
PROPERTIES RollbackIsServed
