CONSTANTS
    r1 = r1
    r2 = r2
    i1 = i1
    None = None
    Baked = Baked
    Revs = {r1, r2, i1}
    ImportRevs = {i1}
    MaxJobs = 4
    MaxEdits = 3
    MaxRepairs = 1
    Allowed <- SafetyTroubles
SPECIFICATION Spec
SYMMETRY Symmetry
INVARIANTS ApplyInv NoMixedSnapshot
PROPERTIES AppliedIsMarked AppliedIsServed RollbackRestores NoStaleOverNewer LifecycleSpec
