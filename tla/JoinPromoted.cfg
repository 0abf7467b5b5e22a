CONSTANTS
    A = A
    B = B
    None = None
    Installations = {A, B}
    MaxGen = 3
    MaxKeys = 2
    MaxTokens = 1
    MaxDrafts = 1
    MaxFaults = 0
    FaultKinds = {}
SPECIFICATION Spec
INVARIANT EnrolledIsBound
CHECK_DEADLOCK FALSE
