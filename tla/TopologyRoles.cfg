CONSTANTS
    A = A
    B = B
    None = None
    Installations = {A,B}
    MaxGen = 3
    MaxKeys = 2
    MaxTokens = 1
    MaxDrafts = 2
    MaxFaults = 1
    FaultKinds = {"key", "lost", "apply", "commit", "restart"}
SPECIFICATION Spec
SYMMETRY Interchange
INVARIANTS MemIsRow LeadsAboveJoined LeadershipHolds
CHECK_DEADLOCK FALSE
