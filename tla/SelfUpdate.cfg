SPECIFICATION FairSpec
CONSTANTS
    Requests = {p, q, r}
    Malformed = {r}
    Services = {"api", "worker"}
    Retries = 2
    MaxFaults = 2
    MaxVersion = 1
    None = None
    Absent = Absent
INVARIANTS OneUpdate OkRunsPulled LegacyKept
PROPERTIES DatabaseIsWhole UpdateSettles UpdaterCatchesUp
CHECK_DEADLOCK FALSE
