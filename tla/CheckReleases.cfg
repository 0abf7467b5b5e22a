SPECIFICATION FairSpec
CONSTANTS
    Cores <- TwoCores
    Values = {0, 1}
    MaxIdentifiers = 2
    Callers = {c, d}
    TTL = 2
    FailureTTL = 1
    ForcedSpacing = 2
    MaxTime = 3
    Releases <- Published
    Current <- Prerelease
    None = None
INVARIANTS FreshIsRecent MatchesStandard
PROPERTIES ReleaseNotForgotten EveryCallAnswered
