CONSTANTS
    Requests = {r1, r2}
    Sweep = sweep
    Certs = {c1, c2}
    Tokens = {t1}
    Issuers = {"self-signed", "uploaded", "letsencrypt"}
    Challenges = {"none", "http-01", "dns-01"}
    MaxOps = 2
    MaxAges = 1
    MaxFaults = 1
    Deleted = Deleted
    None = None
SPECIFICATION FairSpec
INVARIANTS MaterialAgrees RenewsOnlyAsWriter ChallengesWithdrawn
PROPERTIES DueIsRenewed RenewalReachesApply
