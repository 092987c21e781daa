SPECIFICATION FairSpec
CONSTANTS
    Hosts = {h1}
    Default = h1
    Reqs <- MCReqs
    HitlEnabled = TRUE
    MaxParallel = 2
    MaxRetries = 1
    MaxReplies = 2
    MaxFaults = 2
INVARIANTS IdsAgree NoSilentError DiskAgrees
PROPERTIES VerdictKept InvocationEnds
