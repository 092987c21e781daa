SPECIFICATION Spec
CONSTANTS
    Hosts = {h1, h2}
    Default = h1
    Reqs <- MCReqOne
    HitlEnabled = TRUE
    MaxParallel = 2
    MaxRetries = 1
    MaxReplies = 1
    MaxFaults = 0
INVARIANT OwnEvidence
