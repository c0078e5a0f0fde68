CONSTANTS
    Upstreams = {u1, u2}
    Queries = {q1, q2}
    MaxGeneration = 0
    MaxParallel = 2
    MaxFailures = 2
    MaxLatency = 1
    DefaultLatency = 0
    NoUpstream = NoUpstream
SPECIFICATION FairSpec
INVARIANTS
    TypeOK
PROPERTIES
    FailingIsDemoted
