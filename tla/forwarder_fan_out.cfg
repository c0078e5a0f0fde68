CONSTANTS
    Upstreams = {u1, u2, u3}
    Queries = {q1}
    MaxGeneration = 1
    MaxParallel = 2
    MaxFailures = 1
    MaxLatency = 0
    DefaultLatency = 0
    NoUpstream = NoUpstream
SPECIFICATION FairSpec
INVARIANTS
    FanOutBounded
    NoneForgotten
PROPERTIES
    GivesUpLast
    EveryQueryAnswered
