CONSTANTS
    Lists = {block}
    Domains = {d1}
    Urls = {u1, u2}
    Tasks = {t1, s}
    Refreshers = {}
    SyncTasks = {s}
    MaxSourceId = 3
    MinSourceDomains = 1
    MinRetainedPercent = 60
    IgnoredErrors = TRUE
    NoTask = NoTask
SPECIFICATION FairSpec
INVARIANTS
    RuntimeWithinDb
    InductiveInvariant
    IdsKeepTheirUrl
PROPERTIES
    WaitingTasksFinish
