CONSTANTS
    Lists = {block, allow}
    Domains = {d1, d2}
    Urls = {u1, u2}
    Tasks = {t1}
    Refreshers = {}
    SyncTasks = {}
    MaxSourceId = 2
    MinSourceDomains = 1
    MinRetainedPercent = 60
    IgnoredErrors = FALSE
    NoTask = NoTask
SPECIFICATION Spec
INVARIANTS
    EveryListedDomainIsOwned
