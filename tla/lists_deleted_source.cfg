CONSTANTS
    Lists = {block}
    Domains = {d1, d2}
    Urls = {u1}
    Tasks = {t1, t2}
    Refreshers = {}
    SyncTasks = {}
    MaxSourceId = 2
    MinSourceDomains = 1
    MinRetainedPercent = 60
    IgnoredErrors = FALSE
    NoTask = NoTask
SPECIFICATION Spec
SYMMETRY Symmetry
INVARIANTS
    EveryListedDomainHasASource
