CONSTANTS
    Lists = {block}
    Domains = {d1, d2}
    Urls = {u1, u2}
    Tasks = {t1, r}
    Refreshers = {r}
    SyncTasks = {}
    MaxSourceId = 2
    MinSourceDomains = 1
    MinRetainedPercent = 60
    IgnoredErrors = FALSE
    NoTask = NoTask
SPECIFICATION Spec
SYMMETRY Symmetry
INVARIANTS
    TypeOK
    RuntimeMatchesDb
    EveryListedDomainIsOwned
PROPERTIES
    ManualSurvivesSources
    RefreshRetainsShare
