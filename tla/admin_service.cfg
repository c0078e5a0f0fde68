CONSTANTS
    Editors = {edit1, edit2}
    Mirrors = {mirror}
    Names = {name}
    Rules = {rule1, rule2}
    NoRule = norule
    Upstreams = {seed, other, hostname}
    Unparsable = {hostname}
    SeedUpstream = seed
    Keys = {"listen_port", "forward_strategy"}
    Values = {1, 2, 3}
    Default = 1
    Malformed = 0
    Unbindable = {3}
    DbMayFail = TRUE
    Logins = {login1, login2}
    Clients = {home, near, far}
    Changes = {newpass}
    Resets = {genpass}
    NoUser = nouser
    NoClient = noclient
    MaxFailures = 2
    MaxTracked = 1
    Slots = 1
    From <- AddressesDef
    MaxKeyFaults = 1
    Requests = {order1}
    Renewals = {renewal}
    Domains = {site}
    NoDomain = nodomain
    NoCert = nocert
    Names2Prove = {{"name"}, {"name", "wildcard"}}
    MaxPolls = 1
    Updates = {update}
    Releases = {1, 2}
    Workloads <- WorkloadsDef
    edit1 = edit1
    edit2 = edit2
    mirror = mirror
    login1 = login1
    login2 = login2
    newpass = newpass
    genpass = genpass
    order1 = order1
    renewal = renewal
    update = update
    home = home
    near = near
    far = far
    site = site
SPECIFICATION AdminSpec
CHECK_DEADLOCK FALSE
INVARIANTS
    AdminTypeOK
    CopiesAgree
    ThrottleBound
    SessionsMatchPassword
    RecordsHaveAKeeper
PROPERTIES
    OrdersEnd
    ChangesTakeEffect
