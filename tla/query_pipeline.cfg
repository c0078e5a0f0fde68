CONSTANTS
    r1 = r1
    r2 = r2
    r3 = r3
    lan = lan
    guest = guest
    name = name
    Requests = {r1, r2, r3}
    Clients = {lan, guest}
    Names = {name}
    AddressTypes = {"A"}
    Asked <- MCAsked
    StoredAllow = {}
    StoredBlock = {name}
    MaxInFlight = 2
    ChannelCapacity = 1
    BatchSize = 2
    MaxChanges = 1
    MaxRestarts = 1
SPECIFICATION FairSpec
CHECK_DEADLOCK FALSE
INVARIANTS
    TypeOK
    PermitsReturned
    CountersAreTrue
    LogKeepsOrder
    LogTellsTheAnswer
PROPERTIES
    DecidesOnOneListState
    EntriesLeaveMemory
