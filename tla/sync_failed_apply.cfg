CONSTANTS
    Categories = {"settings", "upstreams"}
    MaxContent = 1
    Foreign = Foreign
    None = None
    ApplyMayFail = TRUE
    LocalEdits = FALSE
    MasterReturns = FALSE
SPECIFICATION FairSpec
PROPERTIES
    AlwaysMirrors
