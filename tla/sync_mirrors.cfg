CONSTANTS
    Categories = {"settings", "upstreams"}
    MaxContent = 1
    Foreign = Foreign
    None = None
    ApplyMayFail = TRUE
    LocalEdits = TRUE
    MasterReturns = TRUE
SPECIFICATION FairSpec
INVARIANTS
    TypeOK
    SkippedIsHeld
PROPERTIES
    QuietCategoryMirrored
    SessionsRepair
