CONSTANTS
    Targets = {"standalone", "replica"}
    Script <- ScriptDef
    MaxFaults = 2
SPECIFICATION AcceptanceSpec
CHECK_DEADLOCK FALSE
INVARIANTS
    AcceptanceTypeOK
    SlaveModeComesBack
    
