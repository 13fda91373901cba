SPECIFICATION LiveSpec
CONSTANTS
    v1 = v1
    v2 = v2
    v3 = v3
    i1 = i1
    i2 = i2
    None = None
    Torn = Torn
    Version = {v1, v2, v3}
    Good = {v1, v2}
    Setups <- AllSetups
    MaxCrash = 2
    Caller = {"loop", "api"}
INVARIANTS TypeOK HashSaved RestoredTagFits
PROPERTIES Converges
