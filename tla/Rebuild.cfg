CONSTANTS
    Keys = {1, 2}
    MaxRecords = 3
    MaxVersion = 8
    MaxTime = 2
    CanTimeOut = TRUE
    Retail = TRUE
SPECIFICATION Spec
INVARIANTS
    TypeOK
    SlotsAreLive

    
    
