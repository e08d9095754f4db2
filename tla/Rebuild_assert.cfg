CONSTANTS
    Keys = {1, 2}
    MaxRecords = 3
    MaxVersion = 8
    MaxTime = 2
    CanTimeOut = FALSE
    Retail = FALSE
SPECIFICATION Spec
INVARIANT NoRebuiltCandidateDeleted
