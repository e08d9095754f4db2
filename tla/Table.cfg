CONSTANTS
    p1 = p1
    p2 = p2
    t1 = t1
    t2 = t2
    t3 = t3
    Process = {p1, p2}
    Thread = {t1, t2, t3}
    ProcessOf <- HomeOf
    NoThread = NoThread
    DeadThread = DeadThread
    Key = {1, 2, 3}
    WideSize = 8
    LeftTables <- SmallTables
    InitialSize = 2
    MaxOpens = 2
    MaxCalls = 4
    MaxKills = 1
    MaxFailures = 1
    MaxTimeouts = 1
SPECIFICATION Spec
SYMMETRY Siblings
CONSTRAINT Followed
INVARIANTS
    TypeOK
    CompletedCallsSurvive
    HarmNeedsForeignGrowth
    WaitsHaveACause
PROPERTIES
    FilesNeverShrink
CHECK_DEADLOCK FALSE
