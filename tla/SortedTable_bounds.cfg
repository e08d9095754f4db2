CONSTANTS
    t1 = t1
    t2 = t2
    t3 = t3
    Thread = {t1, t2, t3}
    MaxCalls = 4
    Keys = {1, 2}
    Preload = {2}
    ValueSizes = {1, 2}
    MaxEnd = 8
    CanTimeOut = FALSE
SYMMETRY Symmetry
SPECIFICATION Spec
INVARIANTS
    WastedIsExact
    DataBelowIndex
CHECK_DEADLOCK FALSE
