CONSTANTS
    t1 = t1
    t2 = t2
    t3 = t3
    Thread = {t1, t2}
    Sizes = {1, 3, 4, 6}
    Capacity = 5
    Short = 2
    Base = 4
    MaxWrites = 3
    CanCrash = TRUE
SYMMETRY Symmetry
SPECIFICATION Spec
INVARIANTS
    CallsReportTheirVersion
    StableValueIsWhole
    OverrunsAreDiscarded
CHECK_DEADLOCK FALSE
