CONSTANTS
    t1 = t1
    t2 = t2
    t3 = t3
    Thread = {t1, t2}
    MaxCalls = 3
    Keys = {1, 2}
    Preload = {2}
    ValueSizes = {1}
    MaxEnd = 6
    CanTimeOut = FALSE
SYMMETRY Symmetry
SPECIFICATION Spec
INVARIANT NoDeletedItemFound
