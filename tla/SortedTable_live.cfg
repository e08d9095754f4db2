CONSTANTS
    t1 = t1
    t2 = t2
    t3 = t3
    Thread = {t1, t2}
    MaxCalls = 3
    Keys = {1, 2}
    Preload = {1}
    ValueSizes = {1, 2}
    MaxEnd = 20
    CanTimeOut = FALSE
SPECIFICATION FairSpec
PROPERTY EveryCallReturns
