CONSTANTS
    t1 = t1
    t2 = t2
    t3 = t3
    Thread = {t1, t2, t3}
    MaxState = 4
    CanCrash = FALSE
SPECIFICATION FairSpec
PROPERTIES
    ExclusiveWaitEnds
    WriterLeaves
