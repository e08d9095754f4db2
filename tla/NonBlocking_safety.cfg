CONSTANTS
    t1 = t1
    t2 = t2
    t3 = t3
    Thread = {t1, t2, t3}
    MaxState = 6
    CanCrash = TRUE
SYMMETRY Symmetry
SPECIFICATION Spec
INVARIANTS
    TypeOK
    WriterOwnsState
    ReaderCounterExact
    ValidatedReadIsAtomic
    LateReaderHasOldTicket
PROPERTY CommittedNeverRecedes
CHECK_DEADLOCK FALSE
