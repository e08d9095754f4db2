CONSTANTS
    Keys = {1, 2, 3, 4}
    Room = 5
    MaxWrites = 5
SPECIFICATION Spec
INVARIANTS
    TypeOK
    NoSlotLostOrUncovered
    FollowsValidSlots
    AnswersForItsSession
PROPERTY ImplementsSequence
