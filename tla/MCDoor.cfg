SPECIFICATION Spec
CONSTANTS
    open = open
    closed = closed
    Item <- MCItem
    Requests <- MCRequests
    Moods <- MCMoods
    Doors <- MCDoors
CONSTRAINT OneOrTheOther
INVARIANTS
    ServedAsSeen
    RefusedForAReason
    VerdictHolds
    RemovedAgain
