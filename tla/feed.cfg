SPECIFICATION Spec
CONSTANTS
    Aircraft = {x}
    MaxTime = 3
    MaxId = 3
    MaxUpdates = 1
    Limit = 2
INVARIANTS
    NothingSkipped
    SubscribersConverge
PROPERTIES
    PolledInOrder
    EveryPositionIsEmitted
CHECK_DEADLOCK FALSE
