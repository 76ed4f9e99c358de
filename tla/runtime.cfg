SPECIFICATION Spec
CONSTANTS
    Ids = {1, 2}
    Endpoints = {ea, eb}
    NoEndpoint = NoEndpoint
    Bridge = Bridge
    Simulation = Simulation
INVARIANTS
    InventoryAgrees
    NotLiveMeansEmpty
    StrictFeedFollowsPool
PROPERTIES
    CrashIsNoticed
    StrictStopEnds
CHECK_DEADLOCK FALSE
