SPECIFICATION Spec
CONSTANTS
    Ids = {1, 2}
    Endpoints = {ea, eb}
    NoEndpoint = NoEndpoint
    Bridge = Bridge
    Simulation = Simulation
PROPERTIES
    StopEnds
CHECK_DEADLOCK FALSE
