SPECIFICATION LimiterSpec
CONSTANTS
    Clients = {c1, c2}
    Threads = {t1, t2}
    NoClient = NoClient
    Limit = 2
    Window = 2
    MaxClients = 1
    MaxDelay = 1
    MaxTime = 5
INVARIANTS
    BoundedRate
    BoundedMemory
CHECK_DEADLOCK FALSE
