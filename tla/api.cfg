SPECIFICATION Spec
CONSTANTS
    Clients = {c1}
    Threads = {t1}
    NoClient = NoClient
    Limit = 1
    Window = 2
    MaxClients = 1
    MaxDelay = 1
    MaxTime = 2
    Keys = {k1}
    NoKey = NoKey
    DefaultPlans <- MCPlans
    Entitlements <- MCEntitlements
    Spans = {0, 2}
    MaxRequests = 2
    MaxChanges = 2
INVARIANTS
    AnswersWithinPlan
    ServedIsMetered
CHECK_DEADLOCK FALSE
