SPECIFICATION Spec
CONSTANTS
    Receivers = {r1, r2, r3}
    Messages = {ma, mb}
    Times = {0, 1, 2, 3}
    Window = 1
    BufferDuration = 2
    MinReceivers = 2
    MaxSignals = 3
INVARIANTS
    GroupsAreSimultaneous
    CompleteIsFound
PROPERTIES
    VerifiedReceiversSolve
