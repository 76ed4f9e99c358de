SPECIFICATION DiscoverySpec
CONSTANTS
    Owners = {alice}
    RA = RA
    Labels = {RA}
    Payloads <- MCPayloads
    Plain = Plain
    NoData = NoData
    MaxSequence = 1
    MaxTxs = 3
    MaxOutputs = 2
    MaxInputs = 1
    IdentityFirst = FALSE
    Oversized <- MCOversized
    Now = 1
    MaxSkew = 1
    PageSize = 1
    MaxPages = 3
    MaxCells = 2
    MaxScans = 1
    MovesAstray = FALSE
INVARIANTS
    NothingMissed
    RevokedStaysOut
    NothingStalePublished
    NothingSupersededPublished
PROPERTIES
    DiscoveryEnds
CHECK_DEADLOCK FALSE
