SPECIFICATION Spec
CONSTANTS
    Owners = {alice}
    RA = RA
    RB = RB
    Labels = {RA, RB}
    Payloads <- MCPayloads
    Plain = Plain
    NoData = NoData
    MaxSequence = 2
    MaxTxs = 3
    MaxOutputs = 2
    MaxInputs = 2
INVARIANTS
    OneLiveCellPerIdentity
    AnchorIsSpent
    LiveRecordsValidate
    SequenceIsPaced
PROPERTIES
    FinalCellsStay
    LifecycleSpec
CHECK_DEADLOCK FALSE
