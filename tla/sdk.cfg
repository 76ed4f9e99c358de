SPECIFICATION Spec
CONSTANTS
    alice = alice
    bob = bob
    GenesisLock <- MCGenesisLock
    Owners = {alice, bob}
    RA = RA
    Labels = {RA}
    Payloads <- MCPayloads
    Plain = Plain
    NoData = NoData
    NoTx = NoTx
    MaxSequence = 3
    MaxTxs = 3
    MaxOutputs = 2
    MaxInputs = 2
    Sessions = {s1, s2}
    Patches <- MCPatches
    UnixTimes = {1}
    MaxJobs = 3
    MaxPolls = 2
INVARIANTS
    PreparedVerifies
    NoLostUpdate
    ReturnedIsOwn
PROPERTIES
    WaitEnds
CHECK_DEADLOCK FALSE
