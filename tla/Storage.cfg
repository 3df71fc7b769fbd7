SPECIFICATION Spec
CONSTANTS
    k1 = k1  w1 = w1  w2 = w2
    Blobs = {k1}
    NoBlob = NoBlob
    Size <- OneSize
    MaxBytes <- Roomy
    Workers = {w1, w2}
    NoWorker = NoWorker
    Start <- Mirrored
    Protectable = {k1}
    MaxPruneBatch = 2
    Faults = {"crash", "slow", "io", "corrupt", "lost", "unset"}
    MaxFaults = 2
    MaxCommands = 2
    MaxAttempts = 2
    Requests <- AllKinds
INVARIANTS TypeOK BackendLedgerAddsUp ReadyHasBytes ReadyObjectsHaveACopy ProtectionHolds
SYMMETRY WorkerSymmetry
CHECK_DEADLOCK FALSE
