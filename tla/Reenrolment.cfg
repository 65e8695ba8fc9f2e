SPECIFICATION Spec
CONSTANTS
    SystemDevice = system
    Genesis = Genesis
    RefusalCodes = {}
    MaxSystemOps = 0
    BatchSize = 2
    MaxRegs = 2
    MaxIds = 2
    MaxFaults = 2
    Revocable = TRUE
    LateAnswers = FALSE
    EnrolFaults = {}
INVARIANTS
    NothingLost
    HonestNeverAccused
    SyncedIsDurable
    NeverStranded
PROPERTIES
    ImplementsLedger
CHECK_DEADLOCK FALSE
