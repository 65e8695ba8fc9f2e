SPECIFICATION FairSpec
CONSTANTS
    SystemDevice = system
    Genesis = Genesis
    RefusalCodes = {"PERMISSION_DENIED"}
    MaxSystemOps = 0
    BatchSize = 2
    MaxRegs = 1
    MaxIds = 2
    MaxFaults = 2
    Revocable = FALSE
    LateAnswers = TRUE
    EnrolFaults = {}
PROPERTIES
    ImplementsLedger
    EverySavedSettled
CHECK_DEADLOCK FALSE
