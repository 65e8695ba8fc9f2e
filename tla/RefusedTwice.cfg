SPECIFICATION Spec
CONSTANTS
    SystemDevice = system
    Genesis = Genesis
    RefusalCodes = {"PERMISSION_DENIED"}
    MaxSystemOps = 0
    BatchSize = 2
    MaxRegs = 2
    MaxIds = 1
    MaxFaults = 2
    Revocable = FALSE
    LateAnswers = FALSE
    EnrolFaults = {}
INVARIANTS
    RefusedIsNoTampering
CHECK_DEADLOCK FALSE
