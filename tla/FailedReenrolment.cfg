SPECIFICATION Spec
CONSTANTS
    SystemDevice = system
    Genesis = Genesis
    RefusalCodes = {}
    MaxSystemOps = 0
    BatchSize = 2
    MaxRegs = 2
    MaxIds = 1
    MaxFaults = 1
    Revocable = FALSE
    LateAnswers = FALSE
    EnrolFaults = {"fail"}
INVARIANTS
    HonestSignatureVerifies
CHECK_DEADLOCK FALSE
