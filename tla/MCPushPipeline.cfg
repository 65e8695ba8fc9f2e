SPECIFICATION Spec
CONSTANTS
    d1 = d1
    d2 = d2
    a = a
    b = b
    c = c
    f = f
    Devices <- MCDevices
    SystemDevice = system
    Op <- MCOp
    RefusalCodes = {"SCOPE_VIOLATION"}
    ForeignIds <- MCForeignIds
    Genesis = Genesis
    MaxBatch = 2
    MaxSystemOps = 1
INVARIANTS
    TypeOK
    GaplessStream
    OpIdOnce
    PositionSpentOnce
    ChainIntact
    AnswersHold
PROPERTIES
    AppendOnlyStream
