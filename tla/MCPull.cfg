SPECIFICATION FairPull
CONSTANTS
    Op = {"a1", "b1", "m"}
    OwnOp = {"m"}
    Record = {"a", "b", "free"}
    Module = {"A", "B"}
    RecordOf <- MCRecordOf
    ModuleOf <- MCModuleOf
    Place <- MCPlace
    ElsewhereOp = {}
    NewOp = {"b1"}
    Perm = {"a", "b"}
    Everyone = "everyone"
    ReadOf <- MCReadOf
    Device = {"me", "peer", "late"}
    Me = "me"
    Early = {"me", "peer"}
    AuthorOf <- MCAuthorOf
    Limit = 1
    MaxGrants = 1
    MaxLost = 1
    MaxResets = 1
INVARIANTS
    NothingSkipped
    OnlyReadable
    RowsFollowReads
PROPERTY
    EndsUpToDate
CHECK_DEADLOCK FALSE
