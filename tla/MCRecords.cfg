SPECIFICATION RecordsSpec
CONSTANTS
    Op = {"f1", "f2", "m1", "f3"}
    OwnOp = {"m1"}
    Record = {"r1", "r2"}
    Module = {"A"}
    RecordOf <- MCRecordOf
    ModuleOf <- MCModuleOf
    Place <- MCPlace
    Walk <- MCWalk
    PageSize = 1
    MaxVersions = 3
    MaxArrivals = 4
    Writer = {1, 2}
    Clock = {1, 2, 3}
    MaxChanges = 3
    Request = {"first", "retry", "other", "revoke"}
    EnrolRequest = {"first", "retry", "other"}
    KeyOf <- MCKeyOf
    BodyOf <- MCBodyOf
    NewDevice <- MCNewDevice
    Replaced <- MCReplaced
    Enrolled = {"old"}
    NoDevice = "nodev"
    FreeAttempts = 1
    Threshold = 3
    Delay <- MCDelay
    MaxTasks = 3
    MaxTime = 3
    MaxPins = 3
    Person = {1, 2, 3}
    Decider = {2, 3}
    Price = 2
    Lags = {0, 3}
    MaxCommands = 2
    Does <- MCDoes
    Stories <- MCStories
    DrawerStories <- MCDrawerStories
    Cashier = {2, 3}
    MaxCashSteps = 3
    StockStories <- MCStockStories
    Keeper = {2, 3}
    MaxStockSteps = 3
INVARIANTS
    RecordsTypeOK
    RowsAreCanonical
    RebuiltIsCurrent
    RacedIsRecorded
    DoneOnce
    AttemptsAreCounted
    JudgedStands
    DecidedOnce
    SettledIsRight
    StockFollowsShelf
CHECK_DEADLOCK FALSE
