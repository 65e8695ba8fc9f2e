SPECIFICATION PartsSpec
CONSTANTS
    Act = {c1, c2, c3}
    MaxTriggers = 4
    MaxFaults = 3
    Task = {"p1", "p2", "p3", "p4", "p5"}
    TenantOf <- MCTenantOf
    MaxRunning = 2
    NoTask = "none"
    Asker = {"x", "y"}
    Hook = "hook"
    Body = {"p"}
    Ttl = 1
    Settle = 1
    Recheck = 1
    MaxClock = 3
    Item = {1}
    Chunk = {"c1", "c2"}
    MaxMishaps = 1
    MaxEnrolments = 2
    Conn = {1, 2}
    WsFailures = 2
    SseFailures = 1
    MaxNews = 2
INVARIANTS
    PartsTypeOK
    SingleFlight
    PushesAreBounded
    PaymentRecordedOnce
    UploadedIsStored
PROPERTIES
    RetiredNeverStarts
    TriggerAnswered
    BackoffEnds
    EveryPushRuns
    PaidIsRecorded
    EveryCaptureUploads
    
CHECK_DEADLOCK FALSE
