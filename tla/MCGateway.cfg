SPECIFICATION Spec
CONSTANTS
    t1 = t1
    t2 = t2
    u1 = u1
    Threads = {t1, t2}
    Subscribers = {u1}
    Configs <- MCConfigs
    ToolArguments <- MCToolArguments
    DefaultMailbox = 1
    Serialized = TRUE
    MaxStarts = 2
    EventBound = 2
INVARIANTS
    ServingIsRunning
    StopLeavesNothing
    AuditComplete
CHECK_DEADLOCK FALSE
