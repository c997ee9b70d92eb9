CONSTANTS
    Requests = {r1, r2}
    Executors = {e1, e2, e3}
    NoRequest = NoRequest
    NoExecutor = NoExecutor
    EventBound = 2
    ToldBound = 4
SPECIFICATION FairSpec
INVARIANTS
    TypeOK
    NoExecutorLeaked
    DispatchOnOpenExecutor
    OneReportPerInvocation
    SuccessReportedTruly
    ReportsWithinSession
PROPERTIES
    EveryInvocationReported
    DeactivationCompletes
CHECK_DEADLOCK FALSE
