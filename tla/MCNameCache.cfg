SPECIFICATION Spec
CONSTANTS
    Requests = {r1, r2}
    Names = {"files", "mail", "read"}
    Registries <- MCRegistries
    TTLs <- MCTTLs
    DefaultTTL = 2
    ListTimeout = 1
    MaxTime = 3
INVARIANT StaleBounded
PROPERTIES
    OneRefreshPerExpiry
    RequestsAnswered
CHECK_DEADLOCK FALSE
