SPECIFICATION FairSpec
CONSTANTS
    Tools = {t1}
    Endpoints = {e1, e2}
    Kinds = {"stdio", "grpc"}
    HealthProbing = TRUE
    NoTool = NoTool
    BacklogBound = 3
INVARIANTS
    TypeOK
    RecordsAgree
    SupervisorUpToDate
    SchemasOfBackend
PROPERTIES
    ChangesReachSupervisor
