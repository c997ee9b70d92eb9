SPECIFICATION Spec
CONSTANTS
    i1 = i1
    i2 = i2
    i3 = i3
    s1 = s1
    s2 = s2
    s3 = s3
    r1 = r1
    r2 = r2
    FailureThreshold = 2
    OpenDuration = 1
    HalfOpenMaxRequests = 2
    Invocations = {i1, i3}
    Sessions = {s1, s3}
    Routers = {r1, r2}
    SessionOf <- MCSessionOf
    RouterOf <- MCRouterOf
    SessionLimits = {0, 1}
    MaxSessionsPerTool = 1
    CredentialPolicyRequired = TRUE
    HealthProbing = TRUE
    AsksMayFail = TRUE
    Reregisters = TRUE
    MailboxBound = 2
SYMMETRY MCNodes
INVARIANTS
    TypeOK
    CircuitWellFormed
    ProbesHoldSlots
PROPERTIES
    ImplementsContract
