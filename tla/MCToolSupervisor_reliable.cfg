SPECIFICATION FairSpec
CONSTANTS
    i1 = i1
    i2 = i2
    i3 = i3
    s1 = s1
    s2 = s2
    s3 = s3
    r1 = r1
    r2 = r2
    FailureThreshold = 2
    OpenDuration = 1
    HalfOpenMaxRequests = 0
    Invocations = {i1, i3}
    Sessions = {s1, s3}
    Routers = {r1, r2}
    SessionOf <- MCSessionOf
    RouterOf <- MCRouterOf
    SessionLimits = {0}
    MaxSessionsPerTool = 0
    CredentialPolicyRequired = FALSE
    HealthProbing = FALSE
    AsksMayFail = FALSE
    Reregisters = FALSE
    MailboxBound = 2
INVARIANTS
    SlotsOwned
    SessionMapAuthoritative
PROPERTIES
    ProbeSlotsReleased
