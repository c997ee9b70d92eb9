SPECIFICATION FairSpec
CONSTANTS
    r1 = r1
    r2 = r2
    r3 = r3
    t1 = t1
    t2 = t2
    Tenants = {t1, t2}
    Configured = {t1}
    TenantAllowlist = TRUE
    RequestsPerMinute <- MCRequestsPerMinute
    ConcurrentSessions <- MCConcurrentSessions
    CustomEvaluator = {t1}
    CountBound = 1
    Requests = {r1, r2, r3}
    TenantOf <- MCTenantOf
    CredentialsRequired = TRUE
    MailboxSize = 1
    InboxBound = 1
    BacklogBound = 1
INVARIANTS
    TypeOK
    RateRespected
    SessionQuotaRespected
    OnlyAuthorizedSessions
PROPERTIES
    RequestsFinish
