SPECIFICATION Spec
CONSTANTS
    c1 = c1
    Clients = {c1}
    Names = {"", "files", "store", "notes", "read"}
    Registries <- MCRegistries
    Configs <- MCConfigs
    Headers <- MCHeaders
    RequiredScopes = {"call"}
    Answers <- MCAnswers
    MaxCalls = 4
INVARIANTS
    RequestsAuthorized
    ResultsTruthful
CHECK_DEADLOCK FALSE
