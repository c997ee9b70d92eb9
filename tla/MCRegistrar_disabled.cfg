SPECIFICATION Spec
CONSTANTS
    Tools = {t1}
    Endpoints = {e1}
    Kinds = {"stdio"}
    HealthProbing = TRUE
    NoTool = NoTool
    BacklogBound = 3
INVARIANTS
    DisabledHolds
