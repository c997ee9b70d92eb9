SPECIFICATION Spec
CONSTANTS
    Keys = {k1, k2, k3, k4}
    NoKey = NoKey
    CacheTTL = 2
    MaxEntries = 3
    MaxCall = 1
SYMMETRY KeySymmetry
INVARIANTS
    TypeOK
    CacheBounded
    ReplacedSecretsExpire
    RecentlyUsedKept
