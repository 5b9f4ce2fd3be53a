SPECIFICATION Spec
CONSTANTS
    Kids = {"k1", "k2"}
    Watched = "k1"
    Validators = {v1, v2}
    Periodic = periodic
    StaleTTL = 2
    FetchTime = 1
    RefreshCooldown = 2
    NormalInterval = 4
    InitialRetry = 1
    MaxRetry = 2
    MaxRotations = 2
INVARIANTS
    WithdrawnKeyRejected
PROPERTIES
    KeysConverge
