SPECIFICATION Spec
CONSTANTS
    Requests = {r1, r2, r3, r4}
    MaxConcurrent = 2
    Quota = 2
    MaxTokens = 1
    TTL = 2
    UsedBound = 2
    DriftBound = 1
INVARIANTS
    PositiveCountExpires
    ConcurrencyBounded
    QuotaOvershootBounded
PROPERTIES
    LockoutEnds
