SPECIFICATION BucketSpec
CONSTANTS
    Cost = 2
    Capacity = 4
    Rate = 1
    Expiry = 4
    Grace = 2
    MaxSkew = 2
    MaxClock = 12
INVARIANTS
    RateBounded
