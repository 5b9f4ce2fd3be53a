SPECIFICATION Spec
CONSTANTS
    Calls = {c1, c2, c3, c4}
    MaxRequests = 2
    MinRequests = 3
    RatioNum = 1
    RatioDen = 2
    Interval = 2
    Timeout = 3
    ReqBound = 5
INVARIANTS
    CountsConsistent
    HalfOpenBounded
PROPERTIES
    TimeoutKeptUntilReload
    ProbeLimitIsTemporary
