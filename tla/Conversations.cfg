SPECIFICATION Spec
CONSTANTS
    ann = ann
    root = root
    t1 = t1
    t2 = t2
    MaxRequests = 3
    Principals <- MCPrincipals
    AdminUsers = {root}
    NoUser = NoUser
    NoTenant = NoTenant
    Providers = {anthropic, openai}
    NativeProviders = {anthropic}
    NoProvider = NoProvider
    Answers = {"thinking", "tools", "none"}
    Limit = 1
CHECK_DEADLOCK FALSE
SYMMETRY TenantSymmetry
INVARIANTS
    TranscriptKept
    HistoryStaysWithOwner
    ContinuedAnswerConvertible
PROPERTIES
    ListingMissesNothing
