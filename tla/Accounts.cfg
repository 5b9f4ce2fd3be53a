SPECIFICATION Spec
CONSTANTS
    Identities = {"root", "ann", "bob"}
    EmailsOf <- MCEmailsOf
    Patches <- MCPatches
    AdminEmail = "r"
    MaxKeys = 1
    MaxActive = 3
    MaxRequests = 5
    Workers = {w1, w2}
SYMMETRY Symmetry
INVARIANTS
    KeyLimitOvershoot
PROPERTIES
    BarredUntilReactivated
    RightsAreGranted
    LastAdminKept
