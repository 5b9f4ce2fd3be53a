SPECIFICATION Spec
CONSTANTS
    Users = {ann, bob}
    NoOne = NoOne
    Rejected = Rejected
    Tabs = {t1, t2}
    MaxLogins = 2
INVARIANTS
    CodeMatchesVerifier
    LogoutLeavesNothing
    LatestLoginWins
CHECK_DEADLOCK FALSE
