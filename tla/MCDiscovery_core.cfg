SPECIFICATION Spec
CONSTANTS
    Users = {u1, u2}
    Phones = {p1}
    Salts = {s1, s2}
    LinkCodes = {t1}
    NoAccount = NoAccount
    NoCode = NoCode
    NoToken = NoToken
    NoWindow = NoWindow
    NoHash = NoHash
    NoFile = NoFile
    Keys = 1
    Batches = {2}
    DiskFaults = TRUE
    AccessTTL = 1
    RefreshTTL = 2
    LinkTTL = 0
    OtpTTL = 0
    RegisterCooldown = 1
    IntersectWindow = 1
    MaxOTPAttempts = 2
    IntersectBudget = 3
    MaxReqs = 2
    MaxKeys = 2
    MaxTime = 1
SYMMETRY UserAndSaltSymmetry
INVARIANTS TypeOK NoOrphan OtkOnce RevokedDies
PROPERTY GoneForGood
