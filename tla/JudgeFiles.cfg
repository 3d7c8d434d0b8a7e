SPECIFICATION JudgeSpec
CONSTANTS
    t1 = t1
    t2 = t2
    o1 = o1
    c1 = c1
    c2 = c2
    b1 = b1
    NoSha = NoSha
    None = None
    Threads = {t1, t2}
    ProcOf <- OneProcess
    Objects = {o1}
    Contents = {c1, c2}
    Requests <- Mixed
    Nested = {}
    BaseName <- NoNames
    BareNames = {b1}
    Size <- UnitSize
    MaxBytes = 3
    RevalidateInterval = 1
    TouchCooldown = 1
    LruGracePeriod = 1
    Ttl = 1
    AllowRevert = FALSE
    MaxTime = 2
    MaxFaults = 1
CHECK_DEADLOCK FALSE
SYMMETRY ThreadSymmetry
INVARIANTS EntryPaired EtagHonest ReturnedPathExists VerdictExact
