SPECIFICATION WorkerSpec
CONSTANTS
    t1 = t1
    t2 = t2
    o1 = o1
    c1 = c1
    c2 = c2
    b1 = b1
    NoSha = NoSha
    None = None
    Threads = {t1, t2}
    ProcOf <- TwoProcesses
    Objects = {o1}
    Contents = {c1, c2}
    Requests <- ByDigest
    Nested = {}
    BaseName <- NoNames
    BareNames = {b1}
    Size <- UnitSize
    MaxBytes = 3
    RevalidateInterval = 1
    TouchCooldown = 1
    LruGracePeriod = 0
    Ttl = 0
    AllowRevert = FALSE
    MaxTime = 1
    MaxFaults = 1
CHECK_DEADLOCK FALSE
SYMMETRY ThreadSymmetry
INVARIANTS TypeOK ContentAddressed
