SPECIFICATION Spec
CONSTANTS
    t1 = t1
    t2 = t2
    s1 = s1
    s2 = s2
    None = None
    Tasks = {t1, t2}
    Slots = {s1, s2}
    MaxRetries = 1
    MaxTimeouts = 1
    MaxCrashes = 1
CHECK_DEADLOCK FALSE
INVARIANTS NothingLost AnswersPaidFor SilentOnlyAfterRetries
PROPERTY EverySubmissionSettles
