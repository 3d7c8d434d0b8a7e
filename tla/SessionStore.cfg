SPECIFICATION Spec
CONSTANTS
    p1 = p1
    p2 = p2
    None = None
    Procs = {p1, p2}
    MaxLogins = 2
    MaxSessions = 1
    MaxChanges = 1
SYMMETRY Symmetry
CHECK_DEADLOCK FALSE
INVARIANTS RevokedStaysDead Findable SessionLimit PermissionsCurrent
