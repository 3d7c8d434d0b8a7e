SPECIFICATION Spec
CONSTANTS
    MaxCases = 3
    None = None
CHECK_DEADLOCK FALSE
INVARIANT TypeOK
INVARIANT VerdictFollowsRuns
INVARIANT ClosedInsideOut
PROPERTY ImplementsJudgeTask
