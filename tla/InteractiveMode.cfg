SPECIFICATION Spec
CONSTANTS
    None = None
    NumCases = 2
CHECK_DEADLOCK FALSE
INVARIANTS TypeOK AcceptedCaseIsReal AcceptedExactly CutOffIsNeverGraded ClosesAreSafe NothingLeaks
PROPERTY ImplementsJudgeTask
