SPECIFICATION Spec
CONSTANTS
    None = None
    MaxCases = 3
    MaxDeps = 2
    BatchNumbers = {0, 1}
    Payloads <- SmallPayloads
    Outcomes <- SmallOutcomes
CHECK_DEADLOCK FALSE
INVARIANTS ScoreMatchesReference ReportedPointsAddUp AcceptedExactly EveryCaseReportedOnce FirstErrorDecides
PROPERTY ImplementsJudgeTask
