SPECIFICATION RoutineSpec
CONSTANTS
    Never = Never
    FirstYear = 2023
    FirstWeekday = 0
    Change <- MCChange
    OffsetBefore = 1
    OffsetAfter = 2
    Requests <- MCRequests
    References <- MCReferences
    Deadlines <- MCDeadlines
    Lateness = {0, 1, 30}
    MaxRuns = 4
INVARIANTS IntervalKept DueBeforeNext
PROPERTIES NoTurnSkipped
CHECK_DEADLOCK FALSE
