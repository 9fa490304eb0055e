SPECIFICATION Spec
CONSTANTS
    Driver = "postgres"
    Workers = {w1, w2}
    Approvals = {a1, a2}
    Members = {ada}
    LastDay = 1
    Quiet = 2
    Recheck = 1
    DraftLimit = 1
    SendLimit = 2
    MaxApprovals = 2
    MaxFaults = 1
    AutoSend = TRUE
    NoJob = NoJob
INVARIANTS ChainUnbroken CheckedInOnce
SYMMETRY Symmetry
CHECK_DEADLOCK FALSE
