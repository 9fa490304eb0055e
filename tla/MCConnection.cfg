SPECIFICATION ConnFairSpec
CONSTANTS
    None = None
    MaxSockets = 4
    MaxFailures = 1
INVARIANT ConnectedIsBacked
PROPERTY Reconnects
CHECK_DEADLOCK FALSE
