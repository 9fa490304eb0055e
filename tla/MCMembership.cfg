SPECIFICATION GroupFairSpec
CONSTANTS
    Jids = {ada, bola}
    MaxHandlers = 3
    Drivers = {"postgres", "memory"}
    MaxChanges = 2
    MaxFaults = 1
INVARIANT UndisturbedIsExact
PROPERTY MembershipConverges
CHECK_DEADLOCK FALSE
