SPECIFICATION FairSpec
CONSTANTS
    a1 = a1
    p1 = p1
    x1 = x1
    NoOne = NoOne
    Deliveries = {a1, p1, x1}
    Kind <- Commands
    Orders = {TRUE, FALSE}
    Faults = {"call"}
CHECK_DEADLOCK FALSE
INVARIANTS IdleAfterAbort NothingMovesUnattended FrameIsOnTarget
PROPERTIES EveryCommandEnds
