SPECIFICATION FairSpec
CONSTANTS
    c1 = c1
    c2 = c2
    d1 = d1
    d2 = d2
    Deliveries = {c1, c2, d1, d2}
    Box <- Boxed
    Keys = {1, 2, 3}
    Key <- Objects
    Files = {1, 2, 3}
    File <- Saved
    Limit = 2
    MaxFaults = 1
CHECK_DEADLOCK FALSE
INVARIANTS AckedIsSaved CursorPassesNone
PROPERTIES EveryDeliveryIsDrained
