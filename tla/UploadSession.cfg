SPECIFICATION FairSpec
CONSTANTS
    c1 = c1
    c2 = c2
    NoOne = NoOne
    Captures = {c1, c2}
    Seconds = {1}
    Timings <- Together
    Bindings <- BoundOrNot
    Parts = 2
    Ttls = {TRUE, FALSE}
    MaxFaults = 1
    Faults = {"call", "abort", "crash", "patience"}
CHECK_DEADLOCK FALSE
INVARIANTS QueuedIsStored GradedIsOwn SweeperSparesTheLiving
PROPERTIES StoredIsQueued
