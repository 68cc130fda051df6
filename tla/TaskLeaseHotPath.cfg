SPECIFICATION Spec
CONSTANTS
    t1 = t1
    t2 = t2
    n1 = n1
    n2 = n2
    NoTask = NoTask
    NoNode = NoNode
    Tasks = {t1, t2}
    Nodes = {n1}
    MaxFailures = 2
    MaxCohort = 1
    PlannedLane = {}
    Requests = {}
    Faults = {"commit", "publish", "release"}
    Delays = {"sweep"}
    MaxReturns = 1
    MaxCrashes = 1
    Preempts <- SecondPreemptsFirst
CHECK_DEADLOCK FALSE
INVARIANTS OneClaimPerReturn
PROPERTIES Implements
