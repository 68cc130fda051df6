SPECIFICATION FairSpec
CONSTANTS
    t1 = t1
    t2 = t2
    n1 = n1
    n2 = n2
    NoTask = NoTask
    NoNode = NoNode
    Tasks = {t1, t2}
    Nodes = {n1}
    MaxFailures = 1
    MaxCohort = 1
    PlannedLane = {}
    Requests = {"patch"}
    Faults = {"publish"}
    Delays = {}
    MaxReturns = 1
    MaxCrashes = 0
    Preempts <- SecondPreemptsFirst
CHECK_DEADLOCK FALSE
PROPERTIES AssignmentEnds MarkerIsFreed
