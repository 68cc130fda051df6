SPECIFICATION Spec
CONSTANTS
    t1 = t1
    t2 = t2
    n1 = n1
    n2 = n2
    NoTask = NoTask
    NoNode = NoNode
    Tasks = {t1}
    Nodes = {n1, n2}
    MaxFailures = 2
    MaxCohort = 2
    PlannedLane = {}
    Requests = {"patch", "complete", "grade"}
    Faults = {"listen", "fetch", "enqueue", "claim", "commit", "record", "publish", "release", "flush", "reclaim", "reclaimCommit", "patch", "recover", "request"}
    Delays = {}
    MaxReturns = 1
    MaxCrashes = 1
    Preempts = {}
CHECK_DEADLOCK FALSE
INVARIANTS OwnerMatchesStatus FailureAccounting PendingIsCarried
PROPERTIES TerminalIsFinal
SYMMETRY NodeSymmetry
