SPECIFICATION FairSpec
CONSTANTS
    f1 = f1
    f2 = f2
    f3 = f3
    t1 = t1
    t2 = t2
    w1 = w1
    w2 = w2
    Frames = {f1, f2, f3}
    Tasks = {t1, t2}
    Workers = {w1, w2}
    TaskOf <- Assigned
    Worth <- Ones
    Budget <- Budgets
    Refusable = {f1}
    Products = {{}, {t2}}
    MaxPending = 2
    Gradings = {"worker", "compute"}
    Faults = {"db", "poll", "grade", "late", "requeue", "product", "crash", "restart"}
    MaxFaults = 1
CHECK_DEADLOCK FALSE
INVARIANTS CreditedOnce CompletionIsEarned FramesAreKept
PROPERTIES FramesAreGraded
