SPECIFICATION Spec
CONSTANTS
    r1 = r1
    r2 = r2
    s1 = s1
    a1 = a1
    Requests = {r1, r2}
    Specs = {s1}
    Added = {a1}
    MaxCalls = 4
    MaxPasses = 1
SYMMETRY Interchangeable
CHECK_DEADLOCK FALSE
INVARIANTS ExpandedOnce NothingRunsUnpublished PlanOnlyWithIntent EventsAreTrue
