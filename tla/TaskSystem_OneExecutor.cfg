SPECIFICATION Spec
CONSTANTS
    p1 = p1
    t1 = t1
    regen = regen
    NoTask = NoTask
    Client = {c1}
    Task <- MCTask
    RuntimeTask <- MCRuntimeTask
    Request <- DrainRequests
    ExecutorId <- MCExecutorId
    RegenId <- MCRegenId
    SecondsPerMinute = 2
    OneCallPerTask = TRUE
    Faults = FALSE
    MaxNow = 1
    MaxStep = 2
INVARIANT OneExecutorPerPlanner
