SPECIFICATION Spec
CONSTANTS
    p1 = p1
    t1 = t1
    regen = regen
    NoTask = NoTask
    Client = {c1, c2}
    Task <- MCTask
    RuntimeTask <- MCRuntimeTask
    Request <- CompletionRequests
    ExecutorId <- MCExecutorId
    RegenId <- MCRegenId
    SecondsPerMinute = 2
    OneCallPerTask = TRUE
    Faults = TRUE
    MaxNow = 1
    MaxStep = 2
SYMMETRY ClientSymmetry
INVARIANTS TypeOK CheckStillHolds DispatchInOrder
PROPERTIES LifecycleSpec SuccessIsReal
