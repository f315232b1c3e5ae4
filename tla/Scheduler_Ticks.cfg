SPECIFICATION Spec
CONSTANTS
    Job <- MCJob
    Disabled = {"off"}
    Due <- MCDue
    PERIOD = 3
    Removable = {"daily"}
    MaxFaults = 2
    MaxTime = 7
CHECK_DEADLOCK FALSE
INVARIANTS AtMostOnce NoneMissed
