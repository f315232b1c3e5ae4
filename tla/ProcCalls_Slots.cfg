SPECIFICATION Spec
CONSTANTS
    b = b
    x = x
    k1 = k1
    p = p
    q = q
    None = None
    Blank = Blank
    Mixed = Mixed
    Client = {c1, c2}
    Builtin = {b}
    External = {x}
    CallId = {k1}
    Params = {p, q}
    Request <- MCRequest
    Faults = TRUE
    Executor = {"host", "containerd"}
    Shipped <- MCShipped
    Life = 2
    MaxTime = 2
    MaxCalls = 3
    MaxRestarts = 1
SYMMETRY ClientSymmetry
CHECK_DEADLOCK FALSE
INVARIANTS OwnResult DeliveredOnce ResultKept
