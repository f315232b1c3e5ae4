SPECIFICATION Spec
CONSTANTS
    short = short
    profile = profile
    svc = svc
    other = other
    tool = tool
    a = a
    b = b
    None = None
    Blank = Blank
    Mixed = Mixed
    Client = {c1, c2}
    Short = {short}
    Doc = {profile}
    Service = {svc, other}
    Compose = {svc}
    Tool = {tool}
    Field = {a, b}
    Request <- MCRequest
    Faults = TRUE
    MaxCalls = 3
    MaxRestarts = 1
SYMMETRY ClientSymmetry
CHECK_DEADLOCK FALSE
INVARIANTS EntriesKept FieldsKept
PROPERTIES DeclaredComesBack
