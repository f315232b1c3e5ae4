SPECIFICATION Spec
CONSTANTS
    ta = ta
    tb = tb
    x = x
    y = y
    None = None
    latest = latest
    Client = {c1, c2}
    Text = {ta, tb}
    MessageRequest <- MCMessages
    SummaryRequest <- MCSummaries
    GraphRequest <- MCGraph
    Triple = {x, y}
    Layer = {"short", "long"}
    Content = {"a", "b"}
    Ranges <- MCRanges
    Limit = 2
    RANGE_FETCH_MAX_LIMIT = 1
    ViewLimit = 1
    Faults = TRUE
    MaxId = 3
    MaxPeriod = 2
    MaxCalls = 4
SYMMETRY ClientSymmetry
CHECK_DEADLOCK FALSE
INVARIANTS TypeOK SearchSound AckedIsComplete PagesMissNothing
PROPERTIES AppendOnly LatestMovesForward
