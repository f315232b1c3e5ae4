SPECIFICATION Spec
CONSTANTS
    t1 = t1
    t2 = t2
    x = x
    y = y
    f = f
    g = g
    None = None
    Empty = Empty
    Blank = Blank
    Client = {c1, c2}
    Task = {t1, t2}
    Text = {x, y, Empty}
    Facts = {f, g, Blank}
    Objects = {f}
    Request <- MCRequest
    Faults = TRUE
    MaxMinute = 2
    MaxCalls = 4
SYMMETRY ClientSymmetry
CHECK_DEADLOCK FALSE
INVARIANTS Found SearchWorks PatchKeepsDescription SupersededByLater
PROPERTIES SupersededStays
