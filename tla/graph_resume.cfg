SPECIFICATION SerialSpec
CONSTANTS
    a = a
    b = b
    g = g
    p = p
    q = q
    END = END
    EntryPoint = a
    Driver = c1
    Nodes <- TourNodes
    Edge <- TourEdge
    InterruptBefore = {a, g}
    InterruptAfter = {a, b}
    MaxSteps = 6
    MaxPerThread = 2
    Calls = {c1}
    Edits = {u1, u2}
    MaxCrashes = 0
CHECK_DEADLOCK FALSE
PROPERTIES PausesAreInvisible
