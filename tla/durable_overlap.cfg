SPECIFICATION DSpec
CONSTANTS
    END = END
    EntryPoint = a
    Nodes = {a, b, g}
    Edge <- GatedEdge
    InterruptBefore = {g}
    InterruptAfter = {}
    MaxSteps = 4
    MaxPerThread = 2
    Calls = {c1, c2}
    Edits = {}
    MaxCrashes = 0
    MaxTurns = 0
    Keyed = FALSE
    Overlap = TRUE
CHECK_DEADLOCK FALSE
INVARIANTS GateApproved
