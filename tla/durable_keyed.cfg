SPECIFICATION DFairSpec
CONSTANTS
    END = END
    EntryPoint = a
    Nodes = {a, b, g}
    Edge <- GatedEdge
    InterruptBefore = {g}
    InterruptAfter = {}
    MaxSteps = 4
    MaxPerThread = 2
    Calls = {c1, c2}
    Edits = {}
    MaxCrashes = 2
    MaxTurns = 3
    Keyed = TRUE
    Overlap = TRUE
CHECK_DEADLOCK FALSE
INVARIANTS GateApproved ResumeContinues
PROPERTIES WorkerFinishes
