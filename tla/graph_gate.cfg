SPECIFICATION Spec
CONSTANTS
    a = a
    b = b
    g = g
    p = p
    q = q
    END = END
    EntryPoint = a
    Driver = c1
    Nodes <- LoopNodes
    Edge <- LoopEdge
    InterruptBefore = {g}
    InterruptAfter = {b}
    MaxSteps = 3
    MaxPerThread = 1
    Calls = {c1, c2}
    Edits = {u1}
    MaxCrashes = 0
INVARIANTS GateHeld IInv
