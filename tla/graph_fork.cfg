SPECIFICATION FairSpec
CONSTANTS
    a = a
    b = b
    g = g
    p = p
    q = q
    END = END
    EntryPoint = a
    Driver = c1
    Nodes <- ForkNodes
    Edge <- ForkEdge
    InterruptBefore = {g}
    InterruptAfter = {g}
    MaxSteps = 6
    MaxPerThread = 2
    Calls = {c1}
    Edits = {u1}
    MaxCrashes = 1
INVARIANTS StepsAccounted
PROPERTIES CallReturns
