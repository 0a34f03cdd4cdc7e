SPECIFICATION FairSpec
CONSTANTS
    Tools <- LoopTools
    ReadTools <- LoopReadTools
    Deferred <- LoopDeferred
    Unserializable <- LoopUnserializable
    FindTools = find_tools
    Turns <- LoopTurns
    r = r
    d = d
    w = w
    u = u
    find_tools = find_tools
    MaxSteps = 3
    MaxToolCalls = 6
    MaxBudget = 1
CHECK_DEADLOCK FALSE
INVARIANTS AlwaysPaired WritersAlone CapHolds NeverStuck
PROPERTIES NothingRunsUnseen RailsHold AnswersInTheEnd
