CONSTANTS
    Runs = {a, b}
    Stored = {s1, s2, s3}
    ToolCalls = {c}
    Layers = 2
    MaxGates = 2
    Sizes = {1, 2, 3}
    PerRun = 2
    TotalBytes = 4
    MaxAge = 1
    MaxCounters = 2
    MaxPuts = 4
    Trigger = 4
    Keep = 1
    Quota = 4
    MaxChanges = 3
    MaxOffloads = 1
    MaxExchanges = 1
    Turns = 2
    MaxSteps = 2
    MaxCalls = 2
    MaxHistory = 3
    MaxCrashes = 1

SPECIFICATION Spec

INVARIANTS TurnGuards OncePerCall NothingMisremembered
PROPERTIES TurnsEnd

CHECK_DEADLOCK FALSE
