INIT VibeInit
NEXT AgentsNext
CONSTANTS
    Runs = {r1, r2}
    LoopTurns <- FourTurns
    LoopSteps = 3
    MaxToolCalls = 2
    MaxVerifyRounds = 1
    KeepRecent = 2
    LargestBatch = 2
    MaxDepth = 2
    PerLevel = 1
    Branching = 1
    Budget = 1
    MaxEvents = 1
    Delegates = {i1, i2}
    MaxSteps = 2
    MaxDelegations = 1
    MaxConcurrent = 2
    MaxListed = 2
    KeepSettled = 1
    Labels = {x, y}
    MaxSubs = 2
    MaxCalls = 2
    Plans <- VibePlans
    WalkSteps = 6
    MaxSaves = 3
    MaxCached = 2
    MaxRestarts = 1
    Tasks = {t1, t2, t3}
    Keys = {k1, k2}
    NoKey = noKey
    Requests = {q1, q2}
    Turns = {u1, u2, u3}
    MaxKeyedTurns = 1
    NoTurn = noTurn
CHECK_DEADLOCK FALSE
INVARIANT JoinFindsAll
