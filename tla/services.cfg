CONSTANTS
    Execs = {e1, e2, e3}
    NoExec = none
    MaxQueued = 1
    Lines = 4
    BatchSize = 2
    Callers = {c1, c2, c3}
    FailureThreshold = 2
    SuccessThreshold = 2
    Cooldown = 2
    MaxRetries = 1
    r1 = r1
    r2 = r2
    r3 = r3
    ka = ka
    kb = kb
    Runs = {r1, r2, r3}
    Sessions = {ka, kb}
    KeyOf <- TwoOfOneSession
    Streams = {r1, r3}
    MaxEntries = 1
    MaxHistory = 1
    MaxEvents = 2
    MaxTasks = 4
    Ids = {i1, i2}
    Actors = {a1, a2}
    Requests = {q1, q2}
    Calls = {v1, v2, v3}
    Keys = {k1, k2}
    Versions = 3
    Fetches = {f1, f2}
    Slots = {0, 1}
    MaxText = 2

SPECIFICATION Spec

INVARIANTS QueueSound NothingLost GuardsHold
PROPERTIES ServicesMoveOn

CHECK_DEADLOCK FALSE
