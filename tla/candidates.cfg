SPECIFICATION FairSpec
CONSTANTS
    Ids = {i1, i2}
    Executors = {e1, e2}
    Edits = {d1, d2}
    Draft = draft
    NoEdit = noEdit
    NoId = noId
    MaxAttempts = 3
    CanClaim = TRUE
    TimingOut = {i2}
CHECK_DEADLOCK FALSE
INVARIANTS OneOwner ExactlyOnce BoundedRetry HumanDecides IInv
PROPERTIES Lifecycle ImplementsContract Settles
