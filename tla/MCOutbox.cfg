\* three events, batches of two, two tries, two worker processes
CONSTANTS
    d1 = d1
    d2 = d2
    Events = {e1, e2, e3}
    Drains = {d1, d2}
    Processes <- OneProcessEach
    BatchSize = 2
    MaxAttempts = 2
SPECIFICATION FairSpec
INVARIANTS TypeOK ExclusiveClaim DeliveredWasReceived CopiesBounded
PROPERTIES SettledIsFinal BacklogDrains
\* every event settled or orphaned: nothing left to do
CHECK_DEADLOCK FALSE
