\* a worker stops with a claimed row in hand
CONSTANTS
    d1 = d1
    d2 = d2
    Events = {e1, e2}
    Drains = {d1, d2}
    Processes <- OneProcessEach
    BatchSize = 2
    MaxAttempts = 2
SPECIFICATION FairSpec

PROPERTIES SurvivesRestart
\* every event settled or orphaned: nothing left to do
CHECK_DEADLOCK FALSE
