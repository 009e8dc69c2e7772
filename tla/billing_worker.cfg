SPECIFICATION Spec
CONSTANTS
    q1 = q1
    w1 = w1
    sweep1 = sweep1
    Events <- ThreeEvents
    Lookups <- FirstTwo
    Ignored <- Third
    Poison = {}
    Requests <- OneRequest
    Workers <- OneWorker
    Sweeper = {}
    SweepLimit = 1
    JobAttempts = 2
    MaxDuplicates = 0
    MaxFaults = 1
INVARIANTS
    WorkspaceAsStripe
PROPERTY
    ProcessedForGood
CHECK_DEADLOCK FALSE
