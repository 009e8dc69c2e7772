SPECIFICATION FairSpec
CONSTANTS
    q1 = q1
    w1 = w1
    sweep1 = sweep1
    Events <- TwoEvents
    Lookups <- First
    Ignored = {}
    Poison <- Second
    Requests <- OneRequest
    Workers <- OneWorker
    Sweeper <- OneSweeper
    SweepLimit = 2
    JobAttempts = 1
    MaxDuplicates = 0
    MaxFaults = 1
INVARIANT
    ProcessedWasApplied
PROPERTIES
    OnlyOverlapReopens
    EveryEventProcessed
CHECK_DEADLOCK FALSE
