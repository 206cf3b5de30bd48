SPECIFICATION Spec
CONSTANTS
    w1 = w1
    w2 = w2
    l1 = l1
    l2 = l2
    hot = hot
    good = good
    better = better
    wrong = wrong
    short = short
    absent = absent
    none = none
    sample = sample
    blank = blank
    Watcher = hot
    Absent = absent
    None = none
    Workers <- TwoWorkers
    Loaders <- OneLoader
    Contents <- AllContents
    Broken <- Short
    Invalid <- Wrong
    Flaky <- NoContent
    Growing <- BetterOrWrong
    Samples <- OneSample
    Unlearnable <- NoContent
    Declared = TRUE
    KeepPrevious = TRUE
    MaxShards = 2
    MaxBatches = 3
    MaxLoads = 1
    MaxWrites = 2
INVARIANT BatchKeepsRules
INVARIANT ReloadReachesEngines
PROPERTY FailedReloadKeeps
SYMMETRY WorkerSymmetry
