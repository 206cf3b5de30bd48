SPECIFICATION FairSpec
CONSTANTS
    w1 = w1
    w2 = w2
    l1 = l1
    l2 = l2
    hot = hot
    good = good
    better = better
    wrong = wrong
    short = short
    absent = absent
    none = none
    sample = sample
    blank = blank
    Watcher = hot
    Absent = absent
    None = none
    Workers <- OneWorker
    Loaders <- OneLoader
    Contents <- GoodAndBetter
    Broken <- NoContent
    Invalid <- NoContent
    Flaky <- Good
    Growing <- Better
    Samples <- SomeSample
    Unlearnable <- Blank
    Declared = FALSE
    KeepPrevious = FALSE
    MaxShards = 1
    MaxBatches = 2
    MaxLoads = 1
    MaxWrites = 2
INVARIANT MainRulesFit
PROPERTY BatchesFinish
PROPERTY ReloadConverges
