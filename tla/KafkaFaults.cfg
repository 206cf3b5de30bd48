SPECIFICATION FairSpec
CONSTANTS
  p1 = p1
  p2 = p2
  Partitions = {p1, p2}
  LogEnd = 2
  Tombstones <- NoMessages
  Failing <- OnePoison
  Silent <- OneSilent
  NWorkers = 2
  WorkerOf <- SplitWorkers
  Label <- FirstOrRest
  BatchSize = 2
  QueueDepth = 1
  MaxMessages = 0
  MaxBatches = 2
  CommitOffsets = TRUE
  PartitionAffine = FALSE
  OutputMode = "grouped"
  OutputTopic = TRUE
  DlqTopic = TRUE
  MaxFaults = 1
  MaxRestarts = 0
INVARIANTS CleanExit CleanStats
PROPERTIES StopReturns ShutdownReturns
