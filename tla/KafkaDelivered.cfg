SPECIFICATION Spec
CONSTANTS
  p1 = p1
  p2 = p2
  Partitions = {p1}
  LogEnd = 2
  Tombstones <- NoMessages
  Failing <- NoMessages
  Silent <- NoMessages
  NWorkers = 2
  WorkerOf <- OneWorker
  Label <- FirstOrRest
  BatchSize = 2
  QueueDepth = 1
  MaxMessages = 0
  MaxBatches = 0
  CommitOffsets = TRUE
  PartitionAffine = TRUE
  OutputMode = "rows"
  OutputTopic = TRUE
  DlqTopic = FALSE
  MaxFaults = 1
  MaxRestarts = 0
INVARIANTS DeliveredBeforeCommit
