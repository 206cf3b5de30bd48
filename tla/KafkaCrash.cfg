SPECIFICATION Spec
CONSTANTS
  p1 = p1
  p2 = p2
  Partitions = {p1}
  LogEnd = 4
  Tombstones <- OneTombstone
  Failing <- LatePoison
  Silent <- OneSilent
  NWorkers = 2
  WorkerOf <- OneWorker
  Label <- FirstOrRest
  BatchSize = 1
  QueueDepth = 1
  MaxMessages = 3
  MaxBatches = 0
  CommitOffsets = TRUE
  PartitionAffine = FALSE
  OutputMode = "rows"
  OutputTopic = TRUE
  DlqTopic = FALSE
  MaxFaults = 1
  MaxRestarts = 1
INVARIANTS CommitSafety PoisonNotCommitted
PROPERTIES EvaluatedInOrder ImplementsAtLeastOnce
