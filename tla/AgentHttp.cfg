SPECIFICATION FairSpec
CONSTANTS
  a = a
  b = b
  bad = bad
  Requests = {1, 2, 3}
  Records = {a, b, bad}
  Body <- TwoOneAgain
  Columnar = {2}
  Failing = {bad}
  MaxShards = 2
  NSinks = 1
  HttpThreads = 3
  EvalDepth = 1
  SinkDepth = 1
  Configs <- Stateless
  MaxFaults = 1
INVARIANTS EnginesExclusive RefusedNotWritten DedupeInOrder CleanShutdown
PROPERTIES ImplementsPromise AnswersCome ShutdownEnds
