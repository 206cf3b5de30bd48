SPECIFICATION Spec
CONSTANTS
  Null = Null
  NIds = 2
  Channels <- AllFunctions
  Batches <- SmallBatches
  StampLimit = 7
  MaxClock = 7
  MaxBatches = 3
  MaxBack = 1
  MaxEvictions = 1
  MaxResets = 1
INVARIANTS CountersMatchHistory ReadsTheWindow
