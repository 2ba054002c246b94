SPECIFICATION Spec
CONSTANTS
  Inputs <- MCInputs
  threadsCount = 5
  chunkSize = 2
  bufferedItemsCountMax = 2
  FinalProcessor <- MCFinal
  Priority <- MCPriority
  poolSize = 6
INVARIANTS
  TypeOK
  PlacedInRange
  SentChunkIsIntact
  WrittenOnceByEachReader
  NothingAfterEmptyMessage
  SavedIsComplete
  HigherPriorityFirst
  MergesAreApart
PROPERTY
  ExecuteEnds
