SPECIFICATION FairStoreSpec
CONSTANTS
  Sids = {1, 2}
  Preds = {0}
  Modes <- MCModes
  MaxWorkers = 2
  MaxCommits = 3
  MaxEpochs = 2
  Loaders = {l1, l2}
  Batches <- MCBatches
INVARIANTS
  TypeOK
  WatermarkIsHonest
  IndexIsACut
  SoleWriteIsIndexed
  LoadedIsQueryable
PROPERTIES
  ImplementsStaleIndex
  WatermarkNeverRetreats
  SyncReturnsButForReopenedPools
  LoadReturns
\* All commits made and worked off: the system rests.
CHECK_DEADLOCK FALSE
