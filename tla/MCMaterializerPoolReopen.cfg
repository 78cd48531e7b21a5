SPECIFICATION FairSpec
CONSTANTS
  Sids = {1, 2}
  Preds = {0}
  Modes <- PoolOfPuts
  MaxWorkers = 2
  MaxCommits = 2
  MaxEpochs = 2
PROPERTIES
  SyncReturns
\* All commits made and worked off: the system rests.
CHECK_DEADLOCK FALSE
