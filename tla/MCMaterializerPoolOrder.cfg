SPECIFICATION Spec
CONSTANTS
  Sids = {1, 2}
  Preds = {0}
  Modes <- PoolOfAnyWrites
  MaxWorkers = 2
  MaxCommits = 3
  MaxEpochs = 1
INVARIANTS
  QuietIndexIsCurrent
\* All commits made and worked off: the system rests.
CHECK_DEADLOCK FALSE
