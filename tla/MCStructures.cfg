SPECIFICATION StructuresSpec
CONSTANTS
  Threads = {t1, t2, t3}
  Base = 1
  MaxTicks = 4
  M = 2
  M0 = 2
  EfConstruction = 2
  Sids = {1, 2, 3}
  ShardOf <- MCShardOf
  Positions = {0, 1, 3}
  Levels = {0, 1}
  Queries <- MCQueries
  MaxWrites = 4
  MaxRacing = 3
  BlockSids = {1, 2, 3, 4, 5}
  BloomBits <- MCBloomBits
  Categories = {0, 1}
  Points = {0, 12, 36, 60}
  MaxRecs = 4
  MaxIters = 2
  NearQueries <- MCNearQueries
INVARIANTS
  EachOnceAndNoneSkipped
  BlocksAgreeWithAScan
  GraphsAreWellFormed
  AnswersAreNearest
  StableNeighboursAreFound
PROPERTIES
  NextIsCausal
\* Everything the bounds allow is done.
CHECK_DEADLOCK FALSE
