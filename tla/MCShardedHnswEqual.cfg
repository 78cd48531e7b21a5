SPECIFICATION ShardSpec
CONSTANTS
  M = 2
  M0 = 2
  EfConstruction = 8
  Sids = {1, 2, 3, 4, 5}
  ShardOf <- OneShard
  Positions = {0}
  Levels = {0}
  Queries <- NoQueries
  MaxWrites = 5
  MaxRacing = 0
INVARIANTS
  EveryVectorIsFound
CHECK_DEADLOCK FALSE
