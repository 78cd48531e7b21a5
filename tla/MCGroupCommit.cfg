SPECIFICATION Spec
CONSTANTS
  Sids = {1, 2}
  Preds = {0, 1}
  Vals = {v1, v2}
  MaxTs = 4
  Clients = {c1, c2, c3}
  Idems = {k1, k2, k3}
  Requests <- TwoGrains
  Torn = Torn
  c1 = c1
  c2 = c2
  c3 = c3
  v1 = v1
  v2 = v2
  k1 = k1
  k2 = k2
  k3 = k3
  MaxSubmits = 4
  MaxEpochs = 3
  ProcessCrashes = TRUE
  PowerLoss = TRUE
  WriteErrors = TRUE
  TornTails = TRUE
SYMMETRY ClientSymmetry
INVARIANTS
  TypeOK
  LogWellFormed
  AckedIsOnDisk
  AnswersAgree
  IdleEqualsReplay
  ReadYourWrites
  FeedIsGapFree
  PublishedIsDurable
  SeekReadsNewestVisible
  ScanAgreesWithReads
PROPERTIES
  SnapshotsBelowAppliedAreStable
\* Every client has used up its requests and no store is open: the system may rest.
CHECK_DEADLOCK FALSE
