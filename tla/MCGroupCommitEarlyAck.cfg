SPECIFICATION Spec
CONSTANTS
  Sids = {1}
  Preds = {0}
  Vals = {v1, v2}
  MaxTs = 4
  Clients = {c1, c2}
  Idems = {k1, k2, k3}
  Requests <- OneGrainWithRetry
  Torn = Torn
  c1 = c1
  c2 = c2
  c3 = c3
  v1 = v1
  v2 = v2
  k1 = k1
  k2 = k2
  k3 = k3
  MaxSubmits = 3
  MaxEpochs = 2
  ProcessCrashes = FALSE
  PowerLoss = FALSE
  WriteErrors = FALSE
  TornTails = FALSE
INVARIANTS
  AckAfterApply
\* Every client has used up its requests and no store is open: the system may rest.
CHECK_DEADLOCK FALSE
