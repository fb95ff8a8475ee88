SPECIFICATION Spec
CONSTANTS
  w1 = w1
  w2 = w2
  w3 = w3
  r1 = r1
  r2 = r2
  NumJobs = 1
  LeaseSeconds = 2
  Workers = {w1, w2, w3}
  WorkerIds = {w1, w2, w3}
  WorkerId <- OwnIds
  Recoveries = {r1, r2}
  PromptWorkers = TRUE
  NoLease = NoLease
  NoJob = NoJob
SYMMETRY Replicas
INVARIANT ExclusiveExecution
INVARIANT HolderIsLeased
CHECK_DEADLOCK FALSE
