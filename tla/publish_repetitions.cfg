SPECIFICATION HistorySpec
CONSTANTS
  w1 = w1
  w2 = w2
  r1 = r1
  NumJobs = 1
  LeaseSeconds = 2
  Workers = {w1, w2}
  WorkerIds = {w1, w2}
  WorkerId <- OwnIds
  Recoveries = {r1}
  PromptWorkers = FALSE
  NoLease = NoLease
  NoJob = NoJob
  MaxRequeues = 1
SYMMETRY Replicas
INVARIANT LoadsBounded
PROPERTY LeaseNeverStolen
CHECK_DEADLOCK FALSE
