SPECIFICATION Spec
CONSTANTS
  w1 = w1
  r1 = r1
  NumJobs = 1
  LeaseSeconds = 1
  Workers = {w1}
  WorkerIds = {w1}
  WorkerId <- OwnIds
  Recoveries = {r1}
  PromptWorkers = TRUE
  NoLease = NoLease
  NoJob = NoJob
PROPERTY RequeueOnlyActiveJobs
CHECK_DEADLOCK FALSE
