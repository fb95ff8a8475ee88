SPECIFICATION Spec
CONSTANTS
  w1 = w1
  NumJobs = 1
  LeaseSeconds = 1
  Workers = {w1}
  WorkerIds = {w1}
  WorkerId <- OwnIds
  Recoveries = {}
  PromptWorkers = FALSE
  NoLease = NoLease
  NoJob = NoJob
INVARIANT LineageOfEveryExecution
CHECK_DEADLOCK FALSE
