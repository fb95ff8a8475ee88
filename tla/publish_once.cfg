SPECIFICATION HistorySpec
CONSTANTS
  w1 = w1
  NumJobs = 2
  LeaseSeconds = 1
  Workers = {w1}
  WorkerIds = {w1}
  WorkerId <- OwnIds
  Recoveries = {}
  PromptWorkers = FALSE
  NoLease = NoLease
  NoJob = NoJob
  MaxRequeues = 0
PROPERTY PublishesOnce
CHECK_DEADLOCK FALSE
