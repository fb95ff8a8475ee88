SPECIFICATION FairSpec
CONSTANTS
  w1 = w1
  r1 = r1
  t1 = t1
  t2 = t2
  v1 = v1
  v2 = v2
  b1 = b1
  b2 = b2
  NumJobs = 2
  LeaseSeconds = 1
  Workers = {w1}
  WorkerIds = {w1}
  WorkerId <- OwnIds
  Serves <- RefreshWorkers
  KindOf <- RefreshJobs
  Recoveries = {r1}
  PromptWorkers = FALSE
  NoLease = NoLease
  NoJob = NoJob
  Tables = {t1, t2}
  Versions = {v1, v2}
  Baselines = {b1, b2}
  NoBaseline = NoBaseline
  NoVersion = NoVersion
  NoWorker = NoWorker
INVARIANT TypeOK
INVARIANT OneVersion
INVARIANT DamageIsVisible
INVARIANT OneBaselinePerWorker
PROPERTY RefreshRepairs
CHECK_DEADLOCK FALSE
