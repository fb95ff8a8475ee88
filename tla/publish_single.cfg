SPECIFICATION FairSpec
CONSTANTS
  w1 = w1
  r1 = r1
  NumJobs = 2
  LeaseSeconds = 1
  Workers = {w1}
  WorkerIds = {w1}
  WorkerId <- OwnIds
  Recoveries = {r1}
  PromptWorkers = FALSE
  NoLease = NoLease
  NoJob = NoJob
INVARIANT TypeOK
INVARIANT OutcomeFollowsLoad
INVARIANT ReleasedOutcomeIsRecorded
PROPERTY RequeueSparesActiveLease
PROPERTY NoJobStranded
PROPERTY NoJobStarves
CHECK_DEADLOCK FALSE
