SPECIFICATION ExtractedSpec
CONSTANTS
  we = we
  wp = wp
  r1 = r1
  a1 = a1
  a2 = a2
  NumJobs = 2
  LeaseSeconds = 1
  Workers = {wp}
  WorkerIds = {wp}
  WorkerId <- OwnIds
  Serves <- OneOfEach
  KindOf <- OnlyPublishes
  Recoveries = {r1}
  PromptWorkers = FALSE
  NoLease = NoLease
  NoJob = NoJob
  Artifacts = {a1, a2}
  NoArtifact = NoArtifact
  Retentions = {}
  Cleanups = {}
PROPERTY PublishableEnds
CHECK_DEADLOCK FALSE
