SPECIFICATION Spec
CONSTANTS
  we = we
  wp = wp
  r1 = r1
  t1 = t1
  d1 = d1
  a1 = a1
  a2 = a2
  NumJobs = 2
  LeaseSeconds = 1
  Workers = {we, wp}
  WorkerIds = {we, wp}
  WorkerId <- OwnIds
  Serves <- OneOfEach
  KindOf <- OneExtraction
  Recoveries = {r1}
  PromptWorkers = FALSE
  NoLease = NoLease
  NoJob = NoJob
  Artifacts = {a1, a2}
  NoArtifact = NoArtifact
  Retentions = {t1}
  Cleanups = {d1}
SYMMETRY SameArtifacts
INVARIANT TypeOK
INVARIANT CompletedIsDelivered
INVARIANT WantedCanBeOpened
PROPERTY LateIsNeverLoaded
CHECK_DEADLOCK FALSE
