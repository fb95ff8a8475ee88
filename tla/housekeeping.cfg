SPECIFICATION FairSpec
CONSTANTS
  a1 = a1
  a2 = a2
  c1 = c1
  c2 = c2
  Artifacts = {a1, a2}
  Callers = {c1, c2}
  Retentions = {r1}
  Cleanups = {d1, d2}
  NoArtifact = NoArtifact
  s1 = s1
  j1 = j1
  j2 = j2
  j3 = j3
  d1 = d1
  d2 = d2
  r1 = r1
  Schedules = {s1}
  Jobs = {j1, j2, j3}
  Dispatchers = {d1, d2}
  Recoveries = {r1}
  NoSchedule = NoSchedule
INVARIANT ScheduleOK
INVARIANT AvailableHasFile
INVARIANT DeletedHasNoFile
INVARIANT PendingBounded
PROPERTY NeverAvailableAgain
PROPERTY ArtifactsEndDeleted
PROPERTY DueIsDispatched
CHECK_DEADLOCK FALSE
