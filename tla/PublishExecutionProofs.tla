----------------------- MODULE PublishExecutionProofs -----------------------
(* Proofs about PublishExecution, for any number of jobs, workers and       *)
(* recoveries and any lease length.                                         *)
EXTENDS PublishExecution, TLAPS

-----------------------------------------------------------------------------
(* The statements on the lease table keep its type.                         *)

LEMMA FreshLeaseType ==
  ASSUME NEW id \in WorkerIds
  PROVE  FreshLease(id) \in LeaseRow
BY LeaseAssumption DEF FreshLease, LeaseRow

LEMMA FreshIsActive ==
  ASSUME NEW id \in WorkerIds
  PROVE  FreshLease(id) # NoLease /\ FreshLease(id).left > 0
BY FreshLeaseType, LeaseAssumption DEF FreshLease

LEMMA AcquireType ==
  ASSUME LeasesOK, NEW j \in Jobs, NEW id \in WorkerIds, AcquireLease(j, id)
  PROVE  LeasesOK'
BY FreshLeaseType DEF LeasesOK, AcquireLease

LEMMA HeartbeatType ==
  ASSUME LeasesOK, NEW j \in Jobs, NEW id \in WorkerIds, HeartbeatLease(j, id)
  PROVE  LeasesOK'
BY FreshLeaseType DEF LeasesOK, HeartbeatLease

LEMMA ReleaseType ==
  ASSUME LeasesOK, NEW j \in Jobs, ReleaseLease(j)
  PROVE  LeasesOK'
BY DEF LeasesOK, ReleaseLease

LEMMA ElapseType ==
  ASSUME LeasesOK, Elapse
  PROVE  LeasesOK'
<1> SUFFICES ASSUME NEW j \in Jobs
             PROVE  leases'[j] \in LeaseRow \cup {NoLease}
  BY DEF LeasesOK, Elapse
<1>1. CASE HasActiveLease(j)
  <2>1. leases[j] \in LeaseRow /\ leases[j].left > 0
    BY <1>1 DEF HasActiveLease, LeasesOK
  <2>2. [leases[j] EXCEPT !.left = @ - 1] \in LeaseRow
    BY <2>1, LeaseAssumption DEF LeaseRow
  <2> QED
    BY <1>1, <2>2 DEF Elapse
<1>2. CASE ~HasActiveLease(j)
  BY <1>2 DEF Elapse, LeasesOK
<1> QED
  BY <1>1, <1>2

-----------------------------------------------------------------------------
(* Type correctness.                                                        *)

\* A worker that is past its claim has a job.
HolderHasJob == \A w \in Workers : pc[w] \in TryCalls \cup ExceptCalls => cur[w] \in Jobs

\* So has a recovery that is about to save one.
SaverHasJob == \A r \in Recoveries : rpc[r] = "save_pending" => rcur[r] \in Jobs

Typed == TypeOK /\ HolderHasJob /\ SaverHasJob

LEMMA InitTyped == Init => Typed
BY DEF Init, Typed, TypeOK, HolderHasJob, SaverHasJob, LeasesOK, NoLeases, JobStatus,
       WorkerCalls, TryCalls, ExceptCalls

USE DEF JobStatus, AuditEvents, WorkerCalls, TryCalls, ExceptCalls, StaleStatus

LEMMA ClaimingTyped ==
  ASSUME Typed, NEW w \in Workers, ListPending(w) \/ SkipLeased(w) \/ Claim(w)
  PROVE  Typed'
<1>1. CASE ListPending(w)
  BY <1>1 DEF Typed, TypeOK, HolderHasJob, SaverHasJob, LeasesOK, ListPending, jobVars, recoveryVars
<1>2. CASE SkipLeased(w)
  BY <1>2 DEF Typed, TypeOK, HolderHasJob, SaverHasJob, LeasesOK, SkipLeased, NextCandidate, jobVars, recoveryVars
<1>3. CASE Claim(w)
  <2>1. PICK j \in Jobs : NextCandidate(w, j) /\ AcquireLease(j, WorkerId[w])
                          /\ cands' = [cands EXCEPT ![w] = {}]
                          /\ cur' = [cur EXCEPT ![w] = j]
                          /\ pc' = [pc EXCEPT ![w] = "heartbeat"]
    BY <1>3 DEF Claim
  <2>2. LeasesOK'
    BY <2>1, AcquireType, PublishAssumption DEF Typed, TypeOK
  <2> QED
    BY <1>3, <2>1, <2>2 DEF Typed, TypeOK, HolderHasJob, SaverHasJob, Claim, jobVars, recoveryVars
<1> QED
  BY <1>1, <1>2, <1>3

LEMMA TrySaveTyped ==
  ASSUME Typed, NEW w \in Workers,
         \/ SavePlanning(w) \/ AuditStarted(w) \/ Execute(w) \/ SaveCompleted(w)
         \/ RecordLineage(w) \/ AuditCompleted(w) \/ Raise(w)
         \/ SaveFailed(w) \/ AuditFailed(w) \/ Restart(w)
  PROVE  Typed'
<1>1. CASE SavePlanning(w)
  BY <1>1 DEF Typed, TypeOK, HolderHasJob, SaverHasJob, SavePlanning, LeasesOK, Goto, SaveStatus, recoveryVars
<1>2. CASE AuditStarted(w)
  BY <1>2 DEF Typed, TypeOK, HolderHasJob, SaverHasJob, AuditStarted, LeasesOK, Goto, RecordEvent, recoveryVars
<1>3. CASE Execute(w)
  BY <1>3 DEF Typed, TypeOK, HolderHasJob, SaverHasJob, Execute, LeasesOK, Goto, recoveryVars
<1>4. CASE SaveCompleted(w)
  BY <1>4 DEF Typed, TypeOK, HolderHasJob, SaverHasJob, SaveCompleted, LeasesOK, Goto, SaveStatus, recoveryVars
<1>5. CASE RecordLineage(w)
  BY <1>5 DEF Typed, TypeOK, HolderHasJob, SaverHasJob, RecordLineage, LeasesOK, Goto, recoveryVars
<1>6. CASE AuditCompleted(w)
  BY <1>6 DEF Typed, TypeOK, HolderHasJob, SaverHasJob, AuditCompleted, LeasesOK, Goto, RecordEvent, recoveryVars
<1>7. CASE Raise(w)
  BY <1>7 DEF Typed, TypeOK, HolderHasJob, SaverHasJob, Raise, LeasesOK, jobVars, recoveryVars
<1>8. CASE SaveFailed(w)
  BY <1>8 DEF Typed, TypeOK, HolderHasJob, SaverHasJob, SaveFailed, LeasesOK, Goto, SaveStatus, recoveryVars
<1>9. CASE AuditFailed(w)
  BY <1>9 DEF Typed, TypeOK, HolderHasJob, SaverHasJob, AuditFailed, LeasesOK, Goto, RecordEvent, recoveryVars
<1>10. CASE Restart(w)
  BY <1>10 DEF Typed, TypeOK, HolderHasJob, SaverHasJob, Restart, LeasesOK, Goto, jobVars, recoveryVars
<1> QED
  BY <1>1, <1>2, <1>3, <1>4, <1>5, <1>6, <1>7, <1>8, <1>9, <1>10

LEMMA TryLeaseTyped ==
  ASSUME Typed, NEW w \in Workers,
         Heartbeat(w) \/ Complete(w) \/ CompleteFailed(w) \/ Crash(w)
  PROVE  Typed'
<1>1. CASE Heartbeat(w)
  <2>1. cur[w] \in Jobs /\ WorkerId[w] \in WorkerIds
    BY <1>1, PublishAssumption DEF Typed, HolderHasJob, Heartbeat, Goto
  <2>2. LeasesOK'
    BY <1>1, <2>1, HeartbeatType DEF Typed, TypeOK, Heartbeat
  <2> QED
    BY <1>1, <2>2 DEF Typed, TypeOK, HolderHasJob, SaverHasJob, Heartbeat, Goto, jobVars, recoveryVars
<1>2. CASE Complete(w)
  <2>1. LeasesOK'
    BY <1>2, ReleaseType DEF Typed, TypeOK, HolderHasJob, Complete
  <2> QED
    BY <1>2, <2>1 DEF Typed, TypeOK, HolderHasJob, SaverHasJob, Complete, jobVars, recoveryVars
<1>3. CASE CompleteFailed(w)
  <2>1. LeasesOK'
    BY <1>3, ReleaseType DEF Typed, TypeOK, HolderHasJob, CompleteFailed
  <2> QED
    BY <1>3, <2>1 DEF Typed, TypeOK, HolderHasJob, SaverHasJob, CompleteFailed, jobVars, recoveryVars
<1>4. CASE Crash(w)
  BY <1>4 DEF Typed, TypeOK, HolderHasJob, SaverHasJob, LeasesOK, Crash, jobVars, recoveryVars
<1> QED
  BY <1>1, <1>2, <1>3, <1>4

LEMMA RecoveryTyped ==
  ASSUME Typed, NEW r \in Recoveries, RecoveryStep(r) \/ AbortRecovery(r)
  PROVE  Typed'
<1> USE DEF Typed, TypeOK, HolderHasJob, SaverHasJob, LeasesOK, jobVars, workerVars
<1>1. CASE ListStale(r)
  BY <1>1 DEF ListStale
<1>2. CASE SkipActive(r)
  BY <1>2 DEF SkipActive, NextCall
<1>3. CASE FindUnleased(r)
  BY <1>3 DEF FindUnleased
<1>4. CASE SavePending(r)
  BY <1>4 DEF SavePending, SaveStatus
<1>5. CASE AuditRecovered(r)
  BY <1>5 DEF AuditRecovered, NextCall
<1>6. CASE AbortRecovery(r)
  BY <1>6 DEF AbortRecovery
<1> QED
  BY <1>1, <1>2, <1>3, <1>4, <1>5, <1>6 DEF RecoveryStep

LEMMA RequestTyped ==
  ASSUME Typed, NEW j \in Jobs, RequestJob(j)
  PROVE  Typed'
BY DEF Typed, TypeOK, HolderHasJob, SaverHasJob, LeasesOK, RequestJob, SaveStatus, workerVars, recoveryVars

LEMMA TickTyped ==
  ASSUME Typed, Tick
  PROVE  Typed'
<1>1. LeasesOK'
  BY ElapseType DEF Typed, TypeOK, Tick
<1> QED
  BY <1>1 DEF Typed, TypeOK, HolderHasJob, SaverHasJob, Tick, jobVars, workerVars, recoveryVars

LEMMA NextTyped == Typed /\ [Next]_vars => Typed'
<1> SUFFICES ASSUME Typed, [Next]_vars
             PROVE  Typed'
  OBVIOUS
<1>1. ASSUME NEW j \in Jobs, RequestJob(j)
      PROVE  Typed'
  BY <1>1, RequestTyped
<1>2. ASSUME NEW w \in Workers, WorkerStep(w) \/ Crash(w)
      PROVE  Typed'
  BY <1>2, ClaimingTyped, TrySaveTyped, TryLeaseTyped DEF WorkerStep
<1>3. ASSUME NEW r \in Recoveries, RecoveryStep(r) \/ AbortRecovery(r)
      PROVE  Typed'
  BY <1>3, RecoveryTyped
<1>4. CASE Tick
  BY <1>4, TickTyped
<1>5. CASE UNCHANGED vars
  BY <1>5 DEF Typed, TypeOK, HolderHasJob, SaverHasJob, LeasesOK, vars, jobVars, workerVars, recoveryVars
<1> QED
  BY <1>1, <1>2, <1>3, <1>4, <1>5 DEF Next

\* The records, the lease table and the processes keep their types, and no
\* process acts on a job it does not have.
THEOREM TypeCorrect == Spec => [](TypeOK /\ HolderHasJob /\ SaverHasJob)
<1>1. Spec => []Typed
  BY InitTyped, NextTyped, PTL DEF Spec
<1>2. Typed => TypeOK /\ HolderHasJob /\ SaverHasJob
  BY DEF Typed
<1> QED
  BY <1>1, <1>2, PTL

-----------------------------------------------------------------------------
(* Exclusive execution.  It is not inductive by itself: a claim looks at   *)
(* the lease table only, so the invariant adds that whoever holds a job    *)
(* has an active lease in it.                                              *)

Exclusion == Typed /\ ExclusiveExecution /\ HolderIsLeased

\* A step that leaves the lease table alone and lets nobody take a job.
LEMMA QuietStepExcludes ==
  ASSUME Exclusion, Typed', leases' = leases,
         \A w \in Workers, j \in Jobs : Holds(w, j)' => Holds(w, j)
  PROVE  Exclusion'
BY DEF Exclusion, ExclusiveExecution, HolderIsLeased, HasActiveLease

LEMMA QuietWorkerStep ==
  ASSUME Typed, NEW w \in Workers,
         \/ ListPending(w) \/ SkipLeased(w)
         \/ SavePlanning(w) \/ AuditStarted(w) \/ Execute(w) \/ SaveCompleted(w)
         \/ RecordLineage(w) \/ AuditCompleted(w) \/ Raise(w)
         \/ SaveFailed(w) \/ AuditFailed(w) \/ Restart(w) \/ Crash(w)
  PROVE  leases' = leases /\ \A v \in Workers, j \in Jobs : Holds(v, j)' => Holds(v, j)
<1> USE DEF Typed, TypeOK, Holds
<1>1. CASE ListPending(w)
  BY <1>1 DEF ListPending
<1>2. CASE SkipLeased(w)
  BY <1>2 DEF SkipLeased, NextCandidate
<1>3. CASE \/ SavePlanning(w) \/ AuditStarted(w) \/ Execute(w) \/ SaveCompleted(w)
           \/ RecordLineage(w) \/ AuditCompleted(w)
  BY <1>3 DEF SavePlanning, AuditStarted, Execute, SaveCompleted, RecordLineage, AuditCompleted, Goto
<1>4. CASE SaveFailed(w) \/ AuditFailed(w) \/ Restart(w)
  BY <1>4 DEF SaveFailed, AuditFailed, Restart, Goto
<1>5. CASE Raise(w) \/ Crash(w)
  BY <1>5 DEF Raise, Crash
<1> QED
  BY <1>1, <1>2, <1>3, <1>4, <1>5

LEMMA ClaimExcludes ==
  ASSUME Exclusion, NEW w \in Workers, Claim(w), Typed'
  PROVE  Exclusion'
<1>1. PICK c \in Jobs : AcquireLease(c, WorkerId[w])
                         /\ cur' = [cur EXCEPT ![w] = c]
                         /\ pc' = [pc EXCEPT ![w] = "heartbeat"]
  BY DEF Claim
<1>2. \A v \in Workers : ~Holds(v, c)
  BY <1>1 DEF Exclusion, HolderIsLeased, AcquireLease
<1>3. \A v \in Workers, j \in Jobs : Holds(v, j)' => (v = w /\ j = c) \/ Holds(v, j)
  BY <1>1 DEF Exclusion, Typed, TypeOK, Holds
<1>4. HasActiveLease(c)'
  BY <1>1, FreshIsActive, PublishAssumption DEF Exclusion, Typed, TypeOK, LeasesOK, AcquireLease, HasActiveLease
<1>5. \A j \in Jobs \ {c} : leases'[j] = leases[j]
  BY <1>1 DEF Exclusion, Typed, TypeOK, LeasesOK, AcquireLease
<1>6. ExclusiveExecution'
  BY <1>2, <1>3 DEF Exclusion, ExclusiveExecution
<1>7. HolderIsLeased'
  BY <1>3, <1>4, <1>5 DEF Exclusion, HolderIsLeased, HasActiveLease
<1> QED
  BY <1>6, <1>7 DEF Exclusion

LEMMA HeartbeatExcludes ==
  ASSUME Exclusion, NEW w \in Workers, Heartbeat(w), Typed'
  PROVE  Exclusion'
<1>1. \A v \in Workers, j \in Jobs : Holds(v, j)' => Holds(v, j)
  BY DEF Exclusion, Typed, TypeOK, Holds, Heartbeat, Goto
<1>2. \A j \in Jobs : HasActiveLease(j) => HasActiveLease(j)'
  BY FreshIsActive, PublishAssumption
     DEF Exclusion, Typed, TypeOK, LeasesOK, Heartbeat, HeartbeatLease, HasActiveLease
<1> QED
  BY <1>1, <1>2 DEF Exclusion, ExclusiveExecution, HolderIsLeased

LEMMA ReleaseExcludes ==
  ASSUME Exclusion, NEW w \in Workers, Complete(w) \/ CompleteFailed(w), Typed'
  PROVE  Exclusion'
<1>1. Holds(w, cur[w]) /\ cur[w] \in Jobs
  BY DEF Exclusion, Typed, HolderHasJob, Holds, Complete, CompleteFailed
<1>2. \A v \in Workers, j \in Jobs : Holds(v, j)' => Holds(v, j) /\ v # w
  BY DEF Exclusion, Typed, TypeOK, Holds, Complete, CompleteFailed
<1>3. \A v \in Workers, j \in Jobs : Holds(v, j)' => j # cur[w]
  BY <1>1, <1>2 DEF Exclusion, ExclusiveExecution
<1>4. \A j \in Jobs : j # cur[w] => leases'[j] = leases[j]
  BY DEF Exclusion, Typed, TypeOK, LeasesOK, Complete, CompleteFailed, ReleaseLease
<1> QED
  BY <1>2, <1>3, <1>4 DEF Exclusion, ExclusiveExecution, HolderIsLeased, HasActiveLease

LEMMA TickExcludes ==
  ASSUME PromptWorkers, Exclusion, Tick, Typed'
  PROVE  Exclusion'
<1>1. \A w \in Workers, j \in Jobs : Holds(w, j)' <=> Holds(w, j)
  BY DEF Tick, workerVars, Holds
<1>2. ASSUME NEW w \in Workers, NEW j \in Jobs, Holds(w, j)
      PROVE  HasActiveLease(j)'
  <2>1. HasActiveLease(j) /\ leases[j] \in LeaseRow /\ leases[j].left > 1
    BY <1>2 DEF Exclusion, HolderIsLeased, Typed, TypeOK, LeasesOK, HasActiveLease, Tick
  <2>2. leases'[j] = [leases[j] EXCEPT !.left = @ - 1]
    BY <2>1 DEF Tick, Elapse
  <2>3. leases'[j] \in LeaseRow /\ leases'[j].left = leases[j].left - 1
    BY <2>1, <2>2, LeaseAssumption DEF LeaseRow
  <2> QED
    BY <2>1, <2>3, LeaseAssumption DEF HasActiveLease, LeaseRow
<1> QED
  BY <1>1, <1>2 DEF Exclusion, ExclusiveExecution, HolderIsLeased

LEMMA NextExcludes ==
  ASSUME PromptWorkers
  PROVE  Exclusion /\ [Next]_vars => Exclusion'
<1> SUFFICES ASSUME Exclusion, [Next]_vars
             PROVE  Exclusion'
  OBVIOUS
<1>0. Typed /\ Typed'
  BY NextTyped DEF Exclusion
<1>1. CASE \E j \in Jobs : RequestJob(j)
  BY <1>0, <1>1, QuietStepExcludes DEF RequestJob, Holds, workerVars
<1>2. ASSUME NEW w \in Workers, WorkerStep(w) \/ Crash(w)
      PROVE  Exclusion'
  BY <1>0, <1>2, QuietWorkerStep, QuietStepExcludes, ClaimExcludes, HeartbeatExcludes, ReleaseExcludes
     DEF WorkerStep
<1>3. ASSUME NEW r \in Recoveries, RecoveryStep(r) \/ AbortRecovery(r)
      PROVE  Exclusion'
  <2>1. leases' = leases /\ UNCHANGED workerVars
    BY <1>3 DEF RecoveryStep, ListStale, SkipActive, FindUnleased, SavePending, AuditRecovered, AbortRecovery
  <2> QED
    BY <1>0, <2>1, QuietStepExcludes DEF Holds, workerVars
<1>4. CASE Tick
  BY <1>0, <1>4, TickExcludes
<1>5. CASE UNCHANGED vars
  BY <1>0, <1>5, QuietStepExcludes DEF vars, Holds, workerVars
<1> QED
  BY <1>1, <1>2, <1>3, <1>4, <1>5 DEF Next

\* With workers that release their jobs in time, the lease table makes the
\* execution of a job exclusive, and the recovery can tell from it which jobs
\* are being executed.
THEOREM Exclusive ==
  ASSUME PromptWorkers
  PROVE  Spec => [](ExclusiveExecution /\ HolderIsLeased)
<1>1. Init => Exclusion
  BY InitTyped DEF Init, Exclusion, ExclusiveExecution, HolderIsLeased, Holds
<1>2. Exclusion /\ [Next]_vars => Exclusion'
  BY NextExcludes
<1>3. Exclusion => ExclusiveExecution /\ HolderIsLeased
  BY DEF Exclusion
<1> QED
  BY <1>1, <1>2, <1>3, PTL DEF Spec

\* So a job without an active lease is not being executed: what the recovery
\* reads of the lease table is true of the workers when it reads it.
THEOREM HoldersAreLeased ==
  ASSUME PromptWorkers
  PROVE  Spec => []HolderIsLeased
<1>1. Spec => [](ExclusiveExecution /\ HolderIsLeased)
  BY Exclusive
<1> QED
  BY <1>1, PTL

-----------------------------------------------------------------------------
(* The order of an execution.  The invariant follows a worker through the  *)
(* try block: what it has recorded and loaded is still there when the next *)
(* call relies on it, whatever others did to the status meanwhile.         *)

StartedFirst == \A w \in Workers : pc[w] = "execute" => <<cur[w], "started">> \in audits

LoadedFirst ==
  \A w \in Workers :
    pc[w] \in {"save_completed", "record_lineage", "audit_completed", "complete"}
      => cur[w] \in loaded

Ordered == Typed /\ StartedFirst /\ LoadedFirst /\ OutcomeFollowsLoad

LEMMA WorkerOrdered ==
  ASSUME Ordered, NEW w \in Workers, WorkerStep(w) \/ Crash(w), Typed'
  PROVE  Ordered'
<1> USE DEF Ordered, Typed, TypeOK, HolderHasJob, StartedFirst, LoadedFirst, OutcomeFollowsLoad
<1>1. CASE ListPending(w)
  BY <1>1 DEF ListPending, jobVars
<1>2. CASE SkipLeased(w)
  BY <1>2 DEF SkipLeased, jobVars
<1>3. CASE Claim(w)
  BY <1>3 DEF Claim, jobVars
<1>4. CASE Heartbeat(w)
  BY <1>4 DEF Heartbeat, Goto, jobVars
<1>5. CASE SavePlanning(w)
  BY <1>5 DEF SavePlanning, Goto, SaveStatus
<1>6. CASE AuditStarted(w)
  BY <1>6 DEF AuditStarted, Goto, RecordEvent
<1>7. CASE Execute(w)
  BY <1>7 DEF Execute, Goto
<1>8. CASE SaveCompleted(w)
  BY <1>8 DEF SaveCompleted, Goto, SaveStatus
<1>9. CASE RecordLineage(w)
  BY <1>9 DEF RecordLineage, Goto
<1>10. CASE AuditCompleted(w)
  BY <1>10 DEF AuditCompleted, Goto, RecordEvent
<1>11. CASE Complete(w)
  BY <1>11 DEF Complete, jobVars
<1>12. CASE Raise(w)
  BY <1>12 DEF Raise, jobVars
<1>13. CASE SaveFailed(w)
  BY <1>13 DEF SaveFailed, Goto, SaveStatus
<1>14. CASE AuditFailed(w)
  BY <1>14 DEF AuditFailed, Goto, RecordEvent
<1>15. CASE CompleteFailed(w)
  BY <1>15 DEF CompleteFailed, jobVars
<1>16. CASE Restart(w)
  BY <1>16 DEF Restart, Goto, jobVars
<1>17. CASE Crash(w)
  BY <1>17 DEF Crash, jobVars
<1> QED
  BY <1>1, <1>2, <1>3, <1>4, <1>5, <1>6, <1>7, <1>8, <1>9, <1>10, <1>11, <1>12,
     <1>13, <1>14, <1>15, <1>16, <1>17 DEF WorkerStep

LEMMA NextOrdered == Ordered /\ [Next]_vars => Ordered'
<1> SUFFICES ASSUME Ordered, [Next]_vars
             PROVE  Ordered'
  OBVIOUS
<1>0. Typed'
  BY NextTyped DEF Ordered
<1> USE DEF StartedFirst, LoadedFirst, OutcomeFollowsLoad
<1>1. ASSUME NEW j \in Jobs, RequestJob(j)
      PROVE  Ordered'
  BY <1>0, <1>1 DEF Ordered, Typed, TypeOK, RequestJob, SaveStatus, workerVars
<1>2. ASSUME NEW w \in Workers, WorkerStep(w) \/ Crash(w)
      PROVE  Ordered'
  BY <1>0, <1>2, WorkerOrdered
<1>3. ASSUME NEW r \in Recoveries, SavePending(r)
      PROVE  Ordered'
  BY <1>0, <1>3 DEF Ordered, Typed, TypeOK, SavePending, SaveStatus, workerVars
<1>4. ASSUME NEW r \in Recoveries,
             \/ ListStale(r) \/ SkipActive(r) \/ FindUnleased(r) \/ AuditRecovered(r)
             \/ AbortRecovery(r)
      PROVE  Ordered'
  BY <1>0, <1>4 DEF Ordered, ListStale, SkipActive, FindUnleased, AuditRecovered,
     AbortRecovery, jobVars, workerVars
<1>5. CASE Tick \/ UNCHANGED vars
  BY <1>0, <1>5 DEF Ordered, Tick, vars, jobVars, workerVars
<1> QED
  BY <1>1, <1>2, <1>3, <1>4, <1>5 DEF Next, RecoveryStep

\* No outcome without its execution: completed, lineage and rows in the target
\* all come after the steps they stand for, in every interleaving.
THEOREM OutcomeOrder == Spec => []OutcomeFollowsLoad
<1>1. Init => Ordered
  BY InitTyped DEF Init, Ordered, StartedFirst, LoadedFirst, OutcomeFollowsLoad
<1>2. Ordered => OutcomeFollowsLoad
  BY DEF Ordered
<1> QED
  BY <1>1, <1>2, NextOrdered, PTL DEF Spec

-----------------------------------------------------------------------------
(* Leases do not change hands.                                             *)

Unstolen ==
  \A j \in Jobs : HasActiveLease(j) /\ leases'[j] # NoLease
    => leases'[j].worker = leases[j].worker

LEMMA AcquireUnstolen ==
  ASSUME LeasesOK, NEW j \in Jobs, NEW id \in WorkerIds, AcquireLease(j, id)
  PROVE  Unstolen
BY DEF Unstolen, LeasesOK, AcquireLease

LEMMA HeartbeatUnstolen ==
  ASSUME LeasesOK, NEW j \in Jobs, NEW id \in WorkerIds, HeartbeatLease(j, id)
  PROVE  Unstolen
BY DEF Unstolen, LeasesOK, HeartbeatLease, HasActiveLease, FreshLease, LeaseRow

LEMMA ReleaseUnstolen ==
  ASSUME LeasesOK, NEW j \in Jobs, ReleaseLease(j)
  PROVE  Unstolen
BY DEF Unstolen, LeasesOK, ReleaseLease

LEMMA ElapseUnstolen ==
  ASSUME LeasesOK, Elapse
  PROVE  Unstolen
BY DEF Unstolen, LeasesOK, Elapse, HasActiveLease, LeaseRow

LEMMA NextUnstolen ==
  ASSUME Typed, [Next]_vars
  PROVE  Unstolen
<1> USE DEF Typed, TypeOK, HolderHasJob
<1>1. CASE leases' = leases
  BY <1>1 DEF Unstolen
<1>2. ASSUME NEW w \in Workers, Claim(w)
      PROVE  Unstolen
  BY <1>2, AcquireUnstolen, PublishAssumption DEF Claim
<1>3. ASSUME NEW w \in Workers, Heartbeat(w)
      PROVE  Unstolen
  BY <1>3, HeartbeatUnstolen, PublishAssumption DEF Heartbeat, Goto
<1>4. ASSUME NEW w \in Workers, Complete(w) \/ CompleteFailed(w)
      PROVE  Unstolen
  BY <1>4, ReleaseUnstolen DEF Complete, CompleteFailed
<1>5. ASSUME NEW w \in Workers,
             \/ ListPending(w) \/ SkipLeased(w) \/ SavePlanning(w) \/ AuditStarted(w)
             \/ Execute(w) \/ SaveCompleted(w) \/ RecordLineage(w) \/ AuditCompleted(w)
             \/ Raise(w) \/ SaveFailed(w) \/ AuditFailed(w) \/ Restart(w) \/ Crash(w)
      PROVE  leases' = leases
  BY <1>5, QuietWorkerStep
<1>6. ASSUME NEW r \in Recoveries, RecoveryStep(r) \/ AbortRecovery(r)
      PROVE  leases' = leases
  BY <1>6 DEF RecoveryStep, ListStale, SkipActive, FindUnleased, SavePending,
     AuditRecovered, AbortRecovery
<1>7. CASE Tick
  BY <1>7, ElapseUnstolen DEF Tick
<1>8. ASSUME NEW j \in Jobs, RequestJob(j)
      PROVE  leases' = leases
  BY <1>8 DEF RequestJob
<1>9. CASE UNCHANGED vars
  BY <1>1, <1>9 DEF vars
<1> QED
  BY <1>1, <1>2, <1>3, <1>4, <1>5, <1>6, <1>7, <1>8, <1>9 DEF Next, WorkerStep

\* Even with workers that overrun their leases or share an id, an active lease
\* changes its worker only through a release.
THEOREM LeasesStay == Spec => LeaseNeverStolen
<1>1. Spec => []Typed
  BY InitTyped, NextTyped, PTL DEF Spec
<1>2. Typed /\ [Next]_vars
        => [\A j \in Jobs : HasActiveLease(j) /\ leases'[j] # NoLease
              => leases'[j].worker = leases[j].worker]_vars
  BY NextUnstolen DEF Unstolen
<1> QED
  BY <1>1, <1>2, PTL DEF Spec, LeaseNeverStolen

-----------------------------------------------------------------------------
(* The recovery and active leases.  The recovery checks the lease in one   *)
(* transaction and saves in another; what keeps the two together, with one *)
(* worker and one recovery at a time, is that a listed job is not pending, *)
(* so that the queue cannot hand it out in between.                        *)

OneOfEach ==
  /\ \A v, w \in Workers : v = w
  /\ \A q, r \in Recoveries : q = r

Parked(j) == status[j] \notin {"absent", "pending"}

CandidatesPending ==
  \A w \in Workers : \A j \in cands[w] : pc[w] = "claim" /\ status[j] = "pending"

ClaimedPending ==
  \A w \in Workers : pc[w] \in {"heartbeat", "save_planning"} => status[cur[w]] = "pending"

ListedParked == \A r \in Recoveries : \A j \in rjobs[r] : Parked(j)

SavedParked ==
  \A r \in Recoveries : rpc[r] = "save_pending" =>
    Parked(rcur[r]) /\ rcur[r] \notin rjobs[r] /\ ~HasActiveLease(rcur[r])

Sparing == Typed /\ CandidatesPending /\ ClaimedPending /\ ListedParked /\ SavedParked

LEMMA AcquireElsewhere ==
  ASSUME LeasesOK, NEW c \in Jobs, NEW j \in Jobs, NEW id, j # c, AcquireLease(c, id)
  PROVE  HasActiveLease(j)' <=> HasActiveLease(j)
BY DEF LeasesOK, AcquireLease, HasActiveLease

LEMMA HeartbeatElsewhere ==
  ASSUME LeasesOK, NEW c \in Jobs, NEW j \in Jobs, NEW id, j # c, HeartbeatLease(c, id)
  PROVE  HasActiveLease(j)' <=> HasActiveLease(j)
BY DEF LeasesOK, HeartbeatLease, HasActiveLease

LEMMA ReleaseRemoves ==
  ASSUME LeasesOK, NEW c \in Jobs, NEW j \in Jobs, ReleaseLease(c), HasActiveLease(j)'
  PROVE  HasActiveLease(j)
BY DEF LeasesOK, ReleaseLease, HasActiveLease

LEMMA ElapseRemoves ==
  ASSUME LeasesOK, Elapse, NEW j \in Jobs, HasActiveLease(j)'
  PROVE  HasActiveLease(j)
BY DEF LeasesOK, Elapse, HasActiveLease

LEMMA WorkerSpares ==
  ASSUME OneOfEach, Sparing, Typed', NEW w \in Workers, WorkerStep(w) \/ Crash(w)
  PROVE  Sparing'
<1> USE DEF OneOfEach, Sparing, Typed, TypeOK, HolderHasJob, SaverHasJob,
            CandidatesPending, ClaimedPending, ListedParked, SavedParked, Parked
<1>1. CASE ListPending(w)
  BY <1>1 DEF ListPending, HasActiveLease, jobVars, recoveryVars
<1>2. CASE SkipLeased(w)
  BY <1>2 DEF SkipLeased, NextCandidate, HasActiveLease, jobVars, recoveryVars
<1>3. CASE Claim(w)
  BY <1>3, AcquireElsewhere DEF Claim, NextCandidate, jobVars, recoveryVars
<1>4. CASE Heartbeat(w)
  BY <1>4, HeartbeatElsewhere DEF Heartbeat, Goto, jobVars, recoveryVars
<1>5. CASE SavePlanning(w)
  BY <1>5 DEF SavePlanning, Goto, SaveStatus, HasActiveLease, recoveryVars
<1>6. CASE AuditStarted(w) \/ Execute(w) \/ RecordLineage(w) \/ AuditCompleted(w) \/ AuditFailed(w)
  BY <1>6 DEF AuditStarted, Execute, RecordLineage, AuditCompleted, AuditFailed, Goto,
     HasActiveLease, recoveryVars
<1>7. CASE SaveCompleted(w)
  BY <1>7 DEF SaveCompleted, Goto, SaveStatus, HasActiveLease, recoveryVars
<1>8. CASE SaveFailed(w)
  BY <1>8 DEF SaveFailed, Goto, SaveStatus, HasActiveLease, recoveryVars
<1>9. CASE Complete(w) \/ CompleteFailed(w)
  BY <1>9, ReleaseRemoves DEF Complete, CompleteFailed, jobVars, recoveryVars
<1>10. CASE Raise(w) \/ Crash(w)
  BY <1>10 DEF Raise, Crash, HasActiveLease, jobVars, recoveryVars
<1>11. CASE Restart(w)
  BY <1>11 DEF Restart, Goto, HasActiveLease, jobVars, recoveryVars
<1> QED
  BY <1>1, <1>2, <1>3, <1>4, <1>5, <1>6, <1>7, <1>8, <1>9, <1>10, <1>11 DEF WorkerStep

LEMMA RecoverySpares ==
  ASSUME OneOfEach, Sparing, Typed', NEW r \in Recoveries, RecoveryStep(r) \/ AbortRecovery(r)
  PROVE  Sparing'
<1> USE DEF OneOfEach, Sparing, Typed, TypeOK, SaverHasJob, HasActiveLease,
            CandidatesPending, ClaimedPending, ListedParked, SavedParked, Parked
<1>1. CASE ListStale(r)
  BY <1>1 DEF ListStale, jobVars, workerVars
<1>2. CASE SkipActive(r)
  BY <1>2 DEF SkipActive, NextCall, jobVars, workerVars
<1>3. CASE FindUnleased(r)
  BY <1>3 DEF FindUnleased, jobVars, workerVars
<1>4. CASE SavePending(r)
  BY <1>4 DEF SavePending, SaveStatus, workerVars
<1>5. CASE AuditRecovered(r)
  BY <1>5 DEF AuditRecovered, NextCall, jobVars, workerVars
<1>6. CASE AbortRecovery(r)
  BY <1>6 DEF AbortRecovery, jobVars, workerVars
<1> QED
  BY <1>1, <1>2, <1>3, <1>4, <1>5, <1>6 DEF RecoveryStep

LEMMA NextSpares ==
  ASSUME OneOfEach
  PROVE  Sparing /\ [Next]_vars => Sparing'
<1> SUFFICES ASSUME Sparing, [Next]_vars
             PROVE  Sparing'
  OBVIOUS
<1>0. Typed'
  BY NextTyped DEF Sparing
<1>1. ASSUME NEW j \in Jobs, RequestJob(j)
      PROVE  Sparing'
  BY <1>0, <1>1 DEF Sparing, Typed, TypeOK, SaverHasJob, CandidatesPending, ClaimedPending,
     ListedParked, SavedParked, Parked, RequestJob, SaveStatus, HasActiveLease, workerVars, recoveryVars
<1>2. ASSUME NEW w \in Workers, WorkerStep(w) \/ Crash(w)
      PROVE  Sparing'
  BY <1>0, <1>2, WorkerSpares
<1>3. ASSUME NEW r \in Recoveries, RecoveryStep(r) \/ AbortRecovery(r)
      PROVE  Sparing'
  BY <1>0, <1>3, RecoverySpares
<1>4. CASE Tick
  BY <1>0, <1>4, ElapseRemoves DEF Sparing, Typed, TypeOK, SaverHasJob, CandidatesPending,
     ClaimedPending, ListedParked, SavedParked, Parked, Tick, jobVars, workerVars, recoveryVars
<1>5. CASE UNCHANGED vars
  BY <1>0, <1>5 DEF Sparing, CandidatesPending, ClaimedPending, ListedParked, SavedParked, Parked,
     HasActiveLease, vars, jobVars, workerVars, recoveryVars
<1> QED
  BY <1>1, <1>2, <1>3, <1>4, <1>5 DEF Next

LEMMA AlwaysSparing ==
  ASSUME OneOfEach
  PROVE  Spec => []Sparing
<1>1. Init => Sparing
  BY InitTyped DEF Init, Sparing, CandidatesPending, ClaimedPending, ListedParked, SavedParked
<1> QED
  BY <1>1, NextSpares, PTL DEF Spec

\* In the deployment of compose.yml, one publish worker and no overlapping
\* recoveries, what the recovery saw of a lease still holds when it saves the
\* job, even when the worker overruns its lease.
THEOREM RecoverySparesLeases ==
  ASSUME OneOfEach
  PROVE  Spec => RequeueSparesActiveLease
<1>1. Sparing => [\A r \in Recoveries : SavePending(r) => ~HasActiveLease(rcur[r])]_vars
  BY DEF Sparing, SavedParked, SavePending
<1> QED
  BY <1>1, AlwaysSparing, PTL DEF RequeueSparesActiveLease

\* And when that worker is prompt, it never loses the job it executes.
THEOREM RecoverySparesWorker ==
  ASSUME PromptWorkers, OneOfEach
  PROVE  Spec => [][\A r \in Recoveries : SavePending(r) =>
                      \A w \in Workers : ~Holds(w, rcur[r])]_vars
<1>1. Sparing /\ HolderIsLeased
        => [\A r \in Recoveries : SavePending(r) => \A w \in Workers : ~Holds(w, rcur[r])]_vars
  BY DEF Sparing, SavedParked, SavePending, HolderIsLeased, Typed, SaverHasJob
<1> QED
  BY <1>1, AlwaysSparing, Exclusive, PTL

-----------------------------------------------------------------------------
(* The trail of a finished job.  The release of a job names no owner, so   *)
(* it must be shown that nobody releases a job that another worker is      *)
(* still writing the trail of: by promptness, or for want of another       *)
(* worker.                                                                 *)

Solitary == PromptWorkers \/ \A v, w \in Workers : v = w

HolderHasRow == \A w \in Workers, j \in Jobs : Holds(w, j) => leases[j] # NoLease

Owned == Typed /\ ExclusiveExecution /\ HolderHasRow

LEMMA AloneOwned ==
  ASSUME \A v, w \in Workers : v = w, Owned, [Next]_vars, Typed'
  PROVE  Owned'
<1>1. ExclusiveExecution'
  BY DEF ExclusiveExecution
<1>2. ASSUME leases' = leases, \A w \in Workers, j \in Jobs : Holds(w, j)' => Holds(w, j)
      PROVE  HolderHasRow'
  BY <1>2 DEF Owned, HolderHasRow
<1>3. ASSUME NEW w \in Workers, Claim(w)
      PROVE  HolderHasRow'
  <2>1. PICK c \in Jobs : AcquireLease(c, WorkerId[w])
                           /\ cur' = [cur EXCEPT ![w] = c]
    BY <1>3 DEF Claim
  <2>2. \A v \in Workers, j \in Jobs : Holds(v, j)' => j = c
    BY <2>1 DEF Owned, Typed, TypeOK, Holds
  <2>3. leases'[c] # NoLease
    BY <2>1, FreshIsActive, PublishAssumption DEF Owned, Typed, TypeOK, LeasesOK, AcquireLease
  <2> QED
    BY <2>2, <2>3 DEF HolderHasRow
<1>4. ASSUME NEW w \in Workers, Heartbeat(w)
      PROVE  HolderHasRow'
  <2>1. \A v \in Workers, j \in Jobs : Holds(v, j)' => Holds(v, j)
    BY <1>4 DEF Owned, Typed, TypeOK, Holds, Heartbeat, Goto
  <2>2. \A j \in Jobs : leases[j] # NoLease => leases'[j] # NoLease
    BY <1>4, FreshIsActive, PublishAssumption
       DEF Owned, Typed, TypeOK, LeasesOK, Heartbeat, HeartbeatLease
  <2> QED
    BY <2>1, <2>2 DEF Owned, HolderHasRow
<1>5. ASSUME NEW w \in Workers, Complete(w) \/ CompleteFailed(w)
      PROVE  HolderHasRow'
  BY <1>5 DEF Owned, Typed, TypeOK, HolderHasRow, Holds, Complete, CompleteFailed
<1>6. CASE Tick
  <2>1. \A w \in Workers, j \in Jobs : Holds(w, j)' <=> Holds(w, j)
    BY <1>6 DEF Tick, workerVars, Holds
  <2>2. ASSUME NEW j \in Jobs, leases[j] # NoLease
        PROVE  leases'[j] # NoLease
    <3>1. CASE HasActiveLease(j)
      <4>1. leases[j] \in LeaseRow /\ leases[j].left > 0
        BY <3>1 DEF HasActiveLease, Owned, Typed, TypeOK, LeasesOK
      <4>2. [leases[j] EXCEPT !.left = @ - 1] \in LeaseRow
        BY <4>1, LeaseAssumption DEF LeaseRow
      <4> QED
        BY <1>6, <3>1, <4>2, LeaseAssumption DEF Tick, Elapse
    <3>2. CASE ~HasActiveLease(j)
      BY <1>6, <2>2, <3>2 DEF Tick, Elapse
    <3> QED
      BY <3>1, <3>2
  <2> QED
    BY <1>1, <2>1, <2>2 DEF Owned, HolderHasRow
<1>7. ASSUME NEW w \in Workers,
             \/ ListPending(w) \/ SkipLeased(w) \/ SavePlanning(w) \/ AuditStarted(w)
             \/ Execute(w) \/ SaveCompleted(w) \/ RecordLineage(w) \/ AuditCompleted(w)
             \/ Raise(w) \/ SaveFailed(w) \/ AuditFailed(w) \/ Restart(w) \/ Crash(w)
      PROVE  HolderHasRow'
  BY <1>2, <1>7, QuietWorkerStep DEF Owned
<1>8. ASSUME NEW r \in Recoveries, RecoveryStep(r) \/ AbortRecovery(r)
      PROVE  HolderHasRow'
  BY <1>2, <1>8 DEF RecoveryStep, ListStale, SkipActive, FindUnleased, SavePending,
     AuditRecovered, AbortRecovery, Holds, workerVars
<1>9. CASE (\E j \in Jobs : RequestJob(j)) \/ UNCHANGED vars
  BY <1>1, <1>2, <1>9 DEF Owned, RequestJob, vars, Holds, workerVars
<1> QED
  BY <1>1, <1>3, <1>4, <1>5, <1>6, <1>7, <1>8, <1>9 DEF Owned, Next, WorkerStep

LEMMA AlwaysOwned ==
  ASSUME Solitary
  PROVE  Spec => []Owned
<1>1. CASE PromptWorkers
  <2>1. Typed /\ ExclusiveExecution /\ HolderIsLeased => Owned
    BY DEF Owned, HolderHasRow, HolderIsLeased, HasActiveLease
  <2>2. Spec => []Typed
    BY InitTyped, NextTyped, PTL DEF Spec
  <2>3. Spec => [](ExclusiveExecution /\ HolderIsLeased)
    BY <1>1, Exclusive
  <2> QED
    BY <2>1, <2>2, <2>3, PTL
<1>2. CASE \A v, w \in Workers : v = w
  <2>1. Init => Owned
    BY InitTyped DEF Init, Owned, ExclusiveExecution, HolderHasRow, Holds
  <2>2. Owned /\ [Next]_vars => Owned'
    BY <1>2, AloneOwned, NextTyped DEF Owned
  <2> QED
    BY <2>1, <2>2, PTL DEF Spec
<1> QED
  BY <1>1, <1>2 DEF Solitary

\* What a worker has left behind once it has saved the outcome; the recovery may
\* have put the job back meanwhile.
Trail(w) ==
  /\ pc[w] \in {"record_lineage", "audit_completed", "complete"} => status[cur[w]] \in {"completed", "pending"}
  /\ pc[w] \in {"audit_completed", "complete"} => cur[w] \in lineage
  /\ pc[w] = "complete" => <<cur[w], "completed">> \in audits
  /\ pc[w] \in {"audit_failed", "complete_failed"} => status[cur[w]] \in {"failed", "pending"}
  /\ pc[w] = "complete_failed" => <<cur[w], "failed">> \in audits

Trailing == (\A w \in Workers : Trail(w)) /\ ReleasedOutcomeIsRecorded

\* A save of the job it holds disturbs no other worker's trail.
LEMMA HeldApart ==
  ASSUME Owned, NEW v \in Workers, NEW w \in Workers, v # w,
         pc[v] \in TryCalls \cup ExceptCalls, pc[w] \in TryCalls \cup ExceptCalls
  PROVE  cur[v] # cur[w] /\ cur[v] \in Jobs /\ cur[w] \in Jobs
BY DEF Owned, Typed, HolderHasJob, ExclusiveExecution, Holds

LEMMA SaveTrails ==
  ASSUME Owned, Trailing, NEW w \in Workers,
         SavePlanning(w) \/ SaveCompleted(w) \/ SaveFailed(w)
  PROVE  Trailing'
<1> DEFINE j == cur[w]
<1>1. /\ pc[w] \in TryCalls \cup ExceptCalls /\ j \in Jobs /\ leases[j] # NoLease
      /\ leases' = leases /\ audits' = audits /\ lineage' = lineage /\ cur' = cur
      /\ \A v \in Workers : v # w => pc'[v] = pc[v]
      /\ \A k \in Jobs : k # j => status'[k] = status[k]
  BY DEF Owned, Typed, TypeOK, HolderHasJob, HolderHasRow, Holds, SavePlanning, SaveCompleted,
     SaveFailed, Goto, SaveStatus
<1>2. /\ pc'[w] = "record_lineage" => status'[j] = "completed"
      /\ pc'[w] = "audit_failed" => status'[j] = "failed"
      /\ pc'[w] \in {"audit_started", "record_lineage", "audit_failed"}
  BY <1>1 DEF Owned, Typed, TypeOK, SavePlanning, SaveCompleted, SaveFailed, Goto, SaveStatus
<1>3. Trail(w)'
  BY <1>1, <1>2 DEF Trail
<1>4. ASSUME NEW v \in Workers, v # w
      PROVE  Trail(v)'
  BY <1>1, <1>4, HeldApart DEF Trailing, Trail
<1>5. ReleasedOutcomeIsRecorded'
  BY <1>1 DEF Trailing, ReleasedOutcomeIsRecorded
<1> QED
  BY <1>3, <1>4, <1>5 DEF Trailing

LEMMA ReleaseTrails ==
  ASSUME Owned, Trailing, NEW w \in Workers, Complete(w) \/ CompleteFailed(w)
  PROVE  Trailing'
<1>1. /\ cur[w] \in Jobs /\ leases' = [leases EXCEPT ![cur[w]] = NoLease]
      /\ status' = status /\ audits' = audits /\ lineage' = lineage
      /\ \A v \in Workers : v # w => pc'[v] = pc[v] /\ cur'[v] = cur[v]
      /\ pc'[w] \in {"poll", "down"}
  BY DEF Owned, Typed, TypeOK, HolderHasJob, Complete, CompleteFailed, ReleaseLease, jobVars
<1>2. /\ status[cur[w]] = "completed" =>
            <<cur[w], "completed">> \in audits /\ cur[w] \in lineage
      /\ status[cur[w]] = "failed" => <<cur[w], "failed">> \in audits
  BY DEF Complete, CompleteFailed, Trailing, Trail
<1>3. \A j \in Jobs : j # cur[w] => leases'[j] = leases[j]
  BY <1>1 DEF Owned, Typed, TypeOK, LeasesOK
<1>4. ReleasedOutcomeIsRecorded'
  BY <1>1, <1>2, <1>3 DEF Trailing, ReleasedOutcomeIsRecorded
<1>5. \A v \in Workers : Trail(v)'
  BY <1>1 DEF Trailing, Trail
<1> QED
  BY <1>4, <1>5 DEF Trailing

LEMMA WorkerTrails ==
  ASSUME Owned, Trailing, NEW w \in Workers, WorkerStep(w) \/ Crash(w)
  PROVE  Trailing'
<1> USE DEF Trailing, Trail
<1>1. ASSUME leases' = leases, UNCHANGED <<status, audits, lineage>>
      PROVE  ReleasedOutcomeIsRecorded'
  BY <1>1 DEF ReleasedOutcomeIsRecorded
<1>2. CASE ListPending(w) \/ SkipLeased(w) \/ Restart(w)
  BY <1>1, <1>2 DEF Owned, Typed, TypeOK, ListPending, SkipLeased, NextCandidate, Restart, Goto, jobVars
<1>3. CASE Claim(w)
  <2>1. PICK c \in Jobs : AcquireLease(c, WorkerId[w])
                           /\ cur' = [cur EXCEPT ![w] = c]
                           /\ pc' = [pc EXCEPT ![w] = "heartbeat"] /\ UNCHANGED jobVars
    BY <1>3 DEF Claim
  <2>2. \A j \in Jobs : leases'[j] = NoLease => leases[j] = NoLease
    BY <2>1, FreshIsActive, PublishAssumption DEF Owned, Typed, TypeOK, LeasesOK, AcquireLease
  <2> QED
    BY <2>1, <2>2 DEF Owned, Typed, TypeOK, ReleasedOutcomeIsRecorded, jobVars
<1>4. CASE Heartbeat(w)
  <2>1. \A j \in Jobs : leases'[j] = NoLease => leases[j] = NoLease
    BY <1>4, FreshIsActive, PublishAssumption
       DEF Owned, Typed, TypeOK, LeasesOK, Heartbeat, HeartbeatLease
  <2> QED
    BY <1>4, <2>1 DEF Owned, Typed, TypeOK, ReleasedOutcomeIsRecorded, Heartbeat, Goto, jobVars
<1>5. CASE SavePlanning(w) \/ SaveCompleted(w) \/ SaveFailed(w)
  BY <1>5, SaveTrails
<1>6. CASE AuditStarted(w)
  BY <1>6 DEF Owned, Typed, TypeOK, ReleasedOutcomeIsRecorded, AuditStarted, Goto, RecordEvent
<1>7. CASE Execute(w)
  BY <1>1, <1>7 DEF Owned, Typed, TypeOK, Execute, Goto
<1>8. CASE RecordLineage(w)
  BY <1>8 DEF Owned, Typed, TypeOK, ReleasedOutcomeIsRecorded, RecordLineage, Goto
<1>9. CASE AuditCompleted(w)
  BY <1>9 DEF Owned, Typed, TypeOK, ReleasedOutcomeIsRecorded, AuditCompleted, Goto, RecordEvent
<1>10. CASE AuditFailed(w)
  BY <1>10 DEF Owned, Typed, TypeOK, ReleasedOutcomeIsRecorded, AuditFailed, Goto, RecordEvent
<1>11. CASE Complete(w) \/ CompleteFailed(w)
  BY <1>11, ReleaseTrails
<1>12. CASE Raise(w) \/ Crash(w)
  BY <1>1, <1>12 DEF Owned, Typed, TypeOK, Raise, Crash, jobVars
<1> QED
  BY <1>2, <1>3, <1>4, <1>5, <1>6, <1>7, <1>8, <1>9, <1>10, <1>11, <1>12 DEF WorkerStep

LEMMA NextTrails == Owned /\ Trailing /\ [Next]_vars => Trailing'
<1> SUFFICES ASSUME Owned, Trailing, [Next]_vars
             PROVE  Trailing'
  OBVIOUS
<1>1. ASSUME NEW k \in Jobs, status' = [status EXCEPT ![k] = "pending"],
             UNCHANGED <<leases, audits, lineage, workerVars>>
      PROVE  Trailing'
  BY <1>1 DEF Owned, Typed, TypeOK, Trailing, Trail, ReleasedOutcomeIsRecorded, workerVars
<1>2. ASSUME NEW j \in Jobs, RequestJob(j)
      PROVE  Trailing'
  BY <1>1, <1>2 DEF RequestJob, SaveStatus
<1>3. ASSUME NEW w \in Workers, WorkerStep(w) \/ Crash(w)
      PROVE  Trailing'
  BY <1>3, WorkerTrails
<1>4. ASSUME NEW r \in Recoveries, SavePending(r)
      PROVE  Trailing'
  BY <1>1, <1>4 DEF Owned, Typed, SaverHasJob, SavePending, SaveStatus
<1>5. CASE \/ \E r \in Recoveries : \/ ListStale(r) \/ SkipActive(r) \/ FindUnleased(r)
                                     \/ AuditRecovered(r) \/ AbortRecovery(r)
           \/ UNCHANGED vars
  BY <1>5 DEF Trailing, Trail, ReleasedOutcomeIsRecorded, ListStale, SkipActive, FindUnleased,
     AuditRecovered, AbortRecovery, vars, jobVars, workerVars
<1>6. CASE Tick
  <2>1. \A j \in Jobs : leases'[j] = NoLease => leases[j] = NoLease
    <3>1. \A j \in Jobs : HasActiveLease(j) => [leases[j] EXCEPT !.left = @ - 1] # NoLease
      BY LeaseAssumption DEF Owned, Typed, TypeOK, LeasesOK, LeaseRow, HasActiveLease
    <3> QED
      BY <1>6, <3>1 DEF Tick, Elapse
  <2> QED
    BY <1>6, <2>1 DEF Trailing, Trail, ReleasedOutcomeIsRecorded, Tick, jobVars, workerVars
<1> QED
  BY <1>2, <1>3, <1>4, <1>5, <1>6 DEF Next, RecoveryStep

\* Wherever the execution of a job breaks off, a finished job without a lease row
\* has its whole trail, with prompt replicas or with the one of compose.yml
\* however long it takes, and with any number of recoveries that overlap.
THEOREM ReleasedIsRecorded ==
  ASSUME Solitary
  PROVE  Spec => []ReleasedOutcomeIsRecorded
<1>1. Spec => []Owned
  BY AlwaysOwned
<1>2. Init => Trailing
  BY DEF Init, Trailing, Trail, ReleasedOutcomeIsRecorded
<1>3. Trailing => ReleasedOutcomeIsRecorded
  BY DEF Trailing
<1> QED
  BY <1>1, <1>2, <1>3, NextTrails, PTL DEF Spec
=============================================================================
