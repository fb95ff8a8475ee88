-------------------------- MODULE PublishExecution --------------------------
(***************************************************************************)
(* The life of publish jobs: the API records a request, publish workers    *)
(* take jobs from the LeasedPollingQueue and run them, and the stale job   *)
(* recovery puts jobs back that were left active without a lease.          *)
(*                                                                         *)
(* Every repository call of the code is a transaction of its own that      *)
(* overwrites one entity, so each is a step of its own here; between two   *)
(* of them anything else may happen, and the process may die.              *)
(***************************************************************************)
EXTENDS JobLeases

CONSTANTS
  Workers,        \* the running replicas of the publish worker
  Recoveries,     \* the runs of the stale job recovery that may overlap
  WorkerId,       \* the id each replica was started with
  PromptWorkers,  \* TRUE: a live worker releases a job before its lease ends
  NoJob           \* "None"

ASSUME PublishAssumption ==
  /\ WorkerId \in [Workers -> WorkerIds]
  /\ PromptWorkers \in BOOLEAN
  /\ NoJob \notin Jobs

VARIABLES
  status,   \* publish_job records: the status of each job
  audits,   \* audit_event records: <<job, event>>
  lineage,  \* jobs with a baseline_published lineage record
  loaded,   \* jobs whose rows were committed to the target database
  pc,       \* worker: its next call
  cands,    \* worker: the candidates it listed and has not tried yet
  cur,      \* worker: the job it claimed
  rpc,      \* recovery: its next call
  rjobs,    \* recovery: the active jobs of its listing still to examine
  rcur      \* recovery: the job it is putting back

jobVars == <<status, audits, lineage, loaded>>
workerVars == <<pc, cands, cur>>
recoveryVars == <<rpc, rjobs, rcur>>
vars == <<leases, jobVars, workerVars, recoveryVars>>

-----------------------------------------------------------------------------
JobStatus == {"absent", "pending", "planning", "completed", "failed"}

\* The statuses the recovery calls stale; no publish job reaches "publishing".
StaleStatus == {"planning", "publishing"}

\* The events of an execution.  publish_job_requested and
\* job_recovered_after_stale_lease are written too; no property reads them.
AuditEvents == {"started", "completed", "failed"}

\* Calls made inside the try block of process_next_job, in order.
TryCalls == {"heartbeat", "save_planning", "audit_started", "execute",
             "save_completed", "record_lineage", "audit_completed", "complete"}

\* Calls of its except block.
ExceptCalls == {"save_failed", "audit_failed", "complete_failed"}

WorkerCalls == {"poll", "claim", "down"} \cup TryCalls \cup ExceptCalls

TypeOK ==
  /\ LeasesOK
  /\ status \in [Jobs -> JobStatus]
  /\ audits \in SUBSET (Jobs \X AuditEvents)
  /\ lineage \in SUBSET Jobs
  /\ loaded \in SUBSET Jobs
  /\ pc \in [Workers -> WorkerCalls]
  /\ cands \in [Workers -> SUBSET Jobs]
  /\ cur \in [Workers -> Jobs \cup {NoJob}]
  /\ rpc \in [Recoveries -> {"off", "scan", "save_pending", "audit_recovered"}]
  /\ rjobs \in [Recoveries -> SUBSET Jobs]
  /\ rcur \in [Recoveries -> Jobs \cup {NoJob}]

Init ==
  /\ leases = NoLeases
  /\ status = [j \in Jobs |-> "absent"]
  /\ audits = {} /\ lineage = {} /\ loaded = {}
  /\ pc = [w \in Workers |-> "poll"]
  /\ cands = [w \in Workers |-> {}]
  /\ cur = [w \in Workers |-> NoJob]
  /\ rpc = [r \in Recoveries |-> "off"]
  /\ rjobs = [r \in Recoveries |-> {}]
  /\ rcur = [r \in Recoveries |-> NoJob]

\* From claim to release a worker works on its current job.
Holds(w, j) == pc[w] \in TryCalls \cup ExceptCalls /\ cur[w] = j

SaveStatus(j, s) == status' = [status EXCEPT ![j] = s]

RecordEvent(j, event) == audits' = audits \cup {<<j, event>>}

-----------------------------------------------------------------------------
\* PublishRequestService.create_job: the insertion of the job record.  enqueue
\* does nothing, and the audit event comes in a later transaction.  Requests
\* are served concurrently, so a job may become visible after a younger one.
RequestJob(j) ==
  /\ status[j] = "absent"
  /\ SaveStatus(j, "pending")
  /\ UNCHANGED <<leases, audits, lineage, loaded, workerVars, recoveryVars>>

-----------------------------------------------------------------------------
(* LeasedPollingQueue.dequeue.                                             *)

\* Fault: the listing asks for unfinished jobs instead of pending ones.
ListUnfinished(w) ==
  LET unfinished == {j \in Jobs : status[j] \in {"pending", "planning"}} IN
  /\ pc[w] = "poll" /\ unfinished # {}
  /\ cands' = [cands EXCEPT ![w] = unfinished]
  /\ pc' = [pc EXCEPT ![w] = "claim"]
  /\ UNCHANGED <<leases, jobVars, cur, recoveryVars>>

\* The listing: one SELECT, filtered by status.  With nothing pending the
\* runner sleeps and polls again, which changes nothing.
ListPending(w) ==
  LET pending == {j \in Jobs : status[j] = "pending"} IN
  /\ pc[w] = "poll" /\ pending # {}
  /\ cands' = [cands EXCEPT ![w] = pending]
  /\ pc' = [pc EXCEPT ![w] = "claim"]
  /\ UNCHANGED <<leases, jobVars, cur, recoveryVars>>

\* The loop tries the candidates by created_at, as they were when listed.
NextCandidate(w, j) ==
  /\ pc[w] = "claim" /\ j \in cands[w]
  /\ \A k \in cands[w] : j <= k

SkipLeased(w) == \E j \in Jobs :
  /\ NextCandidate(w, j) /\ HasActiveLease(j)
  /\ cands' = [cands EXCEPT ![w] = @ \ {j}]
  /\ pc' = [pc EXCEPT ![w] = IF cands[w] = {j} THEN "poll" ELSE @]
  /\ UNCHANGED <<leases, jobVars, cur, recoveryVars>>

\* The lookups of the job and of its source, baseline, target and profile
\* come next; they read nothing that changes.  Should one of them raise, that
\* is outside the try block: the process ends and keeps the lease, as in Crash.
Claim(w) == \E j \in Jobs :
  /\ NextCandidate(w, j) /\ AcquireLease(j, WorkerId[w])
  /\ cands' = [cands EXCEPT ![w] = {}]
  /\ cur' = [cur EXCEPT ![w] = j]
  /\ pc' = [pc EXCEPT ![w] = "heartbeat"]
  /\ UNCHANGED <<jobVars, recoveryVars>>

-----------------------------------------------------------------------------
(* PublishWorker.process_next_job: the try block.                          *)

Goto(w, from, to) ==
  /\ pc[w] = from
  /\ pc' = [pc EXCEPT ![w] = to]
  /\ UNCHANGED <<cands, cur, recoveryVars>>

Heartbeat(w) ==
  /\ Goto(w, "heartbeat", "save_planning")
  /\ HeartbeatLease(cur[w], WorkerId[w])
  /\ UNCHANGED jobVars

\* Fault: the transition to PLANNING is not saved.
SavePlanningForgotten(w) ==
  /\ Goto(w, "save_planning", "audit_started")
  /\ UNCHANGED <<leases, jobVars>>

SavePlanning(w) ==
  /\ Goto(w, "save_planning", "audit_started")
  /\ SaveStatus(cur[w], "planning")
  /\ UNCHANGED <<leases, audits, lineage, loaded>>

AuditStarted(w) ==
  /\ Goto(w, "audit_started", "execute")
  /\ RecordEvent(cur[w], "started")
  /\ UNCHANGED <<leases, status, lineage, loaded>>

\* Fault: the target connection is closed without a commit.
ExecuteUncommitted(w) ==
  /\ Goto(w, "execute", "save_completed")
  /\ UNCHANGED <<leases, jobVars>>

\* The pipeline loads every asset in one transaction of the target database.
Execute(w) ==
  /\ Goto(w, "execute", "save_completed")
  /\ loaded' = loaded \cup {cur[w]}
  /\ UNCHANGED <<leases, status, audits, lineage>>

SaveCompleted(w) ==
  /\ Goto(w, "save_completed", "record_lineage")
  /\ SaveStatus(cur[w], "completed")
  /\ UNCHANGED <<leases, audits, lineage, loaded>>

\* A second record, for the validation report, follows the first one in a
\* transaction of its own and may raise after the first was written.
RecordLineage(w) ==
  /\ \E next \in {"audit_completed", "save_failed"} : Goto(w, "record_lineage", next)
  /\ lineage' = lineage \cup {cur[w]}
  /\ UNCHANGED <<leases, status, audits, loaded>>

AuditCompleted(w) ==
  /\ Goto(w, "audit_completed", "complete")
  /\ RecordEvent(cur[w], "completed")
  /\ UNCHANGED <<leases, status, lineage, loaded>>

Complete(w) ==
  /\ pc[w] = "complete"
  /\ ReleaseLease(cur[w])
  /\ pc' = [pc EXCEPT ![w] = "poll"]
  /\ cur' = [cur EXCEPT ![w] = NoJob]
  /\ UNCHANGED <<jobVars, cands, recoveryVars>>

\* Fault: the except block releases the job first and saves FAILED after.
RaiseAndRelease(w) ==
  /\ pc[w] \in TryCalls
  /\ ReleaseLease(cur[w])
  /\ pc' = [pc EXCEPT ![w] = "save_failed"]
  /\ UNCHANGED <<jobVars, cands, cur, recoveryVars>>

\* Any call of the try block may raise without effect: a pipeline rolls its
\* target transaction back, a control-plane statement is not committed.
Raise(w) ==
  /\ pc[w] \in TryCalls
  /\ pc' = [pc EXCEPT ![w] = "save_failed"]
  /\ UNCHANGED <<leases, jobVars, cands, cur, recoveryVars>>

-----------------------------------------------------------------------------
(* The except block; it re-raises, which ends the worker process.          *)

SaveFailed(w) ==
  /\ Goto(w, "save_failed", "audit_failed")
  /\ SaveStatus(cur[w], "failed")
  /\ UNCHANGED <<leases, audits, lineage, loaded>>

AuditFailed(w) ==
  /\ Goto(w, "audit_failed", "complete_failed")
  /\ RecordEvent(cur[w], "failed")
  /\ UNCHANGED <<leases, status, lineage, loaded>>

CompleteFailed(w) ==
  /\ pc[w] = "complete_failed"
  /\ ReleaseLease(cur[w])
  /\ pc' = [pc EXCEPT ![w] = "down"]
  /\ cur' = [cur EXCEPT ![w] = NoJob]
  /\ UNCHANGED <<jobVars, cands, recoveryVars>>

\* The process is killed, or an exception leaves it outside the try block
\* (in dequeue, in the lookups, in the except block).  A lease it holds stays.
Crash(w) ==
  /\ pc[w] \notin {"poll", "down"}
  /\ pc' = [pc EXCEPT ![w] = "down"]
  /\ cands' = [cands EXCEPT ![w] = {}]
  /\ cur' = [cur EXCEPT ![w] = NoJob]
  /\ UNCHANGED <<leases, jobVars, recoveryVars>>

\* compose.yml restarts the container unless it was stopped.
Restart(w) ==
  /\ Goto(w, "down", "poll")
  /\ UNCHANGED <<leases, jobVars>>

-----------------------------------------------------------------------------
(* StaleJobRecoveryService._recover_publish_jobs.                          *)

\* list_all is read once, before the first job is examined.
ListStale(r) ==
  LET stale == {j \in Jobs : status[j] \in StaleStatus} IN
  /\ rpc[r] = "off" /\ stale # {}
  /\ rjobs' = [rjobs EXCEPT ![r] = stale]
  /\ rpc' = [rpc EXCEPT ![r] = "scan"]
  /\ UNCHANGED <<leases, jobVars, workerVars, rcur>>

NextCall(rest) == IF rest = {} THEN "off" ELSE "scan"

SkipActive(r) == \E j \in rjobs[r] :
  /\ rpc[r] = "scan" /\ HasActiveLease(j)
  /\ rjobs' = [rjobs EXCEPT ![r] = @ \ {j}]
  /\ rpc' = [rpc EXCEPT ![r] = NextCall(rjobs[r] \ {j})]
  /\ UNCHANGED <<leases, jobVars, workerVars, rcur>>

\* Fault: the recovery puts a job back without looking at its lease.
FindAny(r) == \E j \in rjobs[r] :
  /\ rpc[r] = "scan"
  /\ rjobs' = [rjobs EXCEPT ![r] = @ \ {j}]
  /\ rcur' = [rcur EXCEPT ![r] = j]
  /\ rpc' = [rpc EXCEPT ![r] = "save_pending"]
  /\ UNCHANGED <<leases, jobVars, workerVars>>

\* Fault: any row counts as a lease, whether it has expired or not.
FindRowless(r) == (\A j \in rjobs[r] : leases[j] = NoLease) /\ FindAny(r)

FindUnleased(r) == \E j \in rjobs[r] :
  /\ rpc[r] = "scan" /\ ~HasActiveLease(j)
  /\ rjobs' = [rjobs EXCEPT ![r] = @ \ {j}]
  /\ rcur' = [rcur EXCEPT ![r] = j]
  /\ rpc' = [rpc EXCEPT ![r] = "save_pending"]
  /\ UNCHANGED <<leases, jobVars, workerVars>>

\* replace(job, status=PENDING) of the listed job, whatever it has become.
SavePending(r) ==
  /\ rpc[r] = "save_pending"
  /\ SaveStatus(rcur[r], "pending")
  /\ rpc' = [rpc EXCEPT ![r] = "audit_recovered"]
  /\ UNCHANGED <<leases, audits, lineage, loaded, workerVars, rjobs, rcur>>

AuditRecovered(r) ==
  /\ rpc[r] = "audit_recovered"
  /\ rcur' = [rcur EXCEPT ![r] = NoJob]
  /\ rpc' = [rpc EXCEPT ![r] = NextCall(rjobs[r])]
  /\ UNCHANGED <<leases, jobVars, workerVars, rjobs>>

\* The one-shot process is killed or leaves by an exception.
AbortRecovery(r) ==
  /\ rpc[r] # "off"
  /\ rpc' = [rpc EXCEPT ![r] = "off"]
  /\ rjobs' = [rjobs EXCEPT ![r] = {}]
  /\ rcur' = [rcur EXCEPT ![r] = NoJob]
  /\ UNCHANGED <<leases, jobVars, workerVars>>

-----------------------------------------------------------------------------
\* With PromptWorkers no lease runs out under a live worker: the pipeline, and
\* the calls around it, are assumed to fit in lease_seconds.
Tick ==
  /\ PromptWorkers => \A w \in Workers, j \in Jobs :
                        Holds(w, j) /\ leases[j] # NoLease => leases[j].left > 1
  /\ Elapse
  /\ UNCHANGED <<jobVars, workerVars, recoveryVars>>

WorkerStep(w) ==
  \/ ListPending(w) \/ SkipLeased(w) \/ Claim(w)
  \/ Heartbeat(w) \/ SavePlanning(w) \/ AuditStarted(w) \/ Execute(w)
  \/ SaveCompleted(w) \/ RecordLineage(w) \/ AuditCompleted(w) \/ Complete(w)
  \/ Raise(w)
  \/ SaveFailed(w) \/ AuditFailed(w) \/ CompleteFailed(w)
  \/ Restart(w)

RecoveryStep(r) ==
  \/ ListStale(r) \/ SkipActive(r) \/ FindUnleased(r)
  \/ SavePending(r) \/ AuditRecovered(r)

Next ==
  \/ \E j \in Jobs : RequestJob(j)
  \/ \E w \in Workers : WorkerStep(w) \/ Crash(w)
  \/ \E r \in Recoveries : RecoveryStep(r) \/ AbortRecovery(r)
  \/ Tick

Spec == Init /\ [][Next]_vars

-----------------------------------------------------------------------------
(* Safety.                                                                 *)

\* A job is executed by one worker at a time: the lease protects it as long as
\* workers are prompt, although the release asks for no owner, the heartbeat
\* may revive an expired row and candidates are tried from an old listing.
ExclusiveExecution ==
  \A v, w \in Workers, j \in Jobs : Holds(v, j) /\ Holds(w, j) => v = w

\* The worker that executes a job holds an active lease, which is what the
\* recovery looks at before it puts the job back.
HolderIsLeased == \A w \in Workers, j \in Jobs : Holds(w, j) => HasActiveLease(j)

\* Rows never reach the target, a job is never called completed and lineage is
\* never claimed but for an execution whose start was audited and whose target
\* transaction was committed, however often the job was retried or put back.
OutcomeFollowsLoad ==
  \A j \in Jobs :
    /\ j \in loaded => <<j, "started">> \in audits
    /\ status[j] = "completed" \/ j \in lineage \/ <<j, "completed">> \in audits
         => j \in loaded

\* Once a finished job's lease has been released, its outcome is audited and,
\* when it completed, its lineage written: a job whose trail a crash cut short
\* can be told by the lease row it left behind.
ReleasedOutcomeIsRecorded ==
  \A j \in Jobs : status[j] \in {"completed", "failed"} /\ leases[j] = NoLease =>
    /\ <<j, status[j]>> \in audits
    /\ status[j] = "completed" => j \in lineage

\* An active lease never passes to another worker; it is released first.
LeaseNeverStolen ==
  [][\A j \in Jobs : HasActiveLease(j) /\ leases'[j] # NoLease
       => leases'[j].worker = leases[j].worker]_vars

\* The recovery does not put a job back that somebody has an active lease on:
\* with one worker and one recovery at a time, what its lease check saw is still
\* true when its save comes, although both are transactions of their own.
RequeueSparesActiveLease ==
  [][\A r \in Recoveries : SavePending(r) => ~HasActiveLease(rcur[r])]_vars

\* docs/runbooks/worker-recovery.md: the recovery puts back jobs left in an
\* active status ("publish planning/publishing -> pending").
RequeueOnlyActiveJobs ==
  [][\A j \in Jobs : status[j] # "absent" /\ status'[j] = "pending"
       => status[j] \in StaleStatus \cup {"pending"}]_vars

\* docs/architecture/components.md: audit and lineage are mandatory in every
\* execution.  So a job that is over and has put rows in the target has its
\* lineage, at the latest when no worker holds it any more.
LineageOfEveryExecution ==
  \A j \in loaded : status[j] \in {"completed", "failed"} =>
    j \in lineage \/ \E w \in Workers : Holds(w, j)

-----------------------------------------------------------------------------
(* Liveness.  Worker processes keep polling and are restarted when they    *)
(* end, time passes, and the recovery, a one-shot process, is started      *)
(* again and again.                                                        *)

FairSpec ==
  /\ Spec
  /\ WF_vars(Tick)
  /\ \A w \in Workers : WF_vars(WorkerStep(w))
  /\ \A r \in Recoveries : WF_vars(RecoveryStep(r))

\* From some time on no process is cut short (its last step looks like a failure
\* that comes too late to prevent anything).
FailuresEnd ==
  <>[][/\ \A w \in Workers : Crash(w) => CompleteFailed(w)
       /\ \A r \in Recoveries : AbortRecovery(r) => SkipActive(r) \/ AuditRecovered(r)]_vars

RecoveriesEnd == <>[][\A r \in Recoveries : ~ListStale(r)]_vars

\* A job that a dead worker left in PLANNING does not stay there: its lease runs
\* out, whoever wrote it, and a recovery that is not cut short finds the job.
NoJobStranded ==
  FailuresEnd => \A j \in Jobs : status[j] = "planning" ~> status[j] # "planning"

\* Once no recovery interferes either, every job in the queue comes to an end:
\* neither the order by created_at nor the lease of a dead worker starves it.
NoJobStarves ==
  FailuresEnd /\ RecoveriesEnd =>
    \A j \in Jobs : status[j] = "pending" ~> status[j] \in {"completed", "failed"}
=============================================================================
