------------------------------ MODULE JobQueue ------------------------------
(***************************************************************************)
(* What the extraction, artifact publish and baseline refresh jobs have in *)
(* common: a LeasedPollingQueue per kind, the frame of process_next_job    *)
(* that the three workers share, and the recovery of stale jobs.  A worker *)
(* module adds what happens between the call "work" and "save_completed".  *)
(*                                                                         *)
(* The audit events are left out: no property of these jobs reads them.    *)
(***************************************************************************)
EXTENDS JobLeases

CONSTANTS
  Workers,        \* the worker processes
  Recoveries,     \* runs of the stale job recovery that may overlap
  WorkerId,       \* the id each worker was started with
  Serves,         \* the kind of jobs each worker takes
  KindOf,         \* the kind of each job
  PromptWorkers,  \* TRUE: a live worker releases a job before its lease ends
  NoJob           \* "None"

Kinds == {"extraction", "artifact_publish", "baseline_refresh"}

ASSUME QueueAssumption ==
  /\ WorkerId \in [Workers -> WorkerIds]
  /\ Serves \in [Workers -> Kinds]
  /\ KindOf \in [Jobs -> Kinds]
  /\ PromptWorkers \in BOOLEAN
  /\ NoJob \notin Jobs

VARIABLES
  status,   \* the status of each job's record
  pc,       \* worker: its next call
  cands,    \* worker: the candidates it listed and has not tried yet
  cur,      \* worker: the job it claimed
  rjobs,    \* recovery: the active jobs of its listing still to examine
  rcur      \* recovery: the job it is putting back

workerVars == <<pc, cands, cur>>
recoveryVars == <<rjobs, rcur>>
queueVars == <<leases, status, workerVars, recoveryVars>>

-----------------------------------------------------------------------------
(* Each kind has a status in which jobs are queued and one in which they   *)
(* are being executed.                                                     *)

Queued(j) == IF KindOf[j] = "artifact_publish" THEN "pending" ELSE "requested"

Active(j) == IF KindOf[j] = "artifact_publish" THEN "publishing" ELSE "running"

Ended == {"completed", "failed"}

StatusOf(j) == {"absent", Queued(j), Active(j)} \cup Ended

\* Calls before the try block; from "heartbeat" to "complete" it may raise.
BeforeTry == {"poll", "claim", "lookup"}

ExceptCalls == {"save_failed", "complete_failed"}

FrameCalls == {"heartbeat", "save_active", "work", "save_completed", "record", "complete"}

\* From claim to release a worker works on its current job.
Holds(w, j) == pc[w] \notin {"poll", "claim", "down"} /\ cur[w] = j

InTry(w) == pc[w] \notin BeforeTry \cup ExceptCalls \cup {"down"}

QueueOK ==
  /\ LeasesOK
  /\ \A j \in Jobs : status[j] \in StatusOf(j)
  /\ \A w \in Workers : /\ cands[w] \subseteq {j \in Jobs : KindOf[j] = Serves[w]}
                        /\ cur[w] \in Jobs \cup {NoJob}
                        /\ cur[w] = NoJob <=> pc[w] \in {"poll", "claim", "down"}
  /\ rjobs \in [Recoveries -> SUBSET Jobs]
  /\ rcur \in [Recoveries -> Jobs \cup {NoJob}]

QueueInit ==
  /\ leases = NoLeases
  /\ status = [j \in Jobs |-> "absent"]
  /\ pc = [w \in Workers |-> "poll"]
  /\ cands = [w \in Workers |-> {}]
  /\ cur = [w \in Workers |-> NoJob]
  /\ rjobs = [r \in Recoveries |-> {}]
  /\ rcur = [r \in Recoveries |-> NoJob]

SaveStatus(j, s) == status' = [status EXCEPT ![j] = s]

\* The insertion of a job's record by the service that creates it.
AddJob(j) ==
  /\ status[j] = "absent"
  /\ SaveStatus(j, Queued(j))
  /\ UNCHANGED <<leases, workerVars, recoveryVars>>

-----------------------------------------------------------------------------
(* LeasedPollingQueue.dequeue, over the jobs of the worker's kind.         *)

ListQueued(w) ==
  LET queued == {j \in Jobs : KindOf[j] = Serves[w] /\ status[j] = Queued(j)} IN
  /\ pc[w] = "poll" /\ queued # {}
  /\ cands' = [cands EXCEPT ![w] = queued]
  /\ pc' = [pc EXCEPT ![w] = "claim"]
  /\ UNCHANGED <<leases, status, cur, recoveryVars>>

\* The candidates are tried by created_at, as they were when listed.
NextCandidate(w, j) ==
  /\ pc[w] = "claim" /\ j \in cands[w]
  /\ \A k \in cands[w] : j <= k

SkipLeased(w) == \E j \in Jobs :
  /\ NextCandidate(w, j) /\ HasActiveLease(j)
  /\ cands' = [cands EXCEPT ![w] = @ \ {j}]
  /\ pc' = [pc EXCEPT ![w] = IF cands[w] = {j} THEN "poll" ELSE @]
  /\ UNCHANGED <<leases, status, cur, recoveryVars>>

Claim(w) == \E j \in Jobs :
  /\ NextCandidate(w, j) /\ AcquireLease(j, WorkerId[w])
  /\ cands' = [cands EXCEPT ![w] = {}]
  /\ cur' = [cur EXCEPT ![w] = j]
  /\ pc' = [pc EXCEPT ![w] = "lookup"]
  /\ UNCHANGED <<status, recoveryVars>>

-----------------------------------------------------------------------------
(* The frame of process_next_job.                                          *)

Goto(w, from, to) ==
  /\ pc[w] = from
  /\ pc' = [pc EXCEPT ![w] = to]
  /\ UNCHANGED <<cands, cur, recoveryVars>>

\* A step of the worker that leaves the control plane's jobs alone.
WorkerGoto(w, from, to) == Goto(w, from, to) /\ UNCHANGED <<leases, status>>

Heartbeat(w) ==
  /\ Goto(w, "heartbeat", "save_active")
  /\ HeartbeatLease(cur[w], WorkerId[w])
  /\ UNCHANGED status

SaveActive(w) ==
  /\ Goto(w, "save_active", "work")
  /\ SaveStatus(cur[w], Active(cur[w]))
  /\ UNCHANGED leases

SaveCompleted(w) ==
  /\ Goto(w, "save_completed", "record")
  /\ SaveStatus(cur[w], "completed")
  /\ UNCHANGED leases

\* Lineage and audit event; if they raise, the completed job becomes FAILED.
RecordOutcome(w) == WorkerGoto(w, "record", "complete")

Release(w, from, to) ==
  /\ pc[w] = from
  /\ ReleaseLease(cur[w])
  /\ pc' = [pc EXCEPT ![w] = to]
  /\ cur' = [cur EXCEPT ![w] = NoJob]
  /\ UNCHANGED <<status, cands, recoveryVars>>

Complete(w) == Release(w, "complete", "poll")

Raise(w) ==
  /\ InTry(w)
  /\ pc' = [pc EXCEPT ![w] = "save_failed"]
  /\ UNCHANGED <<leases, status, cands, cur, recoveryVars>>

SaveFailed(w) ==
  /\ Goto(w, "save_failed", "complete_failed")
  /\ SaveStatus(cur[w], "failed")
  /\ UNCHANGED leases

\* The exception is raised again, which ends the process.
CompleteFailed(w) == Release(w, "complete_failed", "down")

\* The process ends and keeps the lease it holds: it is killed, or an exception
\* leaves it outside the try block.
Crash(w) ==
  /\ pc[w] \notin {"poll", "down"}
  /\ pc' = [pc EXCEPT ![w] = "down"]
  /\ cands' = [cands EXCEPT ![w] = {}]
  /\ cur' = [cur EXCEPT ![w] = NoJob]
  /\ UNCHANGED <<leases, status, recoveryVars>>

Restart(w) == WorkerGoto(w, "down", "poll")

FrameStep(w) ==
  \/ ListQueued(w) \/ SkipLeased(w) \/ Claim(w)
  \/ Heartbeat(w) \/ SaveActive(w) \/ SaveCompleted(w) \/ RecordOutcome(w)
  \/ SaveFailed(w) \/ CompleteFailed(w) \/ Restart(w)

-----------------------------------------------------------------------------
(* StaleJobRecoveryService: for one kind after the other, the listing, the *)
(* lease check and the save of the job as it was listed.                   *)

ListStale(r) == \E kind \in Kinds :
  LET stale == {j \in Jobs : KindOf[j] = kind /\ status[j] = Active(j)} IN
  /\ rjobs[r] = {} /\ rcur[r] = NoJob /\ stale # {}
  /\ rjobs' = [rjobs EXCEPT ![r] = stale]
  /\ UNCHANGED <<leases, status, workerVars, rcur>>

SkipActive(r) == \E j \in rjobs[r] :
  /\ rcur[r] = NoJob /\ HasActiveLease(j)
  /\ rjobs' = [rjobs EXCEPT ![r] = @ \ {j}]
  /\ UNCHANGED <<leases, status, workerVars, rcur>>

FindUnleased(r) == \E j \in rjobs[r] :
  /\ rcur[r] = NoJob /\ ~HasActiveLease(j)
  /\ rjobs' = [rjobs EXCEPT ![r] = @ \ {j}]
  /\ rcur' = [rcur EXCEPT ![r] = j]
  /\ UNCHANGED <<leases, status, workerVars>>

SaveQueued(r) ==
  /\ rcur[r] # NoJob
  /\ SaveStatus(rcur[r], Queued(rcur[r]))
  /\ rcur' = [rcur EXCEPT ![r] = NoJob]
  /\ UNCHANGED <<leases, workerVars, rjobs>>

\* The one-shot process is killed or leaves by an exception.
AbortRecovery(r) ==
  /\ rjobs[r] # {} \/ rcur[r] # NoJob
  /\ rjobs' = [rjobs EXCEPT ![r] = {}]
  /\ rcur' = [rcur EXCEPT ![r] = NoJob]
  /\ UNCHANGED <<leases, status, workerVars>>

RecoveryStep(r) == ListStale(r) \/ SkipActive(r) \/ FindUnleased(r) \/ SaveQueued(r)

-----------------------------------------------------------------------------
\* With PromptWorkers no lease runs out under a live worker.
Tick ==
  /\ PromptWorkers => \A w \in Workers, j \in Jobs :
                        Holds(w, j) /\ leases[j] # NoLease => leases[j].left > 1
  /\ Elapse
  /\ UNCHANGED <<status, workerVars, recoveryVars>>
=============================================================================
