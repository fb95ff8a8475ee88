---------------------------- MODULE JobQueueProofs ----------------------------
(* What the queue, the frame of the workers and the recovery leave well    *)
(* typed, for any number of jobs, workers and recoveries.  The proofs      *)
(* about the worker modules build on it.                                   *)
EXTENDS JobQueue, TLAPS

-----------------------------------------------------------------------------
(* The statements on the table of leases.                                  *)

LEMMA AcquireKeepsLeases ==
  ASSUME LeasesOK, NEW j \in Jobs, NEW id \in WorkerIds, AcquireLease(j, id)
  PROVE  LeasesOK'
BY LeaseAssumption DEF LeasesOK, AcquireLease, FreshLease, LeaseRow

LEMMA HeartbeatKeepsLeases ==
  ASSUME LeasesOK, NEW j \in Jobs, NEW id \in WorkerIds, HeartbeatLease(j, id)
  PROVE  LeasesOK'
BY LeaseAssumption DEF LeasesOK, HeartbeatLease, FreshLease, LeaseRow

LEMMA ReleaseKeepsLeases ==
  ASSUME LeasesOK, NEW j \in Jobs, ReleaseLease(j)
  PROVE  LeasesOK'
BY DEF LeasesOK, ReleaseLease

LEMMA ElapseKeepsLeases ==
  ASSUME LeasesOK, Elapse
  PROVE  LeasesOK'
<1>1. ASSUME NEW j \in Jobs, HasActiveLease(j)
      PROVE  [leases[j] EXCEPT !.left = @ - 1] \in LeaseRow
  <2>1. leases[j] \in LeaseRow /\ leases[j].left > 0
    BY <1>1 DEF LeasesOK, HasActiveLease
  <2> QED BY <2>1, LeaseAssumption DEF LeaseRow
<1> QED BY <1>1 DEF LeasesOK, Elapse

-----------------------------------------------------------------------------
(* The queue.  QueueOK does not say that its variables are functions.      *)

Idle == {"poll", "claim", "down"}

QueueTypes ==
  /\ QueueOK
  /\ status \in [Jobs -> {"absent", "pending", "requested", "publishing", "running"} \cup Ended]
  /\ cands \in [Workers -> SUBSET Jobs]
  /\ cur \in [Workers -> Jobs \cup {NoJob}]

QueueCalls == BeforeTry \cup FrameCalls \cup ExceptCalls \cup {"down"}

LEMMA StatusesOfJob ==
  ASSUME NEW j \in Jobs
  PROVE  /\ KindOf[j] \in Kinds /\ j # NoJob
         /\ {Queued(j), Active(j), "completed", "failed"} \subseteq StatusOf(j)
         /\ StatusOf(j) \subseteq {"absent", "pending", "requested", "publishing", "running"} \cup Ended
         /\ Queued(j) \notin {"absent"} \cup Ended /\ Active(j) \notin {"absent"} \cup Ended
BY QueueAssumption DEF Queued, Active, StatusOf, Ended, Kinds

LEMMA QueueInitTypes == QueueInit => QueueTypes
BY LeaseAssumption, QueueAssumption
DEF QueueInit, QueueTypes, QueueOK, LeasesOK, NoLeases, StatusOf, Ended

LEMMA AddTypes ==
  ASSUME QueueTypes, NEW j \in Jobs, AddJob(j)
  PROVE  QueueTypes'
BY StatusesOfJob
DEF AddJob, SaveStatus, QueueTypes, QueueOK, LeasesOK, workerVars, recoveryVars, StatusOf, Queued, Active

\* A call of the worker's own between claim and release.
LEMMA GotoTypes ==
  ASSUME QueueTypes, NEW Calls, pc \in [Workers -> Calls], NEW w \in Workers, NEW from, NEW to \in Calls,
         from \notin Idle, to \notin Idle, WorkerGoto(w, from, to)
  PROVE  QueueTypes' /\ pc' \in [Workers -> Calls]
BY DEF WorkerGoto, Goto, QueueTypes, QueueOK, LeasesOK, StatusOf, Queued, Active, recoveryVars, Idle

LEMMA FrameTypes ==
  ASSUME QueueTypes, NEW Calls, pc \in [Workers -> Calls], QueueCalls \subseteq Calls,
         NEW w \in Workers, FrameStep(w) \/ Complete(w) \/ Raise(w) \/ Crash(w)
  PROVE  QueueTypes' /\ pc' \in [Workers -> Calls]
<1>1. /\ WorkerId[w] \in WorkerIds /\ pc[w] \in Calls
      /\ {"poll", "claim", "lookup", "heartbeat", "save_active", "work", "save_completed", "record",
          "complete", "save_failed", "complete_failed", "down"} \subseteq Calls
      /\ LeasesOK
  BY QueueAssumption DEF QueueCalls, BeforeTry, FrameCalls, ExceptCalls, QueueTypes, QueueOK
<1> USE <1>1 DEF QueueTypes, QueueOK, StatusOf, Queued, Active, workerVars, recoveryVars
<1>2. CASE ListQueued(w)
  BY <1>2 DEF ListQueued, LeasesOK
<1>3. CASE SkipLeased(w)
  BY <1>3 DEF SkipLeased, NextCandidate, LeasesOK
<1>4. CASE Claim(w)
  <2>1. PICK j \in Jobs : NextCandidate(w, j) /\ AcquireLease(j, WorkerId[w])
                          /\ cands' = [cands EXCEPT ![w] = {}] /\ cur' = [cur EXCEPT ![w] = j]
                          /\ pc' = [pc EXCEPT ![w] = "lookup"] /\ UNCHANGED <<status, recoveryVars>>
    BY <1>4 DEF Claim
  <2>2. LeasesOK'
    BY <2>1, AcquireKeepsLeases
  <2> QED BY <2>1, <2>2, StatusesOfJob
<1>5. ASSUME NEW from, NEW to \in Calls, Goto(w, from, to), from \notin Idle, to \notin Idle
      PROVE  /\ cur[w] \in Jobs /\ UNCHANGED <<cands, cur, rjobs, rcur>>
             /\ pc' \in [Workers -> Calls]
             /\ \A v \in Workers : pc'[v] \in Idle <=> pc[v] \in Idle
  BY <1>5 DEF Goto, Idle
<1>6. CASE Heartbeat(w)
  <2>1. LeasesOK'
    BY <1>5, <1>6, HeartbeatKeepsLeases DEF Heartbeat, Idle
  <2> QED BY <1>5, <1>6, <2>1 DEF Heartbeat, Idle
<1>7. ASSUME SaveActive(w) \/ SaveCompleted(w) \/ SaveFailed(w)
      PROVE  QueueTypes' /\ pc' \in [Workers -> Calls]
  <2>1. /\ cur[w] \in Jobs /\ UNCHANGED <<leases, cands, cur, rjobs, rcur>>
        /\ pc' \in [Workers -> Calls] /\ \A v \in Workers : pc'[v] \in Idle <=> pc[v] \in Idle
    BY <1>5, <1>7 DEF SaveActive, SaveCompleted, SaveFailed, Idle
  <2>2. \E s \in {Active(cur[w]), "completed", "failed"} : status' = [status EXCEPT ![cur[w]] = s]
    BY <1>7 DEF SaveActive, SaveCompleted, SaveFailed, SaveStatus
  <2> QED BY <2>1, <2>2, StatusesOfJob DEF LeasesOK, Idle
<1>8. CASE RecordOutcome(w)
  BY <1>8, GotoTypes DEF RecordOutcome, Idle
<1>9. CASE Restart(w)
  BY <1>9 DEF Restart, WorkerGoto, Goto, LeasesOK
<1>10. CASE CompleteFailed(w) \/ Complete(w)
  <2>1. cur[w] \in Jobs
    BY <1>10 DEF CompleteFailed, Complete, Release
  <2>2. LeasesOK'
    BY <1>10, <2>1, ReleaseKeepsLeases DEF CompleteFailed, Complete, Release
  <2> QED BY <1>10, <2>2 DEF CompleteFailed, Complete, Release
<1>11. CASE Raise(w)
  BY <1>11 DEF Raise, InTry, BeforeTry, ExceptCalls, LeasesOK
<1>12. CASE Crash(w)
  BY <1>12 DEF Crash, LeasesOK
<1> QED BY <1>2, <1>3, <1>4, <1>6, <1>7, <1>8, <1>9, <1>10, <1>11, <1>12 DEF FrameStep

LEMMA RecoveryTypes ==
  ASSUME QueueTypes, Tick \/ \E r \in Recoveries : RecoveryStep(r) \/ AbortRecovery(r)
  PROVE  QueueTypes' /\ UNCHANGED pc
<1> USE DEF QueueTypes, QueueOK, StatusOf, Queued, Active, workerVars, recoveryVars
<1>1. CASE Tick
  BY <1>1, ElapseKeepsLeases DEF Tick
<1>2. ASSUME NEW r \in Recoveries, ListStale(r)
      PROVE  QueueTypes' /\ UNCHANGED pc
  BY <1>2 DEF ListStale, LeasesOK
<1>3. ASSUME NEW r \in Recoveries, SkipActive(r) \/ FindUnleased(r) \/ AbortRecovery(r)
      PROVE  QueueTypes' /\ UNCHANGED pc
  BY <1>3 DEF SkipActive, FindUnleased, AbortRecovery, LeasesOK
<1>4. ASSUME NEW r \in Recoveries, SaveQueued(r)
      PROVE  QueueTypes' /\ UNCHANGED pc
  BY <1>4, StatusesOfJob DEF SaveQueued, SaveStatus, LeasesOK
<1> QED BY <1>1, <1>2, <1>3, <1>4 DEF RecoveryStep
=============================================================================
