--------------------------- MODULE RefreshSchedule ---------------------------
(***************************************************************************)
(* Refresh schedules and their dispatch: a one-shot process lists what is  *)
(* due and, for each schedule, looks for a pending job, creates one, and   *)
(* saves the schedule with its next run, three transactions.               *)
(*                                                                         *)
(* A scheduled job is reduced to what the dispatch sees of it, its status; *)
(* BaselineRefresh says how it changes.  Leases are left out, so that the  *)
(* recovery may find any job it has listed without one.  The record of a   *)
(* job that is over and that no recovery has listed stands for nothing any *)
(* more, and is used for the next job.                                     *)
(***************************************************************************)
EXTENDS Naturals, FiniteSets

CONSTANTS
  Schedules,    \* the refresh schedules
  Jobs,         \* records for scheduled jobs
  Dispatchers,  \* runs of the dispatch that may overlap
  Recoveries,   \* runs of the stale job recovery that may overlap
  NoSchedule

ASSUME ScheduleAssumption ==
  /\ NoSchedule \notin Schedules
  /\ IsFiniteSet(Jobs) /\ IsFiniteSet(Dispatchers)

VARIABLES
  enabled,       \* schedules that have been created; nothing disables them
  dueSchedules,  \* schedules whose next_run_at has come
  status,        \* the status of each job
  origin,        \* the schedule each job was created for
  toDispatch,    \* dispatcher: due schedules of its listing still to look at
  chosen,        \* dispatcher: the schedule it found without a pending job
  created,       \* dispatcher: whether it has created the job
  rjobs,         \* recovery: the running jobs of its listing still to examine
  revived        \* pending jobs that were put back when they were over (no part
                 \* of the records)

jobVars == <<status, origin, rjobs, revived>>
dispatchVars == <<toDispatch, chosen, created>>
scheduleVars == <<enabled, dueSchedules, jobVars, dispatchVars>>

Pending == {"requested", "running"}

ScheduleOK ==
  /\ enabled \in SUBSET Schedules
  /\ dueSchedules \in SUBSET enabled
  /\ status \in [Jobs -> Pending \cup {"over"}]
  /\ origin \in [Jobs -> Schedules \cup {NoSchedule}]
  /\ toDispatch \in [Dispatchers -> SUBSET Schedules]
  /\ chosen \in [Dispatchers -> Schedules \cup {NoSchedule}]
  /\ created \in [Dispatchers -> BOOLEAN]
  /\ rjobs \in [Recoveries -> SUBSET Jobs]
  /\ revived \in SUBSET {j \in Jobs : status[j] \in Pending}
  /\ \A j \in Jobs : status[j] # "over" => origin[j] # NoSchedule
  /\ \A d \in Dispatchers : created[d] => chosen[d] # NoSchedule

ScheduleInit ==
  /\ enabled = {} /\ dueSchedules = {}
  /\ status = [j \in Jobs |-> "over"]
  /\ origin = [j \in Jobs |-> NoSchedule]
  /\ toDispatch = [d \in Dispatchers |-> {}]
  /\ chosen = [d \in Dispatchers |-> NoSchedule]
  /\ created = [d \in Dispatchers |-> FALSE]
  /\ rjobs = [r \in Recoveries |-> {}]
  /\ revived = {}

PendingJobs(s) == {j \in Jobs : origin[j] = s /\ status[j] \in Pending}

\* No recovery may still save the record.
FreeJobs == {j \in Jobs : status[j] = "over" /\ \A r \in Recoveries : j \notin rjobs[r]}

\* A new id: which of the free records stands for it makes no difference.
NewJob == CHOOSE j \in FreeJobs : TRUE

-----------------------------------------------------------------------------
\* RefreshScheduleService.create_schedule: the first run is due at once.
CreateSchedule(s) ==
  /\ s \notin enabled
  /\ enabled' = enabled \cup {s}
  /\ dueSchedules' = dueSchedules \cup {s}
  /\ UNCHANGED <<jobVars, dispatchVars>>

\* The clock reaches next_run_at.
ScheduleComesDue(s) ==
  /\ s \in enabled \ dueSchedules
  /\ dueSchedules' = dueSchedules \cup {s}
  /\ UNCHANGED <<enabled, jobVars, dispatchVars>>

-----------------------------------------------------------------------------
(* The life of a job between its worker and the recovery.                  *)

SaveJob(j, s) ==
  /\ status' = [status EXCEPT ![j] = s]
  /\ UNCHANGED <<enabled, dueSchedules, origin, dispatchVars>>

StartJob(j) == status[j] = "requested" /\ SaveJob(j, "running") /\ UNCHANGED <<rjobs, revived>>

\* COMPLETED, or FAILED, which a job can be before it is RUNNING.
EndJob(j) ==
  /\ status[j] \in Pending
  /\ SaveJob(j, "over")
  /\ revived' = revived \ {j}
  /\ UNCHANGED rjobs

\* _recover_baseline_refresh_jobs: list_all, once for all the jobs it examines.
ListRunning(r) ==
  LET running == {j \in Jobs : status[j] = "running"} IN
  /\ rjobs[r] = {} /\ running # {}
  /\ rjobs' = [rjobs EXCEPT ![r] = running]
  /\ UNCHANGED <<enabled, dueSchedules, status, origin, revived, dispatchVars>>

\* The job has a lease.
SkipLeased(r) == \E j \in rjobs[r] :
  /\ rjobs' = [rjobs EXCEPT ![r] = @ \ {j}]
  /\ UNCHANGED <<enabled, dueSchedules, status, origin, revived, dispatchVars>>

\* The copy that was listed is saved, whatever has become of the job since.
PutBack(r) == \E j \in rjobs[r] :
  /\ SaveJob(j, "requested")
  /\ rjobs' = [rjobs EXCEPT ![r] = @ \ {j}]
  /\ revived' = IF status[j] = "over" THEN revived \cup {j} ELSE revived

AbortRecovery(r) ==
  /\ rjobs[r] # {}
  /\ rjobs' = [rjobs EXCEPT ![r] = {}]
  /\ UNCHANGED <<enabled, dueSchedules, status, origin, revived, dispatchVars>>

-----------------------------------------------------------------------------
(* RefreshScheduleDispatchService.dispatch_due_schedules.                  *)

ListDueSchedules(d) ==
  /\ toDispatch[d] = {} /\ chosen[d] = NoSchedule /\ dueSchedules # {}
  /\ toDispatch' = [toDispatch EXCEPT ![d] = dueSchedules]
  /\ UNCHANGED <<enabled, dueSchedules, jobVars, chosen, created>>

SkipPending(d) == \E s \in toDispatch[d] :
  /\ chosen[d] = NoSchedule /\ PendingJobs(s) # {}
  /\ toDispatch' = [toDispatch EXCEPT ![d] = @ \ {s}]
  /\ UNCHANGED <<enabled, dueSchedules, jobVars, chosen, created>>

\* Fault: a job that is being executed does not count as pending.
FindNotQueued(d) == \E s \in toDispatch[d] :
  /\ chosen[d] = NoSchedule /\ \A j \in PendingJobs(s) : status[j] = "running"
  /\ toDispatch' = [toDispatch EXCEPT ![d] = @ \ {s}]
  /\ chosen' = [chosen EXCEPT ![d] = s]
  /\ UNCHANGED <<enabled, dueSchedules, jobVars, created>>

\* _has_pending_job found none.
FindIdle(d) == \E s \in toDispatch[d] :
  /\ chosen[d] = NoSchedule /\ PendingJobs(s) = {}
  /\ toDispatch' = [toDispatch EXCEPT ![d] = @ \ {s}]
  /\ chosen' = [chosen EXCEPT ![d] = s]
  /\ UNCHANGED <<enabled, dueSchedules, jobVars, created>>

\* Fault: the job is created without the id of its schedule.
CreateUnknownJob(d) ==
  /\ chosen[d] # NoSchedule /\ ~created[d] /\ FreeJobs # {}
  /\ status' = [status EXCEPT ![NewJob] = "requested"]
  /\ origin' = [origin EXCEPT ![NewJob] = NoSchedule]
  /\ created' = [created EXCEPT ![d] = TRUE]
  /\ UNCHANGED <<enabled, dueSchedules, rjobs, revived, toDispatch, chosen>>

\* BaselineRefreshRequestService.create_job for the schedule.
CreateJob(d) ==
  /\ chosen[d] # NoSchedule /\ ~created[d] /\ FreeJobs # {}
  /\ status' = [status EXCEPT ![NewJob] = "requested"]
  /\ origin' = [origin EXCEPT ![NewJob] = chosen[d]]
  /\ created' = [created EXCEPT ![d] = TRUE]
  /\ UNCHANGED <<enabled, dueSchedules, rjobs, revived, toDispatch, chosen>>

EndSchedule(d) ==
  /\ chosen' = [chosen EXCEPT ![d] = NoSchedule]
  /\ created' = [created EXCEPT ![d] = FALSE]

\* Fault: the next run is an interval after the run that was due, which may
\* have come as well.
MarkPreviousRun(d) ==
  /\ created[d]
  /\ dueSchedules' \in {dueSchedules, dueSchedules \ {chosen[d]}}
  /\ EndSchedule(d)
  /\ UNCHANGED <<enabled, jobVars, toDispatch>>

\* save(mark_dispatched(now)): the next run is an interval after the listing.
MarkDispatched(d) ==
  /\ created[d]
  /\ dueSchedules' = dueSchedules \ {chosen[d]}
  /\ EndSchedule(d)
  /\ UNCHANGED <<enabled, jobVars, toDispatch>>

\* The process is killed, or create_job or a statement raises.
AbortDispatch(d) ==
  /\ toDispatch[d] # {} \/ chosen[d] # NoSchedule
  /\ toDispatch' = [toDispatch EXCEPT ![d] = {}]
  /\ EndSchedule(d)
  /\ UNCHANGED <<enabled, dueSchedules, jobVars>>

DispatchStep(d) ==
  \/ ListDueSchedules(d) \/ SkipPending(d) \/ FindIdle(d)
  \/ CreateJob(d) \/ MarkDispatched(d)

ScheduleNext ==
  \/ \E s \in Schedules : CreateSchedule(s) \/ ScheduleComesDue(s)
  \/ \E j \in Jobs : StartJob(j) \/ EndJob(j)
  \/ \E r \in Recoveries : ListRunning(r) \/ SkipLeased(r) \/ PutBack(r) \/ AbortRecovery(r)
  \/ \E d \in Dispatchers : DispatchStep(d) \/ AbortDispatch(d)

ScheduleSpec == ScheduleInit /\ [][ScheduleNext]_scheduleVars

-----------------------------------------------------------------------------
(* Safety.                                                                 *)

\* The dispatch does not pile up the jobs of a schedule whose refreshes take
\* longer than its interval: of those that no recovery has put back after they
\* were over there are never more than runs of the dispatch overlap, whatever
\* crashes between the three transactions and however often running jobs are
\* put back.  (Jobs put back when they were over are not bounded: each listing
\* may bring back all the schedule's jobs, and the dispatch add one.)
PendingBounded ==
  \A s \in Schedules : Cardinality(PendingJobs(s) \ revived) <= Cardinality(Dispatchers)

-----------------------------------------------------------------------------
(* Liveness.  The dispatch is started again and again, and jobs end        *)
(* (BaselineRefresh has the workers and the recovery that see to it).      *)

ScheduleFairness ==
  /\ \A d \in Dispatchers : WF_scheduleVars(DispatchStep(d))
  /\ \A r \in Recoveries : WF_scheduleVars(SkipLeased(r) \/ PutBack(r))
  /\ \A j \in Jobs : WF_scheduleVars(EndJob(j))

\* From some time on no run of the dispatch fails, and no job is put back
\* (the last step of a run and its end by failure may look the same).
DispatchFailuresEnd ==
  <>[][/\ \A d \in Dispatchers : AbortDispatch(d) => DispatchStep(d)
       /\ \A r \in Recoveries : PutBack(r) => SkipLeased(r)]_scheduleVars

\* A run that is due is dispatched, whatever was left half done: a job created
\* by a run that died counts as pending only until it is over.
DueIsDispatched == DispatchFailuresEnd => \A s \in Schedules : s \in dueSchedules ~> s \notin dueSchedules
=============================================================================
