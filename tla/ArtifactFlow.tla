---------------------------- MODULE ArtifactFlow ----------------------------
(***************************************************************************)
(* Extraction jobs, the artifacts they yield, and the jobs that publish    *)
(* them: the workers and queues of JobQueue composed with the retention    *)
(* and cleanup of ArtifactLifecycle, which they share records with.        *)
(***************************************************************************)
EXTENDS JobQueue

CONSTANTS
  Artifacts, NoArtifact,
  Retentions,  \* runs of the retention worker that may overlap
  Cleanups     \* runs of the cleanup worker that may overlap

Publishers == {w \in Workers : Serves[w] = "artifact_publish"}
Extractors == {w \in Workers : Serves[w] = "extraction"}

\* Callers of evaluate_availability; ArtifactLifecycle has the others.
Callers == Publishers

ASSUME FlowAssumption ==
  /\ NoArtifact \notin Artifacts
  /\ Workers = Publishers \cup Extractors
  /\ \A v, w \in Extractors : v = w  \* the container of extractions has no replicas

VARIABLES
  files, record, due, extracting, looked, found, listed, expired, removing,
  maker,   \* the job_id of each artifact's record
  wanted,  \* the artifact each publish job is to load
  loaded   \* publish jobs whose rows are committed in the target

Life == INSTANCE ArtifactLifecycle

lifeVars == <<files, record, due, extracting, looked, found, listed, expired, removing>>
deliveryVars == <<maker, wanted, loaded>>
vars == <<queueVars, lifeVars, deliveryVars>>

FlowCalls == BeforeTry \cup FrameCalls \cup ExceptCalls \cup {"down", "record_artifact", "load"}

TypeOK ==
  /\ QueueOK
  /\ pc \in [Workers -> FlowCalls]
  /\ Life!TypeOK
  /\ maker \in [Artifacts -> Jobs \cup {NoJob}]
  /\ wanted \in [Jobs -> Artifacts \cup {NoArtifact}]
  /\ loaded \in SUBSET Jobs

Init ==
  /\ QueueInit
  /\ Life!Init
  /\ maker = [a \in Artifacts |-> NoJob]
  /\ wanted = [j \in Jobs |-> NoArtifact]
  /\ loaded = {}

-----------------------------------------------------------------------------
(* ExtractionWorker.                                                       *)

RequestExtraction(j) ==
  /\ KindOf[j] = "extraction" /\ AddJob(j)
  /\ UNCHANGED <<lifeVars, deliveryVars>>

FindJob(w) ==
  /\ w \in Extractors /\ WorkerGoto(w, "lookup", "heartbeat")
  /\ UNCHANGED <<lifeVars, deliveryVars>>

Extract(w) ==
  /\ w \in Extractors /\ WorkerGoto(w, "work", "record_artifact")
  /\ \E a \in Artifacts : Life!Materialize(a)
  /\ UNCHANGED deliveryVars

RecordArtifact(w) ==
  /\ WorkerGoto(w, "record_artifact", "save_completed")
  /\ maker' = [maker EXCEPT ![extracting] = cur[w]]
  /\ Life!RecordArtifact
  /\ UNCHANGED <<wanted, loaded>>

-----------------------------------------------------------------------------
(* ArtifactPublishRequestService.create_job.                               *)

\* The artifact was available when the request looked it up; when the job is
\* added it may be no longer.
RequestPublish(j) ==
  /\ KindOf[j] = "artifact_publish"
  /\ \E a \in Artifacts : record[a] # "none" /\ wanted' = [wanted EXCEPT ![j] = a]
  /\ AddJob(j)
  /\ UNCHANGED <<lifeVars, maker, loaded>>

-----------------------------------------------------------------------------
(* ArtifactPublishWorker.                                                  *)

\* Fault: the status decides alone, the clock is not asked.
AvailableByStatus(w) == found[w] = "available"

\* What evaluate_availability decides from the record it was given.
Available(w) == found[w] = "available" /\ looked[w] \notin due

LookUpWanted(w) ==
  /\ w \in Publishers /\ WorkerGoto(w, "lookup", "lookup")
  /\ Life!LookUp(w, wanted[cur[w]])
  /\ UNCHANGED deliveryVars

Accept(w) ==
  /\ w \in Publishers /\ looked[w] # NoArtifact /\ Available(w)
  /\ Life!EvaluateAvailability(w)
  /\ WorkerGoto(w, "lookup", "heartbeat")
  /\ UNCHANGED deliveryVars

\* Fault: the lease is released on the way out.
RejectAndRelease(w) ==
  /\ w \in Publishers /\ looked[w] # NoArtifact /\ ~Available(w)
  /\ Life!EvaluateAvailability(w)
  /\ Release(w, "lookup", "down")
  /\ UNCHANGED deliveryVars

\* DomainError outside the try block: the process ends, the job stays PENDING
\* under its lease.
Reject(w) ==
  /\ w \in Publishers /\ looked[w] # NoArtifact /\ ~Available(w)
  /\ Life!EvaluateAvailability(w)
  /\ Crash(w)
  /\ UNCHANGED deliveryVars

\* Fault: there is nothing to load in a file that is missing.
OpenIfPresent(w) ==
  /\ w \in Publishers
  /\ WorkerGoto(w, "work", IF wanted[cur[w]] \in files THEN "load" ELSE "save_completed")
  /\ UNCHANGED <<lifeVars, deliveryVars>>

\* Fault: the file is removed as soon as it has been opened.
OpenAndRemove(w) ==
  /\ w \in Publishers /\ WorkerGoto(w, "work", "load")
  /\ wanted[cur[w]] \in files
  /\ files' = files \ {wanted[cur[w]]}
  /\ UNCHANGED <<record, due, extracting, looked, found, listed, expired, removing, deliveryVars>>

\* The file is there and is opened; removing it no longer matters.
OpenFile(w) ==
  /\ w \in Publishers /\ WorkerGoto(w, "work", "load")
  /\ wanted[cur[w]] \in files
  /\ UNCHANGED <<lifeVars, deliveryVars>>

\* Every row is inserted, checksum and row count agree, and commit succeeds.
Load(w) ==
  /\ WorkerGoto(w, "load", "save_completed")
  /\ loaded' = loaded \cup {cur[w]}
  /\ UNCHANGED <<lifeVars, maker, wanted>>

-----------------------------------------------------------------------------
(* A worker that raises or dies has lost the file it has not recorded and  *)
(* the record it has read.                                                 *)

Forget(w) ==
  \/ w \in Extractors /\ extracting # NoArtifact /\ Life!LoseArtifact
  \/ w \in Publishers /\ looked[w] # NoArtifact /\ Life!AbandonCall(w)
  \/ /\ w \in Extractors => extracting = NoArtifact
     /\ w \in Publishers => looked[w] = NoArtifact
     /\ UNCHANGED lifeVars

FlowStep(w) ==
  \/ (FrameStep(w) \/ Complete(w)) /\ UNCHANGED <<lifeVars, deliveryVars>>
  \/ FindJob(w) \/ Extract(w) \/ RecordArtifact(w)
  \/ LookUpWanted(w) \/ Accept(w) \/ Reject(w) \/ OpenFile(w) \/ Load(w)

Break(w) == (Raise(w) \/ Crash(w)) /\ Forget(w) /\ UNCHANGED deliveryVars

Housekeeping ==
  /\ \/ \E a \in Artifacts : Life!ComeDue(a)
     \/ \E r \in Retentions : Life!RetentionStep(r) \/ Life!AbortRetention(r)
     \/ \E d \in Cleanups : Life!CleanupStep(d) \/ Life!RemoveFails(d) \/ Life!AbortCleanup(d)
  /\ UNCHANGED <<queueVars, deliveryVars>>

QueueStep ==
  /\ Tick \/ \E r \in Recoveries : RecoveryStep(r) \/ AbortRecovery(r)
  /\ UNCHANGED <<lifeVars, deliveryVars>>

Next ==
  \/ \E j \in Jobs : RequestExtraction(j) \/ RequestPublish(j)
  \/ \E w \in Workers : FlowStep(w) \/ Break(w)
  \/ Housekeeping \/ QueueStep

Spec == Init /\ [][Next]_vars

-----------------------------------------------------------------------------
(* Safety.                                                                 *)

\* COMPLETED is true of what is outside the control plane, whichever attempt
\* wrote it and whatever the retention and the cleanup did meanwhile: the rows
\* of a publish are in the target, an artifact of an extraction is recorded.
CompletedIsDelivered ==
  \A j \in Jobs : status[j] = "completed" =>
    IF KindOf[j] = "extraction"
    THEN \E a \in Artifacts : maker[a] = j
    ELSE j \in loaded

\* The job may still be loaded by an attempt that is past its check.
UnderWay(j) == \E w \in Publishers : cur[w] = j /\ pc[w] # "lookup"

TooLate(j) == wanted[j] \in due /\ j \notin loaded /\ ~UnderWay(j)

\* Once the retention of an artifact is over and no attempt to publish it is
\* under way, none ever loads it: not a job put back by the recovery, nor one
\* requested from a record read before.
LateIsNeverLoaded == [][\A j \in Jobs : TooLate(j) => TooLate(j)']_vars

\* Until its retention is over, the file that a publish job is to load can be
\* opened by whichever attempt of the job comes to it: other attempts and other
\* jobs that loaded it, failed or died with it open, calls that save a record
\* they read long ago, and cleanups that listed it leave it in place.
WantedCanBeOpened ==
  \A j \in Jobs : wanted[j] # NoArtifact /\ wanted[j] \notin due => wanted[j] \in files

-----------------------------------------------------------------------------
(* Liveness.                                                               *)

Fairness ==
  /\ WF_vars(Tick /\ UNCHANGED <<lifeVars, deliveryVars>>)
  /\ \A w \in Workers : WF_vars(FlowStep(w))
  /\ \A r \in Recoveries : WF_vars(RecoveryStep(r) /\ UNCHANGED <<lifeVars, deliveryVars>>)

\* The lease of a job runs out.
Expires(j) == HasActiveLease(j) /\ leases'[j] # NoLease /\ leases'[j].left = 0

\* The worker could claim a job, or will when it has been restarted.
Free(w) ==
  \/ pc[w] \in {"down", "claim"}
  \/ pc[w] = "poll" /\ \E j \in Jobs : status[j] = "pending" /\ ~HasActiveLease(j)

\* From some time on no statement fails and no process is cut short (a worker
\* that rejects a job and one that is killed there may look the same), no
\* recovery puts back a job that is over, a worker is done with a job before
\* its lease runs out, and one that is free has tried the jobs before the next
\* lease runs out.
FailuresEnd ==
  <>[][/\ \A w \in Workers : Break(w) => FlowStep(w)
       /\ \A r \in Recoveries :
            /\ AbortRecovery(r) => RecoveryStep(r)
            /\ \A j \in Jobs : FindUnleased(r) /\ rcur'[r] = j => status[j] = Active(j)
       /\ \A j \in Jobs : Expires(j) => \A w \in Workers : ~Holds(w, j) /\ ~Free(w)]_vars

\* A job whose artifact is gone ends its worker each time it is tried, and is
\* tried first: it does not keep the jobs behind it from being published.
PublishableEnds ==
  FailuresEnd => \A j \in Jobs :
    status[j] = "pending" ~>
      status[j] \in Ended \/ (wanted[j] # NoArtifact /\ record[wanted[j]] # "available") \/ wanted[j] \in due
=============================================================================
