-------------------------- MODULE ArtifactLifecycle --------------------------
(***************************************************************************)
(* Extraction artifacts: the extraction worker writes a file and records   *)
(* it, API calls and the artifact publish worker look the record up and    *)
(* expire it when its retention is over, the retention worker expires what *)
(* nobody looked up, the cleanup worker removes the files.                 *)
(*                                                                         *)
(* All of them read a record, decide, and save the whole record back in    *)
(* another transaction, so each acts on what it read and not on what the   *)
(* record has become.                                                      *)
(***************************************************************************)
EXTENDS Naturals

CONSTANTS
  Artifacts,   \* the artifacts that extractions may produce
  Callers,     \* calls of evaluate_availability that may be under way at once
  Retentions,  \* runs of the retention worker that may overlap
  Cleanups,    \* runs of the cleanup worker that may overlap
  NoArtifact

ASSUME ArtifactAssumption == NoArtifact \notin Artifacts

VARIABLES
  files,       \* artifact files on disk
  record,      \* extraction_artifact records: their status
  due,         \* artifacts whose expires_at has come
  extracting,  \* extraction worker: the file it has written and not recorded
  looked,      \* caller: the artifact it looked up
  found,       \* caller: the status it read
  listed,      \* retention run: due artifacts of its listing still to save
  expired,     \* cleanup run: expired artifacts of its listing still to remove
  removing     \* cleanup run: the artifact it is to mark deleted

callerVars == <<looked, found>>
cleanupVars == <<expired, removing>>
vars == <<files, record, due, extracting, callerVars, listed, cleanupVars>>

\* "none": the artifact has no record.
RecordStatus == {"none", "available", "expired", "deleted"}

TypeOK ==
  /\ files \in SUBSET Artifacts
  /\ record \in [Artifacts -> RecordStatus]
  /\ due \in SUBSET Artifacts
  /\ extracting \in Artifacts \cup {NoArtifact}
  /\ looked \in [Callers -> Artifacts \cup {NoArtifact}]
  /\ found \in [Callers -> RecordStatus]
  /\ listed \in [Retentions -> SUBSET Artifacts]
  /\ expired \in [Cleanups -> SUBSET Artifacts]
  /\ removing \in [Cleanups -> Artifacts \cup {NoArtifact}]

Init ==
  /\ files = {} /\ due = {}
  /\ record = [a \in Artifacts |-> "none"]
  /\ extracting = NoArtifact
  /\ looked = [c \in Callers |-> NoArtifact]
  /\ found = [c \in Callers |-> "none"]
  /\ listed = [r \in Retentions |-> {}]
  /\ expired = [d \in Cleanups |-> {}]
  /\ removing = [d \in Cleanups |-> NoArtifact]

SaveRecord(a, s) == record' = [record EXCEPT ![a] = s]

-----------------------------------------------------------------------------
(* ExtractionWorker.                                                       *)

\* The pipeline writes a new file, under a name of its own for each attempt.
Materialize(a) ==
  /\ extracting = NoArtifact
  /\ record[a] = "none" /\ a \notin files
  /\ files' = files \cup {a}
  /\ extracting' = a
  /\ UNCHANGED <<record, due, callerVars, listed, cleanupVars>>

\* _record_artifact; the artifact expires default_retention from now.
RecordArtifact ==
  /\ extracting # NoArtifact
  /\ SaveRecord(extracting, "available")
  /\ extracting' = NoArtifact
  /\ UNCHANGED <<files, due, callerVars, listed, cleanupVars>>

\* The worker dies, or _record_artifact raises: nobody knows of the file.
LoseArtifact ==
  /\ extracting # NoArtifact
  /\ extracting' = NoArtifact
  /\ UNCHANGED <<files, record, due, callerVars, listed, cleanupVars>>

\* The clock reaches the expires_at of a record.
ComeDue(a) ==
  /\ record[a] # "none" /\ a \notin due
  /\ due' = due \cup {a}
  /\ UNCHANGED <<files, record, extracting, callerVars, listed, cleanupVars>>

-----------------------------------------------------------------------------
(* get_artifact_by_id, get_artifact_for_job, the request of an artifact    *)
(* publish and the artifact publish worker: each reads the record, then    *)
(* calls evaluate_availability on what it read.                            *)

LookUp(c, a) ==
  /\ looked[c] = NoArtifact /\ record[a] # "none"
  /\ looked' = [looked EXCEPT ![c] = a]
  /\ found' = [found EXCEPT ![c] = record[a]]
  /\ UNCHANGED <<files, record, due, extracting, listed, cleanupVars>>

EndLookUp(c) ==
  /\ looked' = [looked EXCEPT ![c] = NoArtifact]
  /\ found' = [found EXCEPT ![c] = "none"]

\* Fault: save(artifact) instead of save(expired).
EvaluateAndSave(c) ==
  /\ looked[c] # NoArtifact
  /\ IF found[c] = "available" /\ looked[c] \in due
     THEN SaveRecord(looked[c], found[c])
     ELSE UNCHANGED record
  /\ EndLookUp(c)
  /\ UNCHANGED <<files, due, extracting, listed, cleanupVars>>

EvaluateAvailability(c) ==
  /\ looked[c] # NoArtifact
  /\ IF found[c] = "available" /\ looked[c] \in due
     THEN SaveRecord(looked[c], "expired")
     ELSE UNCHANGED record
  /\ EndLookUp(c)
  /\ UNCHANGED <<files, due, extracting, listed, cleanupVars>>

\* The process dies or a statement raises before anything is saved.
AbandonCall(c) ==
  /\ looked[c] # NoArtifact
  /\ EndLookUp(c)
  /\ UNCHANGED <<files, record, due, extracting, listed, cleanupVars>>

-----------------------------------------------------------------------------
(* expire_due_artifacts.                                                   *)

\* The clock is read just before the listing: an artifact that comes due in
\* between is left to the next run.
ListDue(r) ==
  LET overdue == {a \in due : record[a] = "available"} IN
  /\ listed[r] = {} /\ overdue # {}
  /\ listed' = [listed EXCEPT ![r] = overdue]
  /\ UNCHANGED <<files, record, due, extracting, callerVars, cleanupVars>>

ExpireListed(r) == \E a \in listed[r] :
  /\ SaveRecord(a, "expired")
  /\ listed' = [listed EXCEPT ![r] = @ \ {a}]
  /\ UNCHANGED <<files, due, extracting, callerVars, cleanupVars>>

AbortRetention(r) ==
  /\ listed[r] # {}
  /\ listed' = [listed EXCEPT ![r] = {}]
  /\ UNCHANGED <<files, record, due, extracting, callerVars, cleanupVars>>

-----------------------------------------------------------------------------
(* cleanup_expired_artifacts.                                              *)

\* Fault: the listing takes whatever is due, expired or still available.
ListOverdue(d) ==
  /\ expired[d] = {} /\ removing[d] = NoArtifact /\ due # {}
  /\ expired' = [expired EXCEPT ![d] = {a \in due : record[a] # "deleted"}]
  /\ UNCHANGED <<files, record, due, extracting, callerVars, listed, removing>>

ListExpired(d) ==
  LET done == {a \in Artifacts : record[a] = "expired"} IN
  /\ expired[d] = {} /\ removing[d] = NoArtifact /\ done # {}
  /\ expired' = [expired EXCEPT ![d] = done]
  /\ UNCHANGED <<files, record, due, extracting, callerVars, listed, removing>>

\* Fault: a file that is already missing is counted and the record left alone.
RemovePresent(d) == \E a \in expired[d] :
  /\ removing[d] = NoArtifact
  /\ files' = files \ {a}
  /\ expired' = [expired EXCEPT ![d] = @ \ {a}]
  /\ removing' = [removing EXCEPT ![d] = IF a \in files THEN a ELSE NoArtifact]
  /\ UNCHANGED <<record, due, extracting, callerVars, listed>>

\* The file is removed if it is there.
RemoveFile(d) == \E a \in expired[d] :
  /\ removing[d] = NoArtifact
  /\ files' = files \ {a}
  /\ expired' = [expired EXCEPT ![d] = @ \ {a}]
  /\ removing' = [removing EXCEPT ![d] = a]
  /\ UNCHANGED <<record, due, extracting, callerVars, listed>>

\* Fault: the error is counted and the artifact marked deleted all the same.
IgnoreFailure(d) == \E a \in expired[d] \cap files :
  /\ removing[d] = NoArtifact
  /\ expired' = [expired EXCEPT ![d] = @ \ {a}]
  /\ removing' = [removing EXCEPT ![d] = a]
  /\ UNCHANGED <<files, record, due, extracting, callerVars, listed>>

\* os.remove raises OSError on a file that exists() found, because it cannot be
\* removed or another run was faster: the run goes on with the next artifact.
RemoveFails(d) == \E a \in expired[d] \cap files :
  /\ removing[d] = NoArtifact
  /\ expired' = [expired EXCEPT ![d] = @ \ {a}]
  /\ UNCHANGED <<files, record, due, extracting, callerVars, listed, removing>>

MarkDeleted(d) ==
  /\ removing[d] # NoArtifact
  /\ SaveRecord(removing[d], "deleted")
  /\ removing' = [removing EXCEPT ![d] = NoArtifact]
  /\ UNCHANGED <<files, due, extracting, callerVars, listed, expired>>

AbortCleanup(d) ==
  /\ expired[d] # {} \/ removing[d] # NoArtifact
  /\ expired' = [expired EXCEPT ![d] = {}]
  /\ removing' = [removing EXCEPT ![d] = NoArtifact]
  /\ UNCHANGED <<files, record, due, extracting, callerVars, listed>>

-----------------------------------------------------------------------------
RetentionStep(r) == ListDue(r) \/ ExpireListed(r)

CleanupStep(d) == ListExpired(d) \/ RemoveFile(d) \/ MarkDeleted(d)

Next ==
  \/ \E a \in Artifacts : Materialize(a) \/ ComeDue(a)
  \/ RecordArtifact \/ LoseArtifact
  \/ \E c \in Callers :
       EvaluateAvailability(c) \/ AbandonCall(c) \/ \E a \in Artifacts : LookUp(c, a)
  \/ \E r \in Retentions : RetentionStep(r) \/ AbortRetention(r)
  \/ \E d \in Cleanups : CleanupStep(d) \/ RemoveFails(d) \/ AbortCleanup(d)

Spec == Init /\ [][Next]_vars

-----------------------------------------------------------------------------
(* Safety.                                                                 *)

\* Whoever finds an artifact available, by status, can open its file, and the
\* file is not removed before its retention is over: only artifacts that became
\* expired in some run's listing are removed, and none becomes available again.
AvailableHasFile ==
  \A a \in Artifacts :
    /\ record[a] = "available" => a \in files
    /\ record[a] # "none" /\ a \notin files => a \in due

\* DELETED says that the file is gone, whatever order removals, failures and
\* saves of several runs come in.
DeletedHasNoFile == \A a \in Artifacts : record[a] = "deleted" => a \notin files

\* No late save takes an artifact back to available; a late save may take it
\* from deleted to expired, which the cleanup repairs.
NeverAvailableAgain ==
  [][\A a \in Artifacts : record[a] \in {"expired", "deleted"} => record'[a] \in {"expired", "deleted"}]_vars

-----------------------------------------------------------------------------
(* Liveness.  Calls end, time passes, and the one-shot runs of retention   *)
(* and cleanup are started again and again.                                *)

Fairness ==
  /\ \A a \in Artifacts : WF_vars(ComeDue(a))
  /\ \A c \in Callers : WF_vars(EvaluateAvailability(c))
  /\ \A r \in Retentions : WF_vars(RetentionStep(r))
  /\ \A d \in Cleanups : WF_vars(CleanupStep(d))

\* From some time on the runs of retention and cleanup only take steps of the
\* code (the last step of a run and its end by failure may look the same).
FailuresEnd ==
  <>[][/\ \A r \in Retentions : AbortRetention(r) => RetentionStep(r)
       /\ \A d \in Cleanups : RemoveFails(d) \/ AbortCleanup(d) => CleanupStep(d)]_vars

\* Every recorded artifact ends deleted for good, its file removed: late saves
\* of EXPIRED over DELETED stop, and each one is followed by another cleanup.
ArtifactsEndDeleted ==
  FailuresEnd => \A a \in Artifacts :
    record[a] = "available" ~> [](record[a] = "deleted" /\ a \notin files)
=============================================================================
