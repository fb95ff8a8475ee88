--------------------------- MODULE ArtifactFlowProofs ---------------------------
(* Proofs about ArtifactFlow, for any number of jobs, artifacts, publish   *)
(* workers and runs of the recovery, the retention and the cleanup.        *)
EXTENDS ArtifactFlow, JobQueueProofs

-----------------------------------------------------------------------------
(* The queue: a worker between claim and release has a job of its kind,    *)
(* and the calls of a kind of worker are met by no other.                  *)

Statuses == {"absent", "pending", "requested", "publishing", "running"} \cup Ended

HasJob(w) ==
  /\ \A j \in cands[w] : KindOf[j] = Serves[w] /\ status[j] # "absent"
  /\ pc[w] \in {"poll", "claim", "down"} <=> cur[w] = NoJob
  /\ cur[w] \in Jobs => KindOf[cur[w]] = Serves[w] /\ status[cur[w]] # "absent"
  /\ pc[w] = "load" => w \in Publishers
  /\ pc[w] = "record_artifact" => w \in Extractors

QueueInv ==
  /\ status \in [Jobs -> Statuses]
  /\ pc \in [Workers -> FlowCalls]
  /\ cands \in [Workers -> SUBSET Jobs]
  /\ cur \in [Workers -> Jobs \cup {NoJob}]
  /\ rjobs \in [Recoveries -> SUBSET Jobs]
  /\ rcur \in [Recoveries -> Jobs \cup {NoJob}]
  /\ \A w \in Workers : HasJob(w)
  /\ \A r \in Recoveries : /\ \A j \in rjobs[r] : status[j] # "absent"
                           /\ rcur[r] # NoJob => status[rcur[r]] # "absent"

\* What a step that is the queue's own may do: jobs neither come nor go, one
\* becomes COMPLETED only by the save, no worker gets to that save or past its
\* look-ups.
QueueMove ==
  /\ \A j \in Jobs : status'[j] = "absent" <=> status[j] = "absent"
  /\ \A j \in Jobs : status'[j] = "completed" =>
       status[j] = "completed" \/ \E w \in Workers : pc[w] = "save_completed" /\ cur[w] = j
  /\ \A w \in Workers :
       /\ pc'[w] = "save_completed" => pc[w] = "save_completed" /\ cur'[w] = cur[w]
       /\ pc'[w] # "lookup" /\ cur'[w] # NoJob => pc[w] # "lookup" /\ cur[w] = cur'[w]

StaysAtLookup == \A w \in Workers : pc[w] = "lookup" => pc'[w] = "lookup" /\ cur'[w] = cur[w]

LEMMA KindFacts ==
  /\ \A j \in Jobs : /\ KindOf[j] \in Kinds /\ j # NoJob
                     /\ Queued(j) \in Statuses \ ({"absent"} \cup Ended)
                     /\ Active(j) \in Statuses \ ({"absent"} \cup Ended)
  /\ Publishers \cap Extractors = {} /\ Callers = Publishers
BY QueueAssumption DEF Queued, Active, Statuses, Ended, Publishers, Extractors, Callers, Kinds

LEMMA CallFacts ==
  /\ FrameCalls \cup ExceptCalls \cup BeforeTry \subseteq FlowCalls
  /\ {"poll", "claim", "lookup", "down", "load", "record_artifact", "heartbeat", "save_active", "work",
      "save_completed", "record", "complete", "save_failed", "complete_failed"} \subseteq FlowCalls
BY DEF FlowCalls, FrameCalls, ExceptCalls, BeforeTry

LEMMA FrameMove ==
  ASSUME QueueInv, NEW w \in Workers, FrameStep(w) \/ Complete(w)
  PROVE  QueueInv' /\ QueueMove /\ StaysAtLookup
<1> USE KindFacts, CallFacts DEF QueueInv, HasJob, QueueMove, StaysAtLookup, workerVars, recoveryVars
<1>1. CASE ListQueued(w)
  BY <1>1 DEF ListQueued
<1>2. CASE SkipLeased(w)
  BY <1>2 DEF SkipLeased, NextCandidate
<1>3. CASE Claim(w)
  BY <1>3 DEF Claim, NextCandidate
<1>4. CASE Heartbeat(w)
  BY <1>4 DEF Heartbeat, Goto
<1>5. CASE SaveActive(w)
  BY <1>5 DEF SaveActive, Goto, SaveStatus, Ended
<1>6. CASE SaveCompleted(w)
  BY <1>6 DEF SaveCompleted, Goto, SaveStatus, Statuses, Ended
<1>7. CASE RecordOutcome(w)
  BY <1>7 DEF RecordOutcome, WorkerGoto, Goto
<1>8. CASE SaveFailed(w)
  BY <1>8 DEF SaveFailed, Goto, SaveStatus, Statuses, Ended
<1>9. CASE CompleteFailed(w)
  BY <1>9 DEF CompleteFailed, Release
<1>10. CASE Restart(w)
  BY <1>10 DEF Restart, WorkerGoto, Goto
<1>11. CASE Complete(w)
  BY <1>11 DEF Complete, Release
<1> QED BY <1>1, <1>2, <1>3, <1>4, <1>5, <1>6, <1>7, <1>8, <1>9, <1>10, <1>11 DEF FrameStep

LEMMA BreakMove ==
  ASSUME QueueInv, NEW w \in Workers, Raise(w) \/ Crash(w)
  PROVE  /\ QueueInv' /\ QueueMove
         /\ \A v \in Workers \ {w} : pc'[v] = pc[v] /\ cur'[v] = cur[v]
<1> USE KindFacts, CallFacts DEF QueueInv, HasJob, QueueMove, recoveryVars
<1>1. CASE Raise(w)
  BY <1>1 DEF Raise, InTry, BeforeTry, ExceptCalls
<1>2. CASE Crash(w)
  BY <1>2 DEF Crash
<1> QED BY <1>1, <1>2

LEMMA RecoveryMove ==
  ASSUME QueueInv, Tick \/ \E r \in Recoveries : RecoveryStep(r) \/ AbortRecovery(r)
  PROVE  QueueInv' /\ QueueMove /\ StaysAtLookup
<1> USE KindFacts, CallFacts DEF QueueInv, HasJob, QueueMove, StaysAtLookup, workerVars, recoveryVars
<1>1. CASE Tick
  BY <1>1 DEF Tick, workerVars, recoveryVars
<1>2. ASSUME NEW r \in Recoveries, ListStale(r)
      PROVE  QueueInv' /\ QueueMove /\ StaysAtLookup
  BY <1>2 DEF ListStale, workerVars
<1>3. ASSUME NEW r \in Recoveries, SkipActive(r) \/ FindUnleased(r) \/ AbortRecovery(r)
      PROVE  QueueInv' /\ QueueMove /\ StaysAtLookup
  BY <1>3 DEF SkipActive, FindUnleased, AbortRecovery, workerVars
<1>4. ASSUME NEW r \in Recoveries, SaveQueued(r)
      PROVE  QueueInv' /\ QueueMove /\ StaysAtLookup
  BY <1>4 DEF SaveQueued, SaveStatus, workerVars, Ended
<1> QED BY <1>1, <1>2, <1>3, <1>4 DEF RecoveryStep

\* A call of a worker that is the flow's own.
LEMMA WorkMove ==
  ASSUME QueueInv, NEW w \in Workers, NEW from, NEW to, WorkerGoto(w, from, to),
         from \notin {"poll", "claim", "down"}, to \in FlowCalls \ {"poll", "claim", "down"},
         to = "load" => w \in Publishers, to = "record_artifact" => w \in Extractors
  PROVE  /\ QueueInv' /\ UNCHANGED <<status, cur>>
         /\ pc[w] = from /\ pc' = [pc EXCEPT ![w] = to] /\ cur[w] \in Jobs
BY KindFacts DEF WorkerGoto, Goto, QueueInv, HasJob, recoveryVars

LEMMA AddMove ==
  ASSUME QueueInv, NEW j \in Jobs, AddJob(j)
  PROVE  /\ QueueInv' /\ UNCHANGED <<pc, cur>>
         /\ status[j] = "absent" /\ status' = [status EXCEPT ![j] = Queued(j)]
         /\ Queued(j) \notin {"absent", "completed"}
BY KindFacts DEF AddJob, SaveStatus, QueueInv, HasJob, workerVars, recoveryVars, Statuses, Ended

-----------------------------------------------------------------------------
(* What is delivered.  A publish job wants an artifact from the moment it  *)
(* exists; a worker that has looked up a record is about to decide, and    *)
(* has looked up what its job wants; a file without a record has no maker, *)
(* so recording it takes nothing away from another job.                    *)

Delivered(j) == IF KindOf[j] = "extraction" THEN \E a \in Artifacts : maker[a] = j ELSE j \in loaded

Looking(w) == looked[w] # NoArtifact => pc[w] = "lookup" /\ looked[w] = wanted[cur[w]]

DeliveryTypes ==
  /\ record \in [Artifacts -> Life!RecordStatus] /\ due \subseteq Artifacts
  /\ extracting \in Artifacts \cup {NoArtifact}
  /\ looked \in [Callers -> Artifacts \cup {NoArtifact}]
  /\ maker \in [Artifacts -> Jobs \cup {NoJob}]
  /\ wanted \in [Jobs -> Artifacts \cup {NoArtifact}]
  /\ loaded \in SUBSET Jobs

Delivery ==
  /\ DeliveryTypes
  /\ \A j \in Jobs : wanted[j] # NoArtifact <=> KindOf[j] = "artifact_publish" /\ status[j] # "absent"
  /\ \A w \in Publishers : Looking(w)
  /\ \A a \in Artifacts : record[a] = "none" => maker[a] = NoJob
  /\ extracting # NoArtifact => maker[extracting] = NoJob
  /\ \A w \in Workers : pc[w] = "save_completed" => Delivered(cur[w])
  /\ \A j \in Jobs : status[j] = "completed" => Delivered(j)

Inv == QueueInv /\ Delivery

LateStep == \A j \in Jobs : TooLate(j) => TooLate(j)'

\* All that a step must be shown to do.
GoodStep == Inv' /\ LateStep /\ (UNCHANGED lifeVars \/ Life!Next)

\* A step of the queue alone, in which a worker that reads a record stays where
\* it is or forgets the record.
LEMMA QueueStepIsGood ==
  ASSUME Inv, QueueInv', QueueMove, UNCHANGED <<record, due, deliveryVars>>,
         extracting' \in {extracting, NoArtifact},
         looked' \in [Callers -> Artifacts \cup {NoArtifact}],
         \A w \in Publishers : looked'[w] # NoArtifact =>
           looked'[w] = looked[w] /\ pc'[w] = pc[w] /\ cur'[w] = cur[w]
  PROVE  Delivery' /\ LateStep
<1> USE DEF Inv, deliveryVars
<1>1. DeliveryTypes'
  BY DEF Delivery, DeliveryTypes
<1>2. \A j \in Jobs : Delivered(j)' <=> Delivered(j)
  BY DEF Delivered
<1>3. \A w \in Workers : pc'[w] = "save_completed" => Delivered(cur[w])' /\ cur'[w] = cur[w]
  BY <1>2 DEF QueueMove, Delivery, Delivered
<1>4. \A j \in Jobs : status'[j] = "completed" => Delivered(j)'
  BY <1>2 DEF QueueMove, Delivery
<1>5. \A w \in Publishers : Looking(w)'
  BY DEF Delivery, Looking
<1>6. Delivery'
  BY <1>1, <1>3, <1>4, <1>5 DEF Delivery, QueueMove, Delivered
<1>7. LateStep
  <2> SUFFICES ASSUME NEW j \in Jobs, TooLate(j), NEW w \in Publishers, cur'[w] = j, pc'[w] # "lookup"
               PROVE  FALSE
    BY DEF LateStep, TooLate, UnderWay
  <2> QED BY KindFacts DEF QueueMove, TooLate, UnderWay, Publishers
<1> QED BY <1>6, <1>7

LEMMA FrameIsGood ==
  ASSUME Inv, QueueInv', QueueMove, StaysAtLookup, UNCHANGED <<lifeVars, deliveryVars>>
  PROVE  GoodStep
<1>1. \A w \in Publishers : looked'[w] # NoArtifact =>
        looked'[w] = looked[w] /\ pc'[w] = pc[w] /\ cur'[w] = cur[w]
  BY DEF Inv, Delivery, Looking, StaysAtLookup, lifeVars, Publishers
<1>2. UNCHANGED <<record, due, deliveryVars>> /\ extracting' \in {extracting, NoArtifact}
      /\ looked' \in [Callers -> Artifacts \cup {NoArtifact}]
  BY DEF lifeVars, Inv, Delivery, DeliveryTypes
<1> QED BY <1>1, <1>2, QueueStepIsGood DEF Inv, GoodStep

LEMMA ForgetIsGood ==
  ASSUME Inv, NEW w \in Workers, Break(w)
  PROVE  GoodStep
<1>1. /\ QueueInv' /\ QueueMove
      /\ \A v \in Workers \ {w} : pc'[v] = pc[v] /\ cur'[v] = cur[v]
  BY BreakMove DEF Break, Inv
<1>2. CASE w \in Extractors /\ extracting # NoArtifact /\ Life!LoseArtifact
  <2>1. UNCHANGED <<record, due, looked>> /\ extracting' = NoArtifact /\ Life!Next
    BY <1>2 DEF Life!LoseArtifact, Life!callerVars, Life!Next
  <2>2. \A v \in Publishers : v # w
    BY <1>2, KindFacts
  <2> QED BY <1>1, <2>1, <2>2, QueueStepIsGood
         DEF Break, GoodStep, Inv, Delivery, DeliveryTypes, Publishers
<1>3. CASE w \in Publishers /\ looked[w] # NoArtifact /\ Life!AbandonCall(w)
  <2>1. /\ UNCHANGED <<record, due, extracting>> /\ looked' = [looked EXCEPT ![w] = NoArtifact]
        /\ Life!Next
    BY <1>3, KindFacts DEF Life!AbandonCall, Life!EndLookUp, Life!Next
  <2>2. /\ looked' \in [Callers -> Artifacts \cup {NoArtifact}] /\ looked'[w] = NoArtifact
        /\ \A v \in Publishers \ {w} : looked'[v] = looked[v]
    BY <1>3, <2>1, KindFacts DEF Inv, Delivery, DeliveryTypes
  <2> QED BY <1>1, <2>1, <2>2, QueueStepIsGood DEF Break, GoodStep, Inv, Publishers
<1>4. CASE (w \in Publishers => looked[w] = NoArtifact) /\ UNCHANGED lifeVars
  BY <1>1, <1>4, QueueStepIsGood
  DEF Break, GoodStep, Inv, Delivery, DeliveryTypes, Publishers, lifeVars
<1> QED BY <1>2, <1>3, <1>4 DEF Break, Forget

LEMMA HousekeepingIsGood ==
  ASSUME Inv, Housekeeping
  PROVE  GoodStep
<1> USE DEF Inv, Delivery, DeliveryTypes
<1>1. /\ Life!Next /\ UNCHANGED <<extracting, looked>>
      /\ record' \in [Artifacts -> Life!RecordStatus]
      /\ \A a \in Artifacts : record'[a] = "none" => record[a] = "none"
      /\ due \subseteq due' /\ due' \subseteq Artifacts
  <2>1. CASE \E a \in Artifacts : Life!ComeDue(a)
    BY <2>1 DEF Life!ComeDue, Life!callerVars, Life!Next
  <2>2. CASE \E r \in Retentions : Life!RetentionStep(r) \/ Life!AbortRetention(r)
    <3>1. Life!Next
      BY <2>2 DEF Life!Next
    <3> QED BY <2>2, <3>1 DEF Life!RetentionStep, Life!AbortRetention, Life!ListDue, Life!ExpireListed,
                              Life!SaveRecord, Life!RecordStatus, Life!callerVars
  <2>3. CASE \E d \in Cleanups : Life!CleanupStep(d) \/ Life!RemoveFails(d) \/ Life!AbortCleanup(d)
    <3>1. Life!Next
      BY <2>3 DEF Life!Next
    <3> QED BY <2>3, <3>1 DEF Life!CleanupStep, Life!RemoveFails, Life!AbortCleanup, Life!ListExpired,
                              Life!RemoveFile, Life!MarkDeleted, Life!SaveRecord, Life!RecordStatus,
                              Life!callerVars
  <2> QED BY <2>1, <2>2, <2>3 DEF Housekeeping
<1>2. UNCHANGED <<queueVars, deliveryVars>>
  BY DEF Housekeeping
<1>3. QueueInv' /\ LateStep
  BY <1>1, <1>2 DEF QueueInv, HasJob, LateStep, TooLate, UnderWay, queueVars, workerVars, recoveryVars,
                    deliveryVars
<1>4. Delivery'
  BY <1>1, <1>2 DEF Delivered, Looking, queueVars, workerVars, deliveryVars
<1> QED BY <1>1, <1>3, <1>4 DEF GoodStep

LEMMA RequestIsGood ==
  ASSUME Inv, NEW j \in Jobs, RequestExtraction(j) \/ RequestPublish(j)
  PROVE  GoodStep
<1>1. /\ QueueInv' /\ UNCHANGED <<pc, cur>>
      /\ status[j] = "absent" /\ status' = [status EXCEPT ![j] = Queued(j)]
      /\ Queued(j) \notin {"absent", "completed"}
  BY AddMove DEF RequestExtraction, RequestPublish, Inv
<1>2. /\ UNCHANGED <<lifeVars, maker, loaded>> /\ wanted[j] = NoArtifact
      /\ wanted' \in [Jobs -> Artifacts \cup {NoArtifact}]
      /\ \A k \in Jobs \ {j} : wanted'[k] = wanted[k]
      /\ wanted'[j] # NoArtifact <=> KindOf[j] = "artifact_publish"
  BY <1>1, FlowAssumption
  DEF RequestExtraction, RequestPublish, Inv, Delivery, DeliveryTypes, deliveryVars
<1>3. \A w \in Workers : cur[w] # j
  BY <1>1 DEF Inv, QueueInv, HasJob
<1>4. Delivery'
  <2>1. DeliveryTypes'
    BY <1>2 DEF Inv, Delivery, DeliveryTypes, lifeVars
  <2>2. \A w \in Publishers : Looking(w)'
    <3> SUFFICES ASSUME NEW w \in Publishers PROVE Looking(w)'
      OBVIOUS
    <3>1. looked[w] # NoArtifact => cur[w] \in Jobs \ {j}
      BY <1>3 DEF Inv, QueueInv, HasJob, Delivery, Looking, Publishers
    <3> QED BY <1>1, <1>2, <3>1 DEF Inv, Delivery, Looking, lifeVars
  <2>3. \A k \in Jobs \ {j} : status'[k] = status[k]
    BY <1>1 DEF Inv, QueueInv
  <2>4. status'[j] = Queued(j)
    BY <1>1 DEF Inv, QueueInv
  <2> QED BY <1>1, <1>2, <2>1, <2>2, <2>3, <2>4 DEF Inv, Delivery, Delivered, lifeVars
<1>5. LateStep
  BY <1>1, <1>2, <1>3, FlowAssumption
  DEF LateStep, TooLate, UnderWay, lifeVars, Inv, Delivery, DeliveryTypes
<1> QED BY <1>1, <1>2, <1>4, <1>5 DEF GoodStep, Inv

LEMMA WorkIsGood ==
  ASSUME Inv, NEW w \in Workers,
         \/ FindJob(w) \/ Extract(w) \/ RecordArtifact(w)
         \/ LookUpWanted(w) \/ Accept(w) \/ OpenFile(w) \/ Load(w)
  PROVE  GoodStep
<1> USE DEF Inv, Delivery, DeliveryTypes
<1>1. CASE FindJob(w)
  <2>1. /\ QueueInv' /\ UNCHANGED <<status, cur>> /\ w \notin Publishers
        /\ pc[w] = "lookup" /\ pc' = [pc EXCEPT ![w] = "heartbeat"]
    BY <1>1, WorkMove, CallFacts, KindFacts DEF FindJob
  <2>2. UNCHANGED <<lifeVars, deliveryVars>>
    BY <1>1 DEF FindJob
  <2> QED BY <2>1, <2>2 DEF GoodStep, QueueInv, Looking, Delivered, LateStep, TooLate, UnderWay,
                             lifeVars, deliveryVars
<1>2. CASE Extract(w)
  <2>1. /\ QueueInv' /\ UNCHANGED <<status, cur>> /\ w \notin Publishers
        /\ pc[w] = "work" /\ pc' = [pc EXCEPT ![w] = "record_artifact"]
    BY <1>2, WorkMove, CallFacts, KindFacts DEF Extract
  <2>2. PICK a \in Artifacts : Life!Materialize(a)
    BY <1>2 DEF Extract
  <2>3. /\ UNCHANGED <<record, due, looked, deliveryVars>> /\ extracting' = a
        /\ record[a] = "none" /\ Life!Next
    BY <1>2, <2>2 DEF Extract, Life!Materialize, Life!callerVars, Life!Next
  <2> QED BY <2>1, <2>3 DEF GoodStep, QueueInv, Looking, Delivered, LateStep, TooLate, UnderWay, deliveryVars
<1>3. CASE RecordArtifact(w)
  <2>1. /\ QueueInv' /\ UNCHANGED <<status, cur>> /\ w \in Extractors /\ w \notin Publishers
        /\ pc[w] = "record_artifact" /\ pc' = [pc EXCEPT ![w] = "save_completed"]
        /\ cur[w] \in Jobs /\ KindOf[cur[w]] = "extraction"
    BY <1>3, WorkMove, CallFacts, KindFacts DEF RecordArtifact, QueueInv, HasJob, Extractors
  <2>2. /\ extracting \in Artifacts /\ maker[extracting] = NoJob
        /\ record' = [record EXCEPT ![extracting] = "available"] /\ extracting' = NoArtifact
        /\ maker' = [maker EXCEPT ![extracting] = cur[w]]
        /\ UNCHANGED <<due, looked, wanted, loaded>> /\ Life!Next
    BY <1>3 DEF RecordArtifact, Life!RecordArtifact, Life!SaveRecord, Life!callerVars, Life!Next
  <2>3. \A j \in Jobs : Delivered(j) => Delivered(j)'
    BY <2>2, KindFacts DEF Delivered
  <2>4. Delivered(cur[w])'
    BY <2>1, <2>2 DEF Delivered
  <2>5. DeliveryTypes' /\ \A a \in Artifacts : record'[a] = "none" => maker'[a] = NoJob
    BY <2>1, <2>2 DEF Life!RecordStatus
  <2>6. \A v \in Workers : pc'[v] = "save_completed" => Delivered(cur[v])'
    <3> SUFFICES ASSUME NEW v \in Workers \ {w}, pc[v] = "save_completed" PROVE Delivered(cur[v])'
      BY <2>1, <2>4 DEF QueueInv
    <3>1. cur[v] \in Jobs
      BY DEF QueueInv, HasJob
    <3> QED BY <3>1, <2>1, <2>3
  <2>7. Delivery'
    BY <2>1, <2>2, <2>3, <2>5, <2>6 DEF QueueInv, Looking
  <2>8. LateStep
    BY <2>1, <2>2 DEF LateStep, TooLate, UnderWay, QueueInv
  <2> QED BY <2>1, <2>2, <2>7, <2>8 DEF GoodStep
<1>4. CASE LookUpWanted(w)
  <2>1. /\ QueueInv' /\ UNCHANGED <<status, cur>> /\ w \in Publishers
        /\ pc[w] = "lookup" /\ pc' = pc
        /\ cur[w] \in Jobs /\ wanted[cur[w]] \in Artifacts
    BY <1>4, WorkMove, CallFacts, KindFacts DEF LookUpWanted, QueueInv, HasJob, Publishers
  <2>2. /\ looked' = [looked EXCEPT ![w] = wanted[cur[w]]]
        /\ UNCHANGED <<record, due, extracting, deliveryVars>> /\ Life!Next
    BY <1>4, <2>1, KindFacts DEF LookUpWanted, Life!LookUp, Life!Next
  <2>3. /\ looked'[w] = wanted[cur[w]] /\ \A v \in Publishers \ {w} : looked'[v] = looked[v]
        /\ looked' \in [Callers -> Artifacts \cup {NoArtifact}]
    BY <2>1, <2>2, KindFacts
  <2> QED BY <2>1, <2>2, <2>3
          DEF GoodStep, QueueInv, Looking, Delivered, LateStep, TooLate, UnderWay, deliveryVars
<1>5. CASE Accept(w)
  <2>1. /\ QueueInv' /\ UNCHANGED <<status, cur>> /\ w \in Publishers
        /\ pc[w] = "lookup" /\ pc' = [pc EXCEPT ![w] = "heartbeat"]
    BY <1>5, WorkMove, CallFacts, KindFacts DEF Accept
  <2>2. /\ looked[w] # NoArtifact /\ looked[w] = wanted[cur[w]] /\ looked[w] \notin due
        /\ UNCHANGED <<record, due, extracting, deliveryVars>> /\ Life!Next
        /\ looked' = [looked EXCEPT ![w] = NoArtifact]
    BY <1>5, <2>1, KindFacts
    DEF Accept, Available, Looking, Life!EvaluateAvailability, Life!EndLookUp, Life!Next
  <2>3. /\ looked'[w] = NoArtifact /\ \A v \in Publishers \ {w} : looked'[v] = looked[v]
        /\ looked' \in [Callers -> Artifacts \cup {NoArtifact}]
    BY <2>1, <2>2, KindFacts
  <2>4. LateStep
    BY <2>1, <2>2, KindFacts DEF LateStep, TooLate, UnderWay, QueueInv, deliveryVars, Publishers
  <2> QED BY <2>1, <2>2, <2>3, <2>4 DEF GoodStep, QueueInv, Looking, Delivered, Publishers, deliveryVars
<1>6. CASE OpenFile(w)
  <2>1. /\ QueueInv' /\ UNCHANGED <<status, cur>>
        /\ pc[w] = "work" /\ pc' = [pc EXCEPT ![w] = "load"]
    BY <1>6, WorkMove, CallFacts, KindFacts DEF OpenFile
  <2>2. UNCHANGED <<lifeVars, deliveryVars>>
    BY <1>6 DEF OpenFile
  <2> QED BY <2>1, <2>2 DEF GoodStep, QueueInv, Looking, Delivered, LateStep, TooLate, UnderWay,
                             lifeVars, deliveryVars
<1>7. CASE Load(w)
  <2>1. /\ QueueInv' /\ UNCHANGED <<status, cur>> /\ w \in Publishers
        /\ pc[w] = "load" /\ pc' = [pc EXCEPT ![w] = "save_completed"]
        /\ cur[w] \in Jobs /\ KindOf[cur[w]] # "extraction"
    BY <1>7, WorkMove, CallFacts, KindFacts DEF Load, QueueInv, HasJob, Publishers
  <2>2. UNCHANGED <<lifeVars, maker, wanted>> /\ loaded' = loaded \cup {cur[w]}
    BY <1>7 DEF Load
  <2>3. \A v \in Workers : pc'[v] = "save_completed" => Delivered(cur[v])'
    BY <2>1, <2>2 DEF QueueInv, Delivered
  <2>4. LateStep
    BY <2>1, <2>2 DEF LateStep, TooLate, UnderWay, QueueInv, lifeVars, Publishers
  <2> QED BY <2>1, <2>2, <2>3, <2>4 DEF GoodStep, QueueInv, Looking, Delivered, lifeVars
<1> QED BY <1>1, <1>2, <1>3, <1>4, <1>5, <1>6, <1>7

\* The worker ends, and the record it looked up may be saved as expired.
LEMMA RejectIsGood ==
  ASSUME Inv, NEW w \in Workers, Reject(w)
  PROVE  GoodStep
<1>1. /\ QueueInv' /\ QueueMove
      /\ \A v \in Workers \ {w} : pc'[v] = pc[v] /\ cur'[v] = cur[v]
  BY BreakMove DEF Reject, Inv
<1>2. /\ w \in Publishers /\ looked[w] \in Artifacts /\ Life!Next
      /\ looked' = [looked EXCEPT ![w] = NoArtifact]
      /\ UNCHANGED <<due, extracting, deliveryVars>>
      /\ record' = record \/ record' = [record EXCEPT ![looked[w]] = "expired"]
  BY KindFacts DEF Reject, Life!EvaluateAvailability, Life!EndLookUp, Life!SaveRecord, Life!Next,
                   Inv, Delivery, DeliveryTypes
<1>3. /\ looked' \in [Callers -> Artifacts \cup {NoArtifact}] /\ looked'[w] = NoArtifact
      /\ \A v \in Publishers \ {w} : looked'[v] = looked[v]
  BY <1>2, KindFacts DEF Inv, Delivery, DeliveryTypes
<1>4. /\ record' \in [Artifacts -> Life!RecordStatus]
      /\ \A a \in Artifacts : record'[a] = "none" => record[a] = "none"
  BY <1>2 DEF Inv, Delivery, DeliveryTypes, Life!RecordStatus
<1>5. Delivery'
  <2>1. DeliveryTypes'
    BY <1>2, <1>3, <1>4 DEF Inv, Delivery, DeliveryTypes, deliveryVars
  <2>2. \A v \in Publishers : Looking(v)'
    BY <1>1, <1>2, <1>3 DEF Inv, Delivery, Looking, Publishers, deliveryVars
  <2>3. \A v \in Workers : pc'[v] = "save_completed" => Delivered(cur[v])' /\ cur'[v] = cur[v]
    BY <1>1, <1>2 DEF QueueMove, Inv, Delivery, Delivered, deliveryVars
  <2> QED BY <1>1, <1>2, <1>4, <2>1, <2>2, <2>3 DEF QueueMove, Inv, Delivery, Delivered, deliveryVars
<1>6. LateStep
  BY <1>1, <1>2, KindFacts DEF QueueMove, LateStep, TooLate, UnderWay, Publishers, deliveryVars
<1> QED BY <1>1, <1>2, <1>5, <1>6 DEF GoodStep, Inv

LEMMA InvInit == Init => Inv
BY KindFacts, FlowAssumption
DEF Init, QueueInit, Life!Init, Inv, QueueInv, HasJob, FlowCalls, BeforeTry, Statuses,
    Delivery, DeliveryTypes, Looking, Delivered, Life!RecordStatus, Ended

LEMMA NextIsGood ==
  ASSUME Inv, [Next]_vars
  PROVE  GoodStep
<1>1. CASE UNCHANGED vars
  <2>1. UNCHANGED lifeVars /\ UNCHANGED <<status, pc, cands, cur, rjobs, rcur, maker, wanted, loaded>>
    BY <1>1 DEF vars, queueVars, workerVars, recoveryVars, deliveryVars
  <2> QED BY <2>1 DEF GoodStep, Inv, QueueInv, HasJob, Delivery, DeliveryTypes, Looking, Delivered,
                      LateStep, TooLate, UnderWay, lifeVars
<1>2. ASSUME NEW j \in Jobs, RequestExtraction(j) \/ RequestPublish(j)
      PROVE  GoodStep
  BY <1>2, RequestIsGood
<1>3. ASSUME NEW w \in Workers, FrameStep(w) \/ Complete(w), UNCHANGED <<lifeVars, deliveryVars>>
      PROVE  GoodStep
  BY <1>3, FrameMove, FrameIsGood DEF Inv
<1>4. ASSUME NEW w \in Workers, FlowStep(w)
      PROVE  GoodStep
  BY <1>4, <1>3, WorkIsGood, RejectIsGood DEF FlowStep
<1>5. ASSUME NEW w \in Workers, Break(w)
      PROVE  GoodStep
  BY <1>5, ForgetIsGood
<1>6. CASE QueueStep
  BY <1>6, RecoveryMove, FrameIsGood DEF QueueStep, Inv
<1>7. CASE Housekeeping
  BY <1>7, HousekeepingIsGood
<1> QED BY <1>1, <1>2, <1>4, <1>5, <1>6, <1>7 DEF Next

THEOREM SpecInv == Spec => []Inv
<1>1. Inv /\ [Next]_vars => Inv'
  BY NextIsGood DEF GoodStep
<1> QED BY InvInit, <1>1, PTL DEF Spec

\* A publish is COMPLETED only with its rows in the target, an extraction only
\* with an artifact on record, whichever of its attempts saves COMPLETED and
\* whatever requeues, restarts and cleanups come in between.
THEOREM SpecCompletedIsDelivered == Spec => []CompletedIsDelivered
<1>1. Inv => CompletedIsDelivered
  BY DEF Inv, Delivery, Delivered, CompletedIsDelivered
<1> QED BY SpecInv, <1>1, PTL

\* An artifact that is due is loaded by no attempt that had not passed its
\* check by then: the check is made on what was read, but against the clock.
THEOREM SpecLateIsNeverLoaded == Spec => LateIsNeverLoaded
<1>1. Inv /\ [Next]_vars => [\A j \in Jobs : TooLate(j) => TooLate(j)']_vars
  BY NextIsGood DEF GoodStep, LateStep
<1> QED BY SpecInv, <1>1, PTL DEF Spec, LateIsNeverLoaded

LifeProofs == INSTANCE ArtifactLifecycleProofs

LEMMA SameLife ==
  /\ Life!Next => LifeProofs!Next
  /\ Life!Init => LifeProofs!Init
  /\ LifeProofs!AvailableHasFile => Life!AvailableHasFile
BY DEF Life!Next, LifeProofs!Next, Life!Init, LifeProofs!Init,
       Life!AvailableHasFile, LifeProofs!AvailableHasFile,
       Life!Materialize, LifeProofs!Materialize, Life!ComeDue, LifeProofs!ComeDue,
       Life!RecordArtifact, LifeProofs!RecordArtifact, Life!LoseArtifact, LifeProofs!LoseArtifact,
       Life!EvaluateAvailability, LifeProofs!EvaluateAvailability, Life!AbandonCall, LifeProofs!AbandonCall,
       Life!LookUp, LifeProofs!LookUp, Life!EndLookUp, LifeProofs!EndLookUp,
       Life!SaveRecord, LifeProofs!SaveRecord, Life!RetentionStep, LifeProofs!RetentionStep,
       Life!ListDue, LifeProofs!ListDue, Life!ExpireListed, LifeProofs!ExpireListed,
       Life!AbortRetention, LifeProofs!AbortRetention, Life!CleanupStep, LifeProofs!CleanupStep,
       Life!ListExpired, LifeProofs!ListExpired, Life!RemoveFile, LifeProofs!RemoveFile,
       Life!MarkDeleted, LifeProofs!MarkDeleted, Life!RemoveFails, LifeProofs!RemoveFails,
       Life!AbortCleanup, LifeProofs!AbortCleanup, Life!callerVars, LifeProofs!callerVars,
       Life!cleanupVars, LifeProofs!cleanupVars

LEMMA LifeKept ==
  ASSUME LifeProofs!Kept, UNCHANGED lifeVars \/ Life!Next
  PROVE  LifeProofs!Kept'
<1>1. CASE Life!Next
  BY <1>1, SameLife, LifeProofs!NextKept, FlowAssumption
<1>2. CASE UNCHANGED lifeVars
  <2>1. UNCHANGED LifeProofs!vars
    BY <1>2 DEF lifeVars, LifeProofs!vars, LifeProofs!callerVars, LifeProofs!cleanupVars
  <2> QED BY <2>1, LifeProofs!NextKept, FlowAssumption
<1> QED BY <1>1, <1>2

\* So a publish that finds its artifact available can open the file, and no
\* file is removed before its artifact is due, in the composition as in
\* ArtifactLifecycle alone.
THEOREM SpecAvailableHasFile == Spec => []Life!AvailableHasFile
<1>1. Init => LifeProofs!Kept
  <2>1. Init => LifeProofs!Init
    BY SameLife DEF Init
  <2> QED BY <2>1, LifeProofs!InitKept, FlowAssumption
<1>2. Inv /\ LifeProofs!Kept /\ [Next]_vars => LifeProofs!Kept'
  BY NextIsGood, LifeKept DEF GoodStep
<1>3. LifeProofs!Kept => Life!AvailableHasFile
  BY SameLife DEF LifeProofs!Kept
<1> QED BY SpecInv, <1>1, <1>2, <1>3, PTL DEF Spec

\* A record that is there stays, and only a request says what a job is to load.
WantedIsRecorded == \A j \in Jobs : wanted[j] # NoArtifact => record[wanted[j]] # "none"

LEMMA RecordsStay ==
  ASSUME Inv, UNCHANGED lifeVars \/ Life!Next, NEW a \in Artifacts, record[a] # "none"
  PROVE  record'[a] # "none"
BY DEF Inv, Delivery, DeliveryTypes, lifeVars, Life!Next, Life!Materialize, Life!ComeDue, Life!RecordArtifact,
       Life!LoseArtifact, Life!EvaluateAvailability, Life!AbandonCall, Life!LookUp, Life!RetentionStep,
       Life!ListDue, Life!ExpireListed, Life!AbortRetention, Life!CleanupStep, Life!ListExpired,
       Life!RemoveFile, Life!MarkDeleted, Life!RemoveFails, Life!AbortCleanup, Life!SaveRecord

LEMMA WantedStays ==
  ASSUME Inv, [Next]_vars,
         \A j \in Jobs : ~RequestPublish(j)
  PROVE  UNCHANGED wanted
BY DEF Next, vars, deliveryVars, RequestExtraction, FlowStep, FindJob, Extract, RecordArtifact, LookUpWanted,
       Accept, Reject, OpenFile, Load, Break, Housekeeping, QueueStep

LEMMA WantedStaysRecorded ==
  ASSUME Inv, WantedIsRecorded, [Next]_vars
  PROVE  WantedIsRecorded'
<1>1. wanted \in [Jobs -> Artifacts \cup {NoArtifact}] /\ (UNCHANGED lifeVars \/ Life!Next)
  BY NextIsGood DEF GoodStep, Inv, Delivery, DeliveryTypes
<1>2. \A a \in Artifacts : record[a] # "none" => record'[a] # "none"
  BY <1>1, RecordsStay
<1>3. ASSUME NEW i \in Jobs, RequestPublish(i)
      PROVE  WantedIsRecorded'
  <2>1. PICK a \in Artifacts : record[a] # "none" /\ wanted' = [wanted EXCEPT ![i] = a]
    BY <1>3 DEF RequestPublish
  <2> QED BY <1>1, <1>2, <2>1 DEF WantedIsRecorded
<1>4. CASE \A i \in Jobs : ~RequestPublish(i)
  BY <1>1, <1>2, <1>4, WantedStays DEF WantedIsRecorded
<1> QED BY <1>3, <1>4

\* The artifact of a publish job stays where the job's attempts look for it
\* until it is due, for any number of publishers, of jobs that want the same
\* artifact, and of retention and cleanup runs: what a job is to load was on
\* record when it was requested, and of what is on record only what is due has
\* lost its file.
THEOREM SpecWantedCanBeOpened == Spec => []WantedCanBeOpened
<1>1. Init => LifeProofs!Kept /\ WantedIsRecorded
  <2>1. Init => LifeProofs!Init /\ WantedIsRecorded
    BY SameLife DEF Init, WantedIsRecorded
  <2> QED BY <2>1, LifeProofs!InitKept, FlowAssumption
<1>2. Inv /\ LifeProofs!Kept /\ [Next]_vars => LifeProofs!Kept'
  BY NextIsGood, LifeKept DEF GoodStep
<1>3. Inv /\ WantedIsRecorded /\ [Next]_vars => WantedIsRecorded'
  BY WantedStaysRecorded
<1>4. Inv /\ LifeProofs!Kept /\ WantedIsRecorded => WantedCanBeOpened
  BY DEF LifeProofs!Kept, LifeProofs!AvailableHasFile, WantedIsRecorded, WantedCanBeOpened,
         Inv, Delivery, DeliveryTypes
<1> QED BY SpecInv, <1>1, <1>2, <1>3, <1>4, PTL DEF Spec

-----------------------------------------------------------------------------
(* Types: those of the queue, those of the lifecycle and the flow's own.   *)

LEMMA QueueStaysTyped ==
  ASSUME Inv, QueueTypes, [Next]_vars
  PROVE  QueueTypes'
<1>1. QueueCalls \subseteq FlowCalls /\ {"load", "record_artifact"} \subseteq FlowCalls
      /\ pc \in [Workers -> FlowCalls]
  BY DEF QueueCalls, FlowCalls, Inv, QueueInv
<1>2. CASE UNCHANGED vars
  BY <1>2 DEF vars, queueVars, workerVars, recoveryVars, QueueTypes, QueueOK, LeasesOK, StatusOf, Queued, Active
<1>3. ASSUME NEW j \in Jobs, RequestExtraction(j) \/ RequestPublish(j)
      PROVE  QueueTypes'
  BY <1>3, AddTypes DEF RequestExtraction, RequestPublish
<1>4. ASSUME NEW w \in Workers, FlowStep(w) \/ Break(w)
      PROVE  QueueTypes'
  <2>1. CASE FrameStep(w) \/ Complete(w) \/ Raise(w) \/ Crash(w)
    BY <1>1, <2>1, FrameTypes
  <2>2. ASSUME NEW from, NEW to \in FlowCalls \ Idle, from \notin Idle, WorkerGoto(w, from, to)
        PROVE  QueueTypes'
    BY <1>1, <2>2, GotoTypes
  <2>3. {"lookup", "heartbeat", "work", "record_artifact", "load", "save_completed"} \subseteq FlowCalls \ Idle
    BY CallFacts DEF Idle
  <2>4. CASE FindJob(w) \/ Extract(w) \/ RecordArtifact(w) \/ LookUpWanted(w) \/ Accept(w) \/ OpenFile(w)
             \/ Load(w)
    BY <2>2, <2>3, <2>4 DEF FindJob, Extract, RecordArtifact, LookUpWanted, Accept, OpenFile, Load, Idle
  <2>5. CASE Reject(w)
    BY <2>1, <2>5 DEF Reject
  <2> QED BY <1>4, <2>1, <2>4, <2>5 DEF FlowStep, Break
<1>5. CASE QueueStep
  BY <1>5, RecoveryTypes DEF QueueStep
<1>6. CASE Housekeeping
  <2>1. UNCHANGED queueVars
    BY <1>6 DEF Housekeeping
  <2> QED BY <2>1 DEF queueVars, workerVars, recoveryVars, QueueTypes, QueueOK, LeasesOK, StatusOf, Queued, Active
<1> QED BY <1>2, <1>3, <1>4, <1>5, <1>6 DEF Next

\* Every variable of the composition keeps its type, and a worker has a job of
\* the queue from its claim to its release, for any workers, artifacts and
\* housekeeping runs.
THEOREM SpecTypeOK == Spec => []TypeOK
<1>1. Init => QueueTypes /\ LifeProofs!Kept
  <2>1. Init => QueueTypes /\ LifeProofs!Init
    BY QueueInitTypes, SameLife DEF Init
  <2> QED BY <2>1, LifeProofs!InitKept, FlowAssumption
<1>2. Inv /\ LifeProofs!Kept /\ [Next]_vars => LifeProofs!Kept'
  BY NextIsGood, LifeKept DEF GoodStep
<1>3. Inv /\ QueueTypes /\ [Next]_vars => QueueTypes'
  BY QueueStaysTyped
<1>4. LifeProofs!Kept => Life!TypeOK
  BY DEF LifeProofs!Kept, LifeProofs!TypeOK, Life!TypeOK, LifeProofs!RecordStatus, Life!RecordStatus
<1>5. Inv /\ QueueTypes /\ LifeProofs!Kept => TypeOK
  BY <1>4 DEF TypeOK, Inv, QueueInv, QueueTypes, Delivery, DeliveryTypes
<1> QED BY SpecInv, <1>1, <1>2, <1>3, <1>5, PTL DEF Spec
=============================================================================
