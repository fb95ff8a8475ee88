------------------------- MODULE PublishHistoryProofs -------------------------
(* Proofs about PublishHistory, for any number of jobs and recoveries and   *)
(* finitely many workers.                                                   *)
EXTENDS PublishHistory, PublishExecutionProofs, FiniteSetTheorems

USE DEF JobStatus, AuditEvents, WorkerCalls, TryCalls, ExceptCalls, StaleStatus

-----------------------------------------------------------------------------
(* What each kind of step does to the history.                             *)

Quiet ==
  /\ \A w \in Workers : ~Listing(w)
  /\ \A w \in Workers, j \in Jobs : ~Loading(w, j)
  /\ \A r \in Recoveries, j \in Jobs : ~PuttingBack(r, j)

LEMMA WorkerIsQuiet ==
  ASSUME Typed, NEW w \in Workers, WorkerStep(w) \/ Crash(w), ~ListPending(w), ~Execute(w)
  PROVE  Quiet
<1> USE DEF Typed, TypeOK, Quiet, Listing, Loading, PuttingBack, recoveryVars
<1>1. CASE SkipLeased(w) \/ Claim(w)
  BY <1>1 DEF SkipLeased, Claim, NextCandidate
<1>2. CASE \/ Heartbeat(w) \/ SavePlanning(w) \/ AuditStarted(w) \/ SaveCompleted(w)
           \/ RecordLineage(w) \/ AuditCompleted(w)
  BY <1>2 DEF Heartbeat, SavePlanning, AuditStarted, SaveCompleted, RecordLineage, AuditCompleted, Goto
<1>3. CASE SaveFailed(w) \/ AuditFailed(w) \/ Restart(w)
  BY <1>3 DEF SaveFailed, AuditFailed, Restart, Goto
<1>4. CASE Complete(w) \/ CompleteFailed(w) \/ Raise(w) \/ Crash(w)
  BY <1>4 DEF Complete, CompleteFailed, Raise, Crash
<1> QED
  BY <1>1, <1>2, <1>3, <1>4 DEF WorkerStep

LEMMA OthersAreQuiet ==
  ASSUME Typed,
         \/ \E j \in Jobs : RequestJob(j)
         \/ \E r \in Recoveries : \/ ListStale(r) \/ SkipActive(r) \/ FindUnleased(r)
                                  \/ AuditRecovered(r) \/ AbortRecovery(r)
         \/ Tick
         \/ UNCHANGED vars
  PROVE  Quiet
<1> USE DEF Typed, TypeOK, Quiet, Listing, Loading, PuttingBack, workerVars, recoveryVars
<1>1. CASE (\E j \in Jobs : RequestJob(j)) \/ Tick \/ UNCHANGED vars
  BY <1>1 DEF RequestJob, Tick, vars
<1>2. CASE \E r \in Recoveries : ListStale(r) \/ SkipActive(r) \/ FindUnleased(r)
  BY <1>2 DEF ListStale, SkipActive, FindUnleased, NextCall
<1>3. CASE \E r \in Recoveries : AuditRecovered(r) \/ AbortRecovery(r)
  BY <1>3 DEF AuditRecovered, AbortRecovery, NextCall
<1> QED
  BY <1>1, <1>2, <1>3

HistoryKept == requeues' = requeues /\ seen' = seen /\ loads' = loads /\ loaders' = loaders

LEMMA QuietKeeps ==
  ASSUME HistoryTypeOK, HistoryNext, Quiet
  PROVE  HistoryKept
<1> USE DEF HistoryTypeOK, HistoryNext, Quiet, HistoryKept
<1>1. requeues' = requeues /\ seen' = seen /\ loads' = loads
  OBVIOUS
<1>2. ASSUME NEW j \in Jobs
      PROVE  loaders'[j] = loaders[j]
  <2>1. {v \in Workers : Loading(v, j)} = {}
    OBVIOUS
  <2>2. {<<w, seen[w][j]>> : w \in {v \in Workers : Loading(v, j)}} = {}
    BY <2>1
  <2> QED
    BY <2>2
<1> QED
  BY <1>1, <1>2

LEMMA ListingSees ==
  ASSUME Typed, HistoryTypeOK, HistoryNext, NEW w \in Workers, ListPending(w)
  PROVE  /\ seen' = [seen EXCEPT ![w] = requeues]
         /\ requeues' = requeues /\ loads' = loads /\ loaders' = loaders
<1>1. /\ Listing(w)
      /\ \A v \in Workers : v # w => ~Listing(v)
      /\ \A v \in Workers, j \in Jobs : ~Loading(v, j)
      /\ \A r \in Recoveries, j \in Jobs : ~PuttingBack(r, j)
  BY DEF Typed, TypeOK, ListPending, Listing, Loading, PuttingBack, recoveryVars
<1>2. requeues' = requeues /\ loads' = loads
  BY <1>1 DEF HistoryTypeOK, HistoryNext
<1>3. seen' = [seen EXCEPT ![w] = requeues]
  BY <1>1 DEF HistoryTypeOK, HistoryNext
<1>4. ASSUME NEW j \in Jobs
      PROVE  loaders'[j] = loaders[j]
  <2>1. {v \in Workers : Loading(v, j)} = {}
    BY <1>1
  <2>2. {<<u, seen[u][j]>> : u \in {v \in Workers : Loading(v, j)}} = {}
    BY <2>1
  <2> QED
    BY <2>2 DEF HistoryTypeOK, HistoryNext
<1>5. loaders' = loaders
  BY <1>4 DEF HistoryTypeOK, HistoryNext
<1> QED
  BY <1>2, <1>3, <1>5

LEMMA ExecuteLoads ==
  ASSUME Typed, HistoryTypeOK, HistoryNext, NEW w \in Workers, Execute(w)
  PROVE  /\ cur[w] \in Jobs
         /\ loads' = [loads EXCEPT ![cur[w]] = @ + 1]
         /\ loaders' = [loaders EXCEPT ![cur[w]] = @ \cup {<<w, seen[w][cur[w]]>>}]
         /\ requeues' = requeues /\ seen' = seen
<1>1. /\ cur[w] \in Jobs
      /\ \A v \in Workers, j \in Jobs : Loading(v, j) <=> v = w /\ j = cur[w]
      /\ \A v \in Workers : ~Listing(v)
      /\ \A r \in Recoveries, j \in Jobs : ~PuttingBack(r, j)
  BY DEF Typed, TypeOK, HolderHasJob, Execute, Goto, Listing, Loading, PuttingBack, recoveryVars
<1>2. requeues' = requeues /\ seen' = seen
  BY <1>1 DEF HistoryTypeOK, HistoryNext
<1>3. loads' = [loads EXCEPT ![cur[w]] = @ + 1]
  <2>1. \A j \in Jobs : loads[j] \in Nat /\ loads'[j] = loads[j] + IF j = cur[w] THEN 1 ELSE 0
    BY <1>1 DEF HistoryTypeOK, HistoryNext
  <2>2. loads' = [j \in Jobs |-> IF j = cur[w] THEN loads[j] + 1 ELSE loads[j]]
    BY <2>1 DEF HistoryNext
  <2> QED
    BY <2>2 DEF HistoryTypeOK
<1>4. ASSUME NEW j \in Jobs
      PROVE  loaders'[j] = IF j = cur[w] THEN loaders[j] \cup {<<w, seen[w][j]>>} ELSE loaders[j]
  <2>1. {v \in Workers : Loading(v, j)} = IF j = cur[w] THEN {w} ELSE {}
    BY <1>1
  <2>2. {<<u, seen[u][j]>> : u \in {v \in Workers : Loading(v, j)}} =
          IF j = cur[w] THEN {<<w, seen[w][j]>>} ELSE {}
    BY <2>1
  <2>3. loaders'[j] = loaders[j] \cup {<<u, seen[u][j]>> : u \in {v \in Workers : Loading(v, j)}}
    BY DEF HistoryNext
  <2> QED
    BY <2>2, <2>3
<1>5. loaders' = [loaders EXCEPT ![cur[w]] = @ \cup {<<w, seen[w][cur[w]]>>}]
  BY <1>4 DEF HistoryTypeOK, HistoryNext
<1> QED
  BY <1>1, <1>2, <1>3, <1>5

LEMMA SavingRequeues ==
  ASSUME Typed, HistoryTypeOK, HistoryNext, NEW r \in Recoveries, SavePending(r)
  PROVE  /\ rcur[r] \in Jobs
         /\ requeues' = [requeues EXCEPT ![rcur[r]] = @ + 1]
         /\ seen' = seen /\ loads' = loads /\ loaders' = loaders
<1>1. /\ rcur[r] \in Jobs
      /\ \A q \in Recoveries, j \in Jobs : PuttingBack(q, j) <=> q = r /\ j = rcur[r]
      /\ \A v \in Workers : ~Listing(v)
      /\ \A v \in Workers, j \in Jobs : ~Loading(v, j)
  BY DEF Typed, TypeOK, SaverHasJob, SavePending, Listing, Loading, PuttingBack, workerVars
<1>2. requeues' = [requeues EXCEPT ![rcur[r]] = @ + 1]
  <2>1. \A j \in Jobs :
          requeues[j] \in Nat /\ requeues'[j] = requeues[j] + IF j = rcur[r] THEN 1 ELSE 0
    BY <1>1, HistoryAssumption DEF HistoryTypeOK, HistoryNext
  <2>2. requeues' = [j \in Jobs |-> IF j = rcur[r] THEN requeues[j] + 1 ELSE requeues[j]]
    BY <2>1 DEF HistoryNext
  <2> QED
    BY <2>2 DEF HistoryTypeOK
<1>3. seen' = seen /\ loads' = loads
  BY <1>1 DEF HistoryTypeOK, HistoryNext
<1>4. ASSUME NEW j \in Jobs
      PROVE  loaders'[j] = loaders[j]
  <2>1. {v \in Workers : Loading(v, j)} = {}
    BY <1>1
  <2>2. {<<u, seen[u][j]>> : u \in {v \in Workers : Loading(v, j)}} = {}
    BY <2>1
  <2> QED
    BY <2>2 DEF HistoryTypeOK, HistoryNext
<1>5. loaders' = loaders
  BY <1>4 DEF HistoryTypeOK, HistoryNext
<1> QED
  BY <1>1, <1>2, <1>3, <1>5

-----------------------------------------------------------------------------
(* The bound on repetitions.  Every load is told apart by the worker and   *)
(* the number of requeues it had seen when it listed the queue: to load a  *)
(* job again it must list it again, and the job is not listed before it    *)
(* has been put back.                                                      *)

Counted ==
  \A j \in Jobs : IsFiniteSet(loaders[j]) /\ loads[j] = Cardinality(loaders[j])

SeenBefore == \A w \in Workers, j \in Jobs : seen[w][j] <= requeues[j]

\* A job is not in the queue unless it was put back after all its loads.
LoadedEarlier ==
  \A j \in Jobs, w \in Workers, k \in 0 .. MaxRequeues : <<w, k>> \in loaders[j] =>
    k <= requeues[j] /\ (status[j] \in {"absent", "pending"} => k < requeues[j])

\* What a worker has listed or claimed it has not loaded since it looked.
CandidateUnloaded ==
  \A w \in Workers : pc[w] = "claim" => \A j \in cands[w] : <<w, seen[w][j]>> \notin loaders[j]

ClaimedUnloaded ==
  \A w \in Workers : pc[w] \in {"heartbeat", "save_planning", "audit_started", "execute"} =>
    <<w, seen[w][cur[w]]>> \notin loaders[cur[w]]

\* Past its PLANNING save the job is not in the queue, unless it was put back.
PlannedSince ==
  \A w \in Workers : pc[w] \in {"audit_started", "execute"} =>
    (status[cur[w]] \in {"absent", "pending"} => seen[w][cur[w]] < requeues[cur[w]])

Repeating ==
  /\ Typed /\ HistoryTypeOK
  /\ Counted /\ SeenBefore /\ LoadedEarlier /\ CandidateUnloaded /\ ClaimedUnloaded /\ PlannedSince

LEMMA HistoryNextTyped ==
  ASSUME Typed, HistoryTypeOK, [HistoryNext]_hvars
  PROVE  Typed' /\ HistoryTypeOK'
<1>1. Typed'
  BY NextTyped DEF HistoryNext, hvars
<1>2. CASE UNCHANGED hvars
  BY <1>1, <1>2 DEF HistoryTypeOK, hvars, historyVars
<1>3. CASE HistoryNext
  <2>1. requeues' \in [Jobs -> 0 .. MaxRequeues]
    <3>1. \A j \in Jobs : requeues'[j] \in Nat /\ requeues'[j] <= MaxRequeues
      BY <1>3, HistoryAssumption DEF HistoryTypeOK, HistoryNext
    <3> QED
      BY <1>3, <3>1, HistoryAssumption DEF HistoryNext
  <2>2. seen' \in [Workers -> [Jobs -> 0 .. MaxRequeues]]
    BY <1>3 DEF HistoryTypeOK, HistoryNext
  <2>3. loads' \in [Jobs -> Nat]
    BY <1>3 DEF HistoryTypeOK, HistoryNext
  <2>4. loaders' \in [Jobs -> SUBSET (Workers \X (0 .. MaxRequeues))]
    <3>1. ASSUME NEW j \in Jobs
          PROVE  loaders'[j] \subseteq Workers \X (0 .. MaxRequeues)
      <4>1. {<<w, seen[w][j]>> : w \in {v \in Workers : Loading(v, j)}} \subseteq Workers \X (0 .. MaxRequeues)
        BY DEF HistoryTypeOK
      <4>2. loaders'[j] = loaders[j] \cup {<<w, seen[w][j]>> : w \in {v \in Workers : Loading(v, j)}}
        BY <1>3 DEF HistoryNext
      <4> QED
        BY <4>1, <4>2 DEF HistoryTypeOK
    <3> QED
      BY <1>3, <3>1 DEF HistoryNext
  <2> QED
    BY <1>1, <2>1, <2>2, <2>3, <2>4 DEF HistoryTypeOK
<1> QED
  BY <1>2, <1>3

LEMMA InitRepeats == HistoryInit => Repeating
<1> SUFFICES ASSUME HistoryInit
             PROVE  Repeating
  OBVIOUS
<1>1. Typed
  BY InitTyped DEF HistoryInit
<1>2. HistoryTypeOK /\ SeenBefore
  BY HistoryAssumption DEF HistoryInit, HistoryTypeOK, SeenBefore
<1>5. LoadedEarlier /\ CandidateUnloaded
  BY DEF HistoryInit, Init, LoadedEarlier, CandidateUnloaded
<1>3. Counted
  BY FS_EmptySet DEF HistoryInit, Counted
<1>4. ClaimedUnloaded /\ PlannedSince
  BY DEF HistoryInit, Init, ClaimedUnloaded, PlannedSince
<1> QED
  BY <1>1, <1>2, <1>3, <1>4, <1>5 DEF Repeating

\* The steps of a worker that leave the history alone.
LEMMA WorkerRepeats ==
  ASSUME Repeating, NEW w \in Workers, WorkerStep(w) \/ Crash(w), ~ListPending(w), ~Execute(w),
         HistoryKept, Typed', HistoryTypeOK'
  PROVE  Repeating'
<1> USE DEF Repeating, Typed, TypeOK, HolderHasJob, HistoryTypeOK, HistoryKept
<1>1. Counted' /\ SeenBefore'
  BY DEF Counted, SeenBefore
<1> USE DEF LoadedEarlier, CandidateUnloaded, ClaimedUnloaded, PlannedSince
<1>2. CASE SkipLeased(w)
  BY <1>1, <1>2 DEF SkipLeased, NextCandidate, jobVars
<1>3. CASE Claim(w)
  BY <1>1, <1>3 DEF Claim, NextCandidate, jobVars
<1>4. CASE Heartbeat(w)
  BY <1>1, <1>4 DEF Heartbeat, Goto, jobVars
<1>5. CASE SavePlanning(w)
  BY <1>1, <1>5 DEF SavePlanning, Goto, SaveStatus
<1>6. CASE AuditStarted(w)
  BY <1>1, <1>6 DEF AuditStarted, Goto
<1>7. CASE SaveCompleted(w)
  BY <1>1, <1>7 DEF SaveCompleted, Goto, SaveStatus
<1>8. CASE RecordLineage(w)
  BY <1>1, <1>8 DEF RecordLineage, Goto
<1>9. CASE AuditCompleted(w)
  BY <1>1, <1>9 DEF AuditCompleted, Goto
<1>16. CASE AuditFailed(w)
  BY <1>1, <1>16 DEF AuditFailed, Goto
<1>10. CASE SaveFailed(w)
  BY <1>1, <1>10 DEF SaveFailed, Goto, SaveStatus
<1>11. CASE Complete(w)
  BY <1>1, <1>11 DEF Complete, jobVars
<1>12. CASE CompleteFailed(w)
  BY <1>1, <1>12 DEF CompleteFailed, jobVars
<1>13. CASE Raise(w)
  BY <1>1, <1>13 DEF Raise, jobVars
<1>14. CASE Crash(w)
  BY <1>1, <1>14 DEF Crash, jobVars
<1>15. CASE Restart(w)
  BY <1>1, <1>15 DEF Restart, Goto, jobVars
<1> QED
  BY <1>2, <1>3, <1>4, <1>5, <1>6, <1>7, <1>8, <1>9, <1>10, <1>11, <1>12, <1>13, <1>14, <1>15,
     <1>16 DEF WorkerStep

LEMMA ListingRepeats ==
  ASSUME Repeating, HistoryNext, NEW w \in Workers, ListPending(w), Typed', HistoryTypeOK'
  PROVE  Repeating'
<1> USE DEF Repeating, Typed, TypeOK, HolderHasJob, HistoryTypeOK
<1>1. /\ seen' = [seen EXCEPT ![w] = requeues]
      /\ requeues' = requeues /\ loads' = loads /\ loaders' = loaders
  BY ListingSees
<1>2. /\ pc' = [pc EXCEPT ![w] = "claim"] /\ cands' = [cands EXCEPT ![w] = {j \in Jobs : status[j] = "pending"}]
      /\ cur' = cur /\ status' = status
  BY DEF ListPending, jobVars
<1>3. Counted' /\ SeenBefore' /\ LoadedEarlier'
  BY <1>1, <1>2 DEF Counted, SeenBefore, LoadedEarlier
<1>4. \A j \in Jobs : status[j] = "pending" => <<w, requeues[j]>> \notin loaders[j]
  BY DEF LoadedEarlier
<1>5. CandidateUnloaded'
  BY <1>1, <1>2, <1>4 DEF CandidateUnloaded
<1>6. ClaimedUnloaded' /\ PlannedSince'
  BY <1>1, <1>2 DEF ClaimedUnloaded, PlannedSince
<1> QED
  BY <1>3, <1>5, <1>6

LEMMA LoadingRepeats ==
  ASSUME Repeating, HistoryNext, NEW w \in Workers, Execute(w), Typed', HistoryTypeOK'
  PROVE  Repeating'
<1> USE DEF Repeating, Typed, TypeOK, HolderHasJob, HistoryTypeOK
<1> DEFINE c == cur[w]
           k == seen[w][c]
<1>1. /\ c \in Jobs /\ loads' = [loads EXCEPT ![c] = @ + 1]
      /\ loaders' = [loaders EXCEPT ![c] = @ \cup {<<w, k>>}]
      /\ requeues' = requeues /\ seen' = seen
  BY ExecuteLoads
<1>2. /\ pc[w] = "execute" /\ pc' = [pc EXCEPT ![w] = "save_completed"]
      /\ cur' = cur /\ cands' = cands /\ status' = status
  BY DEF Execute, Goto
<1>3. k \in 0 .. MaxRequeues /\ <<w, k>> \notin loaders[c]
  BY <1>1, <1>2 DEF ClaimedUnloaded
<1>4. Counted'
  <2>1. /\ IsFiniteSet(loaders[c] \cup {<<w, k>>})
        /\ Cardinality(loaders[c] \cup {<<w, k>>}) = Cardinality(loaders[c]) + 1
    BY <1>1, <1>3, FS_AddElement DEF Counted
  <2> HIDE DEF c, k
  <2> QED
    BY <1>1, <2>1 DEF Counted
<1>5. k <= requeues[c] /\ (status[c] \in {"absent", "pending"} => k < requeues[c])
  BY <1>1, <1>2 DEF SeenBefore, PlannedSince
<1> HIDE DEF c, k
<1>6. LoadedEarlier'
  BY <1>1, <1>2, <1>3, <1>5 DEF LoadedEarlier
<1>7. SeenBefore'
  BY <1>1 DEF SeenBefore
<1>8. \A v \in Workers, j \in Jobs : v # w /\ <<v, seen[v][j]>> \in loaders'[j] => <<v, seen[v][j]>> \in loaders[j]
  BY <1>1
<1>9. CandidateUnloaded' /\ ClaimedUnloaded' /\ PlannedSince'
  BY <1>1, <1>2, <1>8 DEF CandidateUnloaded, ClaimedUnloaded, PlannedSince
<1> QED
  BY <1>4, <1>6, <1>7, <1>9

LEMMA RequeuingRepeats ==
  ASSUME Repeating, HistoryNext, NEW r \in Recoveries, SavePending(r), Typed', HistoryTypeOK'
  PROVE  Repeating'
<1> USE DEF Repeating, Typed, TypeOK, HolderHasJob, HistoryTypeOK
<1>1. /\ rcur[r] \in Jobs /\ requeues' = [requeues EXCEPT ![rcur[r]] = @ + 1]
      /\ seen' = seen /\ loads' = loads /\ loaders' = loaders
  BY SavingRequeues
<1>2. /\ status' = [status EXCEPT ![rcur[r]] = "pending"]
      /\ pc' = pc /\ cur' = cur /\ cands' = cands
  BY DEF SavePending, SaveStatus, workerVars
<1>3. Counted'
  BY <1>1 DEF Counted
<1>4. SeenBefore' /\ LoadedEarlier'
  BY <1>1, <1>2 DEF SeenBefore, LoadedEarlier
<1>5. CandidateUnloaded' /\ ClaimedUnloaded'
  BY <1>1, <1>2 DEF CandidateUnloaded, ClaimedUnloaded
<1>6. PlannedSince'
  BY <1>1, <1>2 DEF PlannedSince, SeenBefore
<1> QED
  BY <1>3, <1>4, <1>5, <1>6

LEMMA NextRepeats == Repeating /\ [HistoryNext]_hvars => Repeating'
<1> SUFFICES ASSUME Repeating, [HistoryNext]_hvars
             PROVE  Repeating'
  OBVIOUS
<1>0. Typed' /\ HistoryTypeOK' /\ Typed /\ HistoryTypeOK
  BY HistoryNextTyped DEF Repeating
<1>1. ASSUME HistoryKept, cands' = cands, pc' = pc, cur' = cur,
             \A j \in Jobs : status'[j] \in {"absent", "pending"} => status[j] \in {"absent", "pending"}
      PROVE  Repeating'
  BY <1>0, <1>1 DEF Repeating, Typed, TypeOK, HolderHasJob, HistoryTypeOK, HistoryKept, Counted,
     SeenBefore, LoadedEarlier, CandidateUnloaded, ClaimedUnloaded, PlannedSince
<1>2. CASE UNCHANGED hvars
  BY <1>1, <1>2 DEF hvars, vars, historyVars, jobVars, workerVars, HistoryKept
<1>3. ASSUME HistoryNext, NEW w \in Workers, WorkerStep(w) \/ Crash(w)
      PROVE  Repeating'
  BY <1>0, <1>3, WorkerRepeats, ListingRepeats, LoadingRepeats, WorkerIsQuiet, QuietKeeps
<1>4. ASSUME HistoryNext, NEW r \in Recoveries, SavePending(r)
      PROVE  Repeating'
  BY <1>0, <1>4, RequeuingRepeats
<1>5. ASSUME HistoryNext,
             \/ \E j \in Jobs : RequestJob(j)
             \/ \E r \in Recoveries : \/ ListStale(r) \/ SkipActive(r) \/ FindUnleased(r)
                                      \/ AuditRecovered(r) \/ AbortRecovery(r)
             \/ Tick
      PROVE  Repeating'
  <2>1. HistoryKept
    BY <1>0, <1>5, OthersAreQuiet, QuietKeeps
  <2>2. UNCHANGED workerVars
    BY <1>5 DEF RequestJob, ListStale, SkipActive, FindUnleased, AuditRecovered, AbortRecovery, Tick
  <2>3. \A j \in Jobs : status'[j] \in {"absent", "pending"} => status[j] \in {"absent", "pending"}
    BY <1>0, <1>5 DEF Typed, TypeOK, RequestJob, SaveStatus, ListStale, SkipActive, FindUnleased,
       AuditRecovered, AbortRecovery, Tick, jobVars
  <2> QED
    BY <1>1, <2>1, <2>2, <2>3 DEF workerVars
<1> QED
  BY <1>2, <1>3, <1>4, <1>5 DEF HistoryNext, Next, RecoveryStep

LEMMA RepeatingBounds == Repeating => LoadsBounded
<1> SUFFICES ASSUME Repeating, NEW j \in Jobs
             PROVE  loads[j] <= Cardinality(Workers) * (1 + requeues[j])
  BY DEF LoadsBounded
<1> DEFINE n == requeues[j]
<1>1. n \in 0 .. MaxRequeues /\ n \in Nat
  BY HistoryAssumption DEF Repeating, HistoryTypeOK
<1> HIDE DEF n
<1>2. IsFiniteSet(0 .. n) /\ Cardinality(0 .. n) = n + 1
  BY <1>1, FS_Interval
<1>3. IsFiniteSet(Workers \X (0 .. n)) /\ Cardinality(Workers \X (0 .. n)) = Cardinality(Workers) * (n + 1)
  BY <1>2, HistoryAssumption, FS_Product
<1>4. loaders[j] \subseteq Workers \X (0 .. n)
  BY <1>1 DEF n, Repeating, HistoryTypeOK, LoadedEarlier
<1>5. loads[j] = Cardinality(loaders[j])
  BY DEF Repeating, Counted
<1>6. Cardinality(loaders[j]) <= Cardinality(Workers \X (0 .. n))
  BY <1>3, <1>4, FS_Subset
<1>7. n + 1 = 1 + n
  BY <1>1
<1> QED
  BY <1>3, <1>5, <1>6, <1>7 DEF n

\* For any number of jobs and recoveries and finitely many replicas: a job's rows
\* are committed at most once per replica, and once more per replica each time
\* the recovery puts the job back.
THEOREM SpecLoadsBounded == HistorySpec => []LoadsBounded
BY InitRepeats, NextRepeats, RepeatingBounds, PTL DEF HistorySpec

-----------------------------------------------------------------------------
(* The refinement of PublishOnce by one worker that no recovery            *)
(* interferes with.  That a claimed job is pending comes from              *)
(* PublishExecutionProofs; from there on the status and the rows follow    *)
(* the program counter.                                                    *)

Unassisted == (\A v, w \in Workers : v = w) /\ Recoveries = {}

\* What each status says of the rows.
RowsOfStatus ==
  \A j \in Jobs :
    /\ status[j] \in {"absent", "pending"} => loads[j] = 0
    /\ loads[j] \in {0, 1}

Stage(w) ==
  LET s == status[cur[w]]
      n == loads[cur[w]] IN
  /\ pc[w] \in {"audit_started", "execute"} => s = "planning" /\ n = 0
  /\ pc[w] = "save_completed" => s = "planning" /\ n = 1
  /\ pc[w] = "save_failed" => s \in {"pending", "planning", "completed"}
  /\ pc[w] \in {"record_lineage", "audit_completed", "complete"} => s = "completed"

Staged == HistoryTypeOK /\ RowsOfStatus /\ \A w \in Workers : Stage(w)

OnceVars == <<status, loads>>

\* One step of the worker: what it does to the stages, and to the abstract
\* variables.
LEMMA WorkerRefines ==
  ASSUME Unassisted, Sparing, Staged, NEW w \in Workers, WorkerStep(w) \/ Crash(w),
         ~ListPending(w), ~Execute(w), HistoryKept, HistoryTypeOK'
  PROVE  Staged' /\ (Once!Next \/ UNCHANGED OnceVars)
<1> USE DEF Unassisted, Sparing, Typed, TypeOK, HolderHasJob, HistoryTypeOK, Staged, Stage,
            RowsOfStatus, HistoryKept, OnceVars
<1>1. ASSUME NEW j \in Jobs, Once!Start(j) \/ Once!Finish(j) \/ Once!Fail(j)
      PROVE  Once!Next
  BY <1>1 DEF Once!Next
<1>2. CASE SkipLeased(w) \/ Restart(w)
  BY <1>2 DEF SkipLeased, NextCandidate, Restart, Goto, jobVars
<1>3. CASE Claim(w)
  BY <1>3 DEF Claim, jobVars
<1>4. CASE Heartbeat(w)
  BY <1>4 DEF Heartbeat, Goto, jobVars
<1>5. CASE SavePlanning(w)
  <2>1. cur[w] \in Jobs /\ status[cur[w]] = "pending" /\ loads[cur[w]] = 0
    BY <1>5 DEF SavePlanning, Goto, ClaimedPending
  <2>2. Once!Start(cur[w])
    BY <1>5, <2>1 DEF SavePlanning, SaveStatus, Once!Start
  <2>3. Staged'
    BY <1>5, <2>1 DEF SavePlanning, Goto, SaveStatus
  <2> QED
    BY <1>1, <2>1, <2>2, <2>3
<1>6. CASE AuditStarted(w)
  BY <1>6 DEF AuditStarted, Goto
<1>7. CASE SaveCompleted(w)
  <2>1. cur[w] \in Jobs /\ status[cur[w]] = "planning" /\ loads[cur[w]] = 1
    BY <1>7 DEF SaveCompleted, Goto
  <2>2. Once!Finish(cur[w])
    BY <1>7, <2>1 DEF SaveCompleted, SaveStatus, Once!Finish
  <2>3. Staged'
    BY <1>7, <2>1 DEF SaveCompleted, Goto, SaveStatus
  <2> QED
    BY <1>1, <2>1, <2>2, <2>3
<1>8. CASE RecordLineage(w)
  BY <1>8 DEF RecordLineage, Goto
<1>9. CASE AuditCompleted(w)
  BY <1>9 DEF AuditCompleted, Goto
<1>10. CASE SaveFailed(w)
  <2>1. cur[w] \in Jobs /\ status[cur[w]] \in {"pending", "planning", "completed"}
    BY <1>10 DEF SaveFailed, Goto
  <2>2. Once!Fail(cur[w])
    BY <1>10, <2>1 DEF SaveFailed, SaveStatus, Once!Fail
  <2>3. Staged'
    BY <1>10, <2>1 DEF SaveFailed, Goto, SaveStatus
  <2> QED
    BY <1>1, <2>1, <2>2, <2>3
<1>11. CASE AuditFailed(w)
  BY <1>11 DEF AuditFailed, Goto
<1>12. CASE Complete(w) \/ CompleteFailed(w) \/ Crash(w)
  BY <1>12 DEF Complete, CompleteFailed, Crash, jobVars
<1>13. CASE Raise(w)
  BY <1>13 DEF Raise, jobVars, ClaimedPending
<1> QED
  BY <1>2, <1>3, <1>4, <1>5, <1>6, <1>7, <1>8, <1>9, <1>10, <1>11, <1>12, <1>13 DEF WorkerStep

LEMMA StepRefines ==
  ASSUME Unassisted, Sparing, Staged, [HistoryNext]_hvars
  PROVE  Staged' /\ [Once!Next]_OnceVars
<1>0. Typed /\ HistoryTypeOK /\ HistoryTypeOK'
  BY HistoryNextTyped DEF Sparing, Staged
<1>1. CASE UNCHANGED hvars
  BY <1>0, <1>1 DEF Staged, Stage, RowsOfStatus, OnceVars, hvars, vars, historyVars, jobVars, workerVars
<1>2. ASSUME HistoryNext, NEW j \in Jobs, RequestJob(j)
      PROVE  Staged' /\ Once!Next
  <2>1. HistoryKept
    BY <1>0, <1>2, OthersAreQuiet, QuietKeeps
  <2>2. Once!Submit(j)
    BY <1>2, <2>1 DEF RequestJob, SaveStatus, Once!Submit, HistoryKept
  <2>3. Staged'
    BY <1>0, <1>2, <2>1 DEF Typed, TypeOK, HolderHasJob, HistoryTypeOK, Staged, Stage, RowsOfStatus,
       RequestJob, SaveStatus, HistoryKept, workerVars
  <2> QED
    BY <2>2, <2>3 DEF Once!Next
<1>3. ASSUME HistoryNext, NEW w \in Workers, WorkerStep(w) \/ Crash(w), ~ListPending(w), ~Execute(w)
      PROVE  Staged' /\ [Once!Next]_OnceVars
  BY <1>0, <1>3, WorkerRefines, WorkerIsQuiet, QuietKeeps
<1>4. ASSUME HistoryNext, NEW w \in Workers, ListPending(w)
      PROVE  Staged' /\ UNCHANGED OnceVars
  BY <1>0, <1>4, ListingSees DEF Typed, TypeOK, Staged, Stage, RowsOfStatus, OnceVars, ListPending, jobVars
<1>5. ASSUME HistoryNext, NEW w \in Workers, Execute(w)
      PROVE  Staged' /\ Once!Next
  <2>1. cur[w] \in Jobs /\ loads' = [loads EXCEPT ![cur[w]] = @ + 1]
    BY <1>0, <1>5, ExecuteLoads
  <2>2. status[cur[w]] = "planning" /\ loads[cur[w]] = 0 /\ status' = status
    BY <1>5 DEF Staged, Stage, Execute, Goto
  <2>3. loads' = [loads EXCEPT ![cur[w]] = 1]
    BY <2>1, <2>2 DEF Staged, HistoryTypeOK
  <2>4. Once!Load(cur[w])
    BY <2>2, <2>3 DEF Once!Load
  <2>5. Staged'
    BY <1>0, <1>5, <2>1, <2>2, <2>3 DEF Unassisted, Typed, TypeOK, HistoryTypeOK, Staged, Stage,
       RowsOfStatus, Execute, Goto
  <2> QED
    BY <2>1, <2>4, <2>5 DEF Once!Next
<1>6. ASSUME HistoryNext, Tick
      PROVE  Staged' /\ UNCHANGED OnceVars
  <2>1. HistoryKept
    BY <1>0, <1>6, OthersAreQuiet, QuietKeeps
  <2> QED
    BY <1>0, <1>6, <2>1 DEF Staged, Stage, RowsOfStatus, OnceVars, HistoryKept, Tick, jobVars, workerVars
<1> QED
  BY <1>1, <1>2, <1>3, <1>4, <1>5, <1>6 DEF HistoryNext, Next, Unassisted

\* A publish worker on its own publishes every job at most once and only ever
\* moves a job forward, for any number of jobs and any lease length: every step
\* of the queue and the worker is one of PublishOnce or invisible there.
THEOREM RefinesPublishOnce ==
  ASSUME Unassisted
  PROVE  HistorySpec => PublishesOnce
<1>1. HistoryInit => Staged /\ Once!Init
  <2>1. HistoryInit => HistoryTypeOK
    BY InitRepeats DEF Repeating
  <2> QED
    BY <2>1 DEF HistoryInit, Init, Staged, Stage, RowsOfStatus, Once!Init
<1>2. HistorySpec => Spec
  <2>1. HistoryInit => Init
    BY DEF HistoryInit
  <2>2. [HistoryNext]_hvars => [Next]_vars
    BY DEF HistoryNext, hvars
  <2> QED
    BY <2>1, <2>2, PTL DEF HistorySpec, Spec
<1>3. Spec => []Sparing
  BY AlwaysSparing DEF Unassisted, OneOfEach
<1>4. Sparing /\ Staged /\ [HistoryNext]_hvars => Staged' /\ [Once!Next]_OnceVars
  BY StepRefines
<1> QED
  BY <1>1, <1>2, <1>3, <1>4, PTL DEF HistorySpec, PublishesOnce, Once!Spec, OnceVars
=============================================================================
