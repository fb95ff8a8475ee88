------------------------ MODULE BaselineRefreshProofs ------------------------
(* Proofs about BaselineRefresh: for any number of jobs, workers and       *)
(* recoveries that no worker adds two baselines, and for one worker that   *)
(* the assets of a baseline are of one execution and that a baseline that  *)
(* lacks some can be told by its jobs.                                     *)
EXTENDS BaselineRefresh, JobQueueProofs

-----------------------------------------------------------------------------
(* The first invariant: what a worker has in its hands.  As long as it has *)
(* found no baseline, none is its own.                                     *)

EmptyHanded == Idle \cup ExceptCalls \cup {"lookup"}

Preparing == {"heartbeat", "save_active", "work", "execute", "save_baseline"}

Replacing == {"list_assets", "delete_assets", "add_assets", "save_completed"}

Finishing == {"record", "complete"}

InHand(w) ==
  /\ existing[w] \in Baselines => Exists(existing[w])
  /\ pc[w] \in EmptyHanded => existing[w] = NoBaseline
  /\ pc[w] \in Preparing /\ existing[w] = NoBaseline =>
       \A b \in Baselines : Exists(b) => creator[b] # w
  /\ pc[w] \in Replacing \cup Finishing => existing[w] \in Baselines
  /\ pc[w] \in {"save_baseline"} \cup Replacing => made[w] \in Versions

Kept ==
  /\ QueueTypes
  /\ TypeOK
  /\ \A w \in Workers : InHand(w)
  /\ \A b \in Baselines : Exists(b) => creator[b] \in Workers
  /\ OneBaselinePerWorker


LEMMA Calls ==
  /\ QueueCalls \subseteq RefreshCalls
  /\ {"execute", "save_baseline", "list_assets", "delete_assets", "add_assets"} \subseteq RefreshCalls
  /\ RefreshCalls = EmptyHanded \cup Preparing \cup Replacing \cup Finishing
  /\ EmptyHanded \cap (Preparing \cup Replacing \cup Finishing) = {}
  /\ Preparing \cap (Replacing \cup Finishing) = {}
  /\ Replacing \cap Finishing = {} /\ "save_baseline" \in Preparing
BY DEF QueueCalls, RefreshCalls, BeforeTry, FrameCalls, ExceptCalls, EmptyHanded, Preparing, Replacing,
       Finishing, Idle

\* The frame moves one worker, and does not lead it into or out of its work.
LEMMA FramePath ==
  ASSUME QueueTypes, pc \in [Workers -> RefreshCalls], NEW w \in Workers, FrameStep(w)
  PROVE  /\ \A v \in Workers \ {w} : pc'[v] = pc[v] /\ cur'[v] = cur[v]
         /\ \/ pc[w] \in EmptyHanded /\ pc'[w] \in EmptyHanded
            \/ pc[w] = "heartbeat" /\ pc'[w] = "save_active" /\ UNCHANGED status
            \/ pc[w] = "save_active" /\ pc'[w] = "work" /\ cur'[w] = cur[w]
               /\ SaveStatus(cur[w], Active(cur[w]))
            \/ pc[w] = "save_completed" /\ pc'[w] = "record" /\ SaveStatus(cur[w], "completed")
            \/ pc[w] = "record" /\ pc'[w] = "complete" /\ UNCHANGED status
         /\ \/ UNCHANGED status
            \/ \E s \in {Active(cur[w]), "failed"} : SaveStatus(cur[w], s)
            \/ pc[w] = "save_completed" /\ SaveStatus(cur[w], "completed")
<1> USE DEF QueueTypes, EmptyHanded, Idle, ExceptCalls, workerVars
<1>1. CASE ListQueued(w)
  BY <1>1 DEF ListQueued
<1>2. CASE SkipLeased(w)
  BY <1>2 DEF SkipLeased, NextCandidate
<1>3. CASE Claim(w)
  BY <1>3 DEF Claim, NextCandidate
<1>4. CASE Heartbeat(w)
  BY <1>4 DEF Heartbeat, Goto
<1>5. CASE SaveActive(w)
  BY <1>5 DEF SaveActive, Goto
<1>6. CASE SaveCompleted(w)
  BY <1>6 DEF SaveCompleted, Goto
<1>7. CASE RecordOutcome(w)
  BY <1>7 DEF RecordOutcome, WorkerGoto, Goto
<1>8. CASE SaveFailed(w)
  BY <1>8 DEF SaveFailed, Goto
<1>9. CASE CompleteFailed(w)
  BY <1>9 DEF CompleteFailed, Release
<1>10. CASE Restart(w)
  BY <1>10 DEF Restart, WorkerGoto, Goto
<1> QED BY <1>1, <1>2, <1>3, <1>4, <1>5, <1>6, <1>7, <1>8, <1>9, <1>10 DEF FrameStep

LEMMA InitKept == Init => Kept
<1> SUFFICES ASSUME Init PROVE Kept
  OBVIOUS
<1>1. QueueTypes
  BY QueueInitTypes DEF Init
<1>2. \A b \in Baselines : ~Exists(b)
  BY DEF Init, Exists
<1>3. \A w \in Workers : pc[w] = "poll" /\ existing[w] = NoBaseline
  BY DEF Init, QueueInit
<1>4. TypeOK
  BY <1>1, Calls DEF Init, QueueInit, QueueTypes, TypeOK, BaselineStatus, QueueCalls, Idle, BeforeTry
<1>5. \A w \in Workers : InHand(w)
  BY <1>3, RefreshAssumption DEF InHand, EmptyHanded, Idle, Preparing, Replacing, Finishing
<1> QED BY <1>1, <1>2, <1>4, <1>5 DEF Kept, OneBaselinePerWorker

\* A step that adds no baseline and leaves every worker but one alone.
LEMMA AddsNone ==
  ASSUME Kept, QueueTypes', TypeOK', UNCHANGED creator,
         \A b \in Baselines : Exists(b)' <=> Exists(b),
         \A v \in Workers : InHand(v)'
  PROVE  Kept'
BY DEF Kept, OneBaselinePerWorker

LEMMA FrameKeeps ==
  ASSUME Kept, NEW w \in Workers, FrameStep(w), UNCHANGED baselineVars
  PROVE  Kept'
<1>1. QueueTypes' /\ pc' \in [Workers -> RefreshCalls]
  BY FrameTypes, Calls DEF Kept, TypeOK
<1>2. UNCHANGED <<baselines, assets, existing, made, old, new, creator>>
  BY DEF baselineVars, materialVars
<1>3. TypeOK'
  BY <1>1, <1>2 DEF Kept, TypeOK, QueueTypes
<1>4. \A v \in Workers : InHand(v)'
  BY <1>2, FramePath, Calls
  DEF Kept, TypeOK, InHand, Exists, EmptyHanded, Preparing, Replacing, Finishing, Idle, ExceptCalls
<1> QED BY <1>1, <1>2, <1>3, <1>4, AddsNone DEF Exists

LEMMA DropKeeps ==
  ASSUME Kept, NEW w \in Workers, Complete(w) \/ Raise(w) \/ Crash(w), DropMaterial(w)
  PROVE  Kept'
<1>1. QueueTypes' /\ pc' \in [Workers -> RefreshCalls]
  BY FrameTypes, Calls DEF Kept, TypeOK
<1>2. /\ UNCHANGED <<baselines, assets, creator>>
      /\ existing' = [existing EXCEPT ![w] = NoBaseline] /\ made' = [made EXCEPT ![w] = NoVersion]
      /\ old' = [old EXCEPT ![w] = {}] /\ new' = [new EXCEPT ![w] = {}]
  BY DEF DropMaterial
<1>3. TypeOK'
  BY <1>1, <1>2 DEF Kept, TypeOK, QueueTypes
<1>4. /\ \A v \in Workers \ {w} : pc'[v] = pc[v]
      /\ pc'[w] \in EmptyHanded
  BY DEF Complete, Release, Raise, Crash, EmptyHanded, Idle, ExceptCalls, Kept, TypeOK
<1>5. ASSUME NEW v \in Workers
      PROVE  InHand(v)'
  <2>1. CASE v = w
    BY <1>2, <1>4, <2>1, Calls, RefreshAssumption DEF InHand, Kept, TypeOK
  <2>2. CASE v # w
    BY <1>2, <1>4, <2>2 DEF InHand, Kept, TypeOK, Exists
  <2> QED BY <2>1, <2>2
<1> QED BY <1>1, <1>2, <1>3, <1>5, AddsNone DEF Exists

\* What the calls of the work have in common.
LEMMA CallMoves ==
  ASSUME Kept, NEW w \in Workers, NEW from \in RefreshCalls \ Idle, NEW to \in RefreshCalls \ Idle,
         WorkerGoto(w, from, to)
  PROVE  /\ QueueTypes' /\ pc' \in [Workers -> RefreshCalls] /\ UNCHANGED <<status, cur>>
         /\ pc[w] = from /\ pc'[w] = to /\ cur[w] \in Jobs
         /\ \A v \in Workers \ {w} : pc'[v] = pc[v]
<1>1. QueueTypes' /\ pc' \in [Workers -> RefreshCalls]
  BY GotoTypes DEF Kept, TypeOK
<1> QED BY <1>1 DEF WorkerGoto, Goto, Kept, TypeOK, QueueTypes, QueueOK, Idle

LEMMA WorkKeeps ==
  ASSUME Kept, NEW w \in Workers,
         \/ FindExisting(w) \/ MarkRefreshing(w) \/ Execute(w)
         \/ ListAssets(w) \/ DeleteAsset(w) \/ AddAsset(w)
  PROVE  Kept'
<1> USE RefreshAssumption
<1>1. CASE FindExisting(w)
  <2>1. /\ QueueTypes' /\ pc' \in [Workers -> RefreshCalls]
        /\ pc[w] = "lookup" /\ pc'[w] = "heartbeat" /\ \A v \in Workers \ {w} : pc'[v] = pc[v]
    BY <1>1, CallMoves, Calls DEF FindExisting, EmptyHanded, Preparing, Idle
  <2>2. /\ UNCHANGED <<baselines, assets, made, old, new, creator>>
        /\ \/ \E b \in Baselines : Exists(b) /\ existing' = [existing EXCEPT ![w] = b]
           \/ (\A b \in Baselines : ~Exists(b)) /\ UNCHANGED existing
    BY <1>1 DEF FindExisting
  <2>3. TypeOK'
    BY <2>1, <2>2 DEF Kept, TypeOK, QueueTypes
  <2>4. \A v \in Workers : InHand(v)'
    BY <2>1, <2>2 DEF Kept, TypeOK, InHand, Exists, EmptyHanded, Preparing, Replacing, Finishing, Idle, ExceptCalls
  <2> QED BY <2>1, <2>2, <2>3, <2>4, AddsNone DEF Exists
<1>2. CASE MarkRefreshing(w)
  <2>1. /\ QueueTypes' /\ pc' \in [Workers -> RefreshCalls]
        /\ pc[w] = "work" /\ pc'[w] = "execute" /\ \A v \in Workers \ {w} : pc'[v] = pc[v]
    BY <1>2, CallMoves, Calls DEF MarkRefreshing, Preparing, Idle
  <2>2. /\ UNCHANGED <<assets, existing, made, old, new, creator>>
        /\ IF existing[w] # NoBaseline THEN baselines' = [baselines EXCEPT ![existing[w]] = "refreshing"]
                                       ELSE UNCHANGED baselines
    BY <1>2 DEF MarkRefreshing, SaveBaselineStatus, materialVars
  <2>3. existing[w] # NoBaseline => existing[w] \in Baselines /\ Exists(existing[w])
    BY DEF Kept, TypeOK, InHand
  <2>4. TypeOK'
    BY <2>1, <2>2, <2>3 DEF Kept, TypeOK, QueueTypes, BaselineStatus
  <2>5. \A b \in Baselines : Exists(b)' <=> Exists(b)
    BY <2>2, <2>3 DEF Kept, TypeOK, Exists
  <2>6. \A v \in Workers : InHand(v)'
    BY <2>1, <2>2, <2>5 DEF Kept, TypeOK, InHand, EmptyHanded, Preparing, Replacing, Finishing, Idle, ExceptCalls
  <2> QED BY <2>1, <2>2, <2>4, <2>5, <2>6, AddsNone
<1>3. CASE Execute(w)
  <2>1. /\ QueueTypes' /\ pc' \in [Workers -> RefreshCalls]
        /\ pc[w] = "execute" /\ pc'[w] = "save_baseline" /\ \A v \in Workers \ {w} : pc'[v] = pc[v]
    BY <1>3, CallMoves, Calls DEF Execute, Preparing, Idle
  <2>2. PICK v \in Versions : made' = [made EXCEPT ![w] = v]
    BY <1>3 DEF Execute
  <2>3. UNCHANGED <<baselines, assets, existing, old, new, creator>>
    BY <1>3 DEF Execute
  <2>4. TypeOK'
    BY <2>1, <2>2, <2>3 DEF Kept, TypeOK, QueueTypes
  <2>5. \A u \in Workers : InHand(u)'
    BY <2>1, <2>2, <2>3
    DEF Kept, TypeOK, InHand, Exists, EmptyHanded, Preparing, Replacing, Finishing, Idle, ExceptCalls
  <2> QED BY <2>1, <2>3, <2>4, <2>5, AddsNone DEF Exists
<1>4. CASE ListAssets(w)
  <2>1. /\ QueueTypes' /\ pc' \in [Workers -> RefreshCalls]
        /\ pc[w] = "list_assets" /\ pc'[w] = "delete_assets" /\ \A v \in Workers \ {w} : pc'[v] = pc[v]
    BY <1>4, CallMoves, Calls DEF ListAssets, Replacing, Idle
  <2>2. /\ UNCHANGED <<baselines, assets, existing, made, creator>>
        /\ old' = [old EXCEPT ![w] = AssetsOf(existing[w])]
        /\ new' = [new EXCEPT ![w] = Materialized(existing[w], made[w])]
    BY <1>4 DEF ListAssets
  <2>3. AssetsOf(existing[w]) \in SUBSET Asset /\ Materialized(existing[w], made[w]) \in SUBSET Asset
    BY <2>1 DEF Kept, TypeOK, InHand, Replacing, AssetsOf, Materialized, Asset
  <2>4. TypeOK'
    BY <2>1, <2>2, <2>3 DEF Kept, TypeOK, QueueTypes
  <2>5. \A v \in Workers : InHand(v)'
    BY <2>1, <2>2
    DEF Kept, TypeOK, InHand, Exists, EmptyHanded, Preparing, Replacing, Finishing, Idle, ExceptCalls
  <2> QED BY <2>1, <2>2, <2>4, <2>5, AddsNone DEF Exists
<1>5. CASE DeleteAsset(w)
  <2>1. PICK a \in old[w] : /\ WorkerGoto(w, "delete_assets", "delete_assets")
                            /\ assets' = assets \ {a} /\ old' = [old EXCEPT ![w] = @ \ {a}]
                            /\ UNCHANGED <<baselines, existing, made, new, creator>>
    BY <1>5 DEF DeleteAsset
  <2>2. /\ QueueTypes' /\ pc' \in [Workers -> RefreshCalls]
        /\ pc[w] = "delete_assets" /\ pc'[w] = "delete_assets" /\ \A v \in Workers \ {w} : pc'[v] = pc[v]
    BY <2>1, CallMoves, Calls DEF Replacing, Idle
  <2>3. TypeOK'
    BY <2>1, <2>2 DEF Kept, TypeOK, QueueTypes
  <2>4. \A v \in Workers : InHand(v)'
    BY <2>1, <2>2 DEF Kept, TypeOK, InHand, Exists
  <2> QED BY <2>1, <2>2, <2>3, <2>4, AddsNone DEF Exists
<1>6. CASE AddAsset(w)
  <2>1. PICK a \in new[w], from \in {"delete_assets", "add_assets"} :
          /\ WorkerGoto(w, from, IF new[w] = {a} THEN "save_completed" ELSE "add_assets")
          /\ assets' = assets \cup {a} /\ new' = [new EXCEPT ![w] = @ \ {a}]
          /\ UNCHANGED <<baselines, existing, made, old, creator>>
    BY <1>6 DEF AddAsset
  <2>2. /\ QueueTypes' /\ pc' \in [Workers -> RefreshCalls]
        /\ pc[w] \in Replacing /\ pc'[w] \in Replacing /\ \A v \in Workers \ {w} : pc'[v] = pc[v]
    BY <2>1, CallMoves, Calls DEF Replacing, Idle
  <2>3. TypeOK'
    BY <2>1, <2>2 DEF Kept, TypeOK, QueueTypes
  <2>4. \A v \in Workers : InHand(v)'
    BY <2>1, <2>2, Calls DEF Kept, TypeOK, InHand, Exists
  <2> QED BY <2>1, <2>2, <2>3, <2>4, AddsNone DEF Exists
<1> QED BY <1>1, <1>2, <1>3, <1>4, <1>5, <1>6

\* The one step that may add a baseline.
LEMMA SaveKeeps ==
  ASSUME Kept, NEW w \in Workers, SaveBaseline(w)
  PROVE  Kept'
<1> USE RefreshAssumption
<1>1. /\ QueueTypes' /\ pc' \in [Workers -> RefreshCalls]
      /\ pc[w] = "save_baseline" /\ pc'[w] = "list_assets" /\ \A v \in Workers \ {w} : pc'[v] = pc[v]
  BY CallMoves, Calls DEF SaveBaseline, Preparing, Replacing, Idle
<1>2. PICK b \in Baselines :
        /\ IF existing[w] = NoBaseline
           THEN ~Exists(b) /\ creator' = [creator EXCEPT ![b] = w]
           ELSE b = existing[w] /\ UNCHANGED creator
        /\ baselines' = [baselines EXCEPT ![b] = "active"]
        /\ existing' = [existing EXCEPT ![w] = b]
        /\ UNCHANGED <<assets, made, old, new>>
  BY DEF SaveBaseline, SaveBaselineStatus
<1>3. TypeOK'
  BY <1>1, <1>2 DEF Kept, TypeOK, QueueTypes, BaselineStatus
<1>4. \A c \in Baselines : Exists(c)' <=> Exists(c) \/ c = b
  BY <1>2 DEF Kept, TypeOK, Exists
<1>5. existing[w] # NoBaseline => existing[w] = b /\ Exists(b)
  BY <1>2 DEF Kept, TypeOK, InHand
<1>6. existing[w] = NoBaseline => \A c \in Baselines : Exists(c) => creator[c] # w
  BY <1>1 DEF Kept, InHand, Preparing
<1>7. \A v \in Workers : InHand(v)'
  <2> SUFFICES ASSUME NEW v \in Workers PROVE InHand(v)'
    OBVIOUS
  <2>1. CASE v = w
    BY <1>1, <1>2, <1>4, <2>1
    DEF Kept, TypeOK, InHand, EmptyHanded, Preparing, Replacing, Finishing, Idle, ExceptCalls
  <2>2. CASE v # w
    BY <1>1, <1>2, <1>4, <1>5, <2>2 DEF Kept, TypeOK, InHand
  <2> QED BY <2>1, <2>2
<1>8. \A c \in Baselines : Exists(c)' => creator'[c] \in Workers
  BY <1>2, <1>4, <1>5 DEF Kept, TypeOK
<1>9. OneBaselinePerWorker'
  BY <1>2, <1>4, <1>5, <1>6 DEF Kept, TypeOK, OneBaselinePerWorker
<1> QED BY <1>1, <1>3, <1>7, <1>8, <1>9 DEF Kept

LEMMA NextKept == Kept /\ [Next]_vars => Kept'
<1> SUFFICES ASSUME Kept, [Next]_vars
             PROVE  Kept'
  OBVIOUS
<1>1. ASSUME QueueTypes', UNCHANGED <<pc, baselines, assets, existing, made, old, new, creator>>
      PROVE  Kept'
  <2>1. TypeOK'
    BY <1>1 DEF Kept, TypeOK, QueueTypes
  <2>2. \A v \in Workers : InHand(v)'
    BY <1>1 DEF Kept, InHand, Exists
  <2> QED BY <1>1, <2>1, <2>2, AddsNone DEF Exists
<1>2. CASE UNCHANGED vars
  <2>1. UNCHANGED <<leases, status, pc, cands, cur, rjobs, rcur>>
        /\ UNCHANGED <<baselines, assets, existing, made, old, new, creator>>
    BY <1>2 DEF vars, queueVars, workerVars, recoveryVars, baselineVars, materialVars
  <2>2. QueueTypes'
    BY <2>1 DEF Kept, QueueTypes, QueueOK, LeasesOK, StatusOf, Queued, Active
  <2> QED BY <1>1, <2>1, <2>2
<1>3. ASSUME NEW j \in Jobs, RequestRefresh(j)
      PROVE  Kept'
  <2>1. QueueTypes' /\ UNCHANGED <<pc, baselines, assets, existing, made, old, new, creator>>
    BY <1>3, AddTypes DEF RequestRefresh, AddJob, Kept, workerVars, baselineVars, materialVars
  <2> QED BY <1>1, <2>1
<1>4. ASSUME NEW w \in Workers, RefreshStep(w) \/ CrashRefresh(w)
      PROVE  Kept'
  BY <1>4, FrameKeeps, DropKeeps, WorkKeeps, SaveKeeps DEF RefreshStep, CrashRefresh
<1>5. CASE (Tick \/ \E r \in Recoveries : RecoveryStep(r) \/ AbortRecovery(r)) /\ UNCHANGED baselineVars
  <2>1. QueueTypes' /\ UNCHANGED <<pc, baselines, assets, existing, made, old, new, creator>>
    BY <1>5, RecoveryTypes DEF Kept, baselineVars, materialVars
  <2> QED BY <1>1, <2>1
<1> QED BY <1>2, <1>3, <1>4, <1>5 DEF Next

LEMMA SpecKept == Spec => []Kept
BY InitKept, NextKept, PTL DEF Spec

\* The records, and what the worker keeps of them, have the types the store
\* gives them, for any number of jobs, workers and recoveries.
THEOREM SpecTypeOK == Spec => []TypeOK
<1>1. Kept => TypeOK
  BY DEF Kept
<1> QED BY SpecKept, <1>1, PTL

\* No worker adds two baselines for the one profile, wherever its refreshes
\* fail and however often the recovery puts them back.
THEOREM SpecOneBaselinePerWorker == Spec => []OneBaselinePerWorker
<1>1. Kept => OneBaselinePerWorker
  BY DEF Kept
<1> QED BY SpecKept, <1>1, PTL

-----------------------------------------------------------------------------
(* The second invariant, for one worker: the job it works on is neither    *)
(* absent nor completed while it does damage, and the assets it has not    *)
(* deleted and those it has added are all there are.                       *)

Replaces(w) ==
  /\ pc[w] \in Replacing => baselines[existing[w]] = "active"
  /\ pc[w] = "delete_assets" =>
       old[w] = AssetsOf(existing[w]) /\ new[w] = Materialized(existing[w], made[w])
  /\ pc[w] = "add_assets" =>
       /\ old[w] = {} /\ new[w] \subseteq Materialized(existing[w], made[w])
       /\ AssetsOf(existing[w]) = Materialized(existing[w], made[w]) \ new[w]
  /\ pc[w] = "save_completed" => AssetsOf(existing[w]) = Materialized(existing[w], made[w])

Settled(j) == status[j] \in {"absent", "completed"}

AtWork(w) == pc[w] \in {"work", "execute", "save_baseline"} \cup Replacing => ~Settled(cur[w])

Visible ==
  /\ OneVersion
  /\ DamageIsVisible
  /\ \A w \in Workers : Replaces(w) /\ AtWork(w)

\* With one worker there is one baseline, the one in its hands.
Alone == \A v, w \in Workers : v = w

Good(b) == baselines[b] = "active" /\ Whole(b)

LEMMA OnlyOne ==
  ASSUME Kept, Alone, NEW b \in Baselines, NEW c \in Baselines, Exists(b), Exists(c)
  PROVE  b = c
BY DEF Kept, Alone, OneBaselinePerWorker

\* A step after which the same jobs are settled as before, or fewer, and that
\* does damage only if a job that is not settled tells.
LEMMA StaysVisible ==
  ASSUME Kept, Visible, QueueTypes',
         \A b \in Baselines : Exists(b)' =>
           (Exists(b) /\ (Good(b) => Good(b)')) \/ \E j \in Jobs : ~Settled(j)',
         \A j \in Jobs : Settled(j)' => Settled(j) \/ \A b \in Baselines : Exists(b)' => Good(b)'
  PROVE  DamageIsVisible'
<1> SUFFICES ASSUME NEW b \in Baselines, Exists(b)', ~Good(b)', \A j \in Jobs : Settled(j)'
             PROVE  FALSE
  BY DEF DamageIsVisible, Good, Settled
<1>1. \A j \in Jobs : Settled(j)
  OBVIOUS
<1>2. Exists(b) /\ ~Good(b)
  OBVIOUS
<1> QED BY <1>1, <1>2 DEF Visible, DamageIsVisible, Good, Settled

LEMMA InitVisible == Init => Visible
BY DEF Init, QueueInit, Visible, OneVersion, DamageIsVisible, Exists, Replaces, AtWork, Replacing

\* Steps that leave the baselines and their assets alone.
LEMMA QuietStep ==
  ASSUME Kept, Visible, Kept', UNCHANGED <<baselines, assets>>,
         \A w \in Workers : Replaces(w)' /\ AtWork(w)',
         \A j \in Jobs : Settled(j)' => Settled(j) \/ \A b \in Baselines : Exists(b) => Good(b)
  PROVE  Visible'
<1>1. \A b \in Baselines : (Exists(b)' <=> Exists(b)) /\ (Good(b)' <=> Good(b))
  BY DEF Exists, Good, Whole, AssetsOf
<1>2. DamageIsVisible'
  BY <1>1, StaysVisible DEF Kept
<1> QED BY <1>2 DEF Visible, OneVersion

LEMMA FrameVisible ==
  ASSUME Kept, Visible, Alone, Kept', NEW w \in Workers, FrameStep(w), UNCHANGED baselineVars
  PROVE  Visible'
<1>1. UNCHANGED <<baselines, assets, existing, made, old, new, creator>>
  BY DEF baselineVars, materialVars
<1>2. QueueTypes /\ pc \in [Workers -> RefreshCalls]
  BY DEF Kept, TypeOK
<1>3. \A v \in Workers : v = w
  BY DEF Alone
<1>4. Replaces(w)'
  BY <1>1, <1>2, FramePath, Calls
  DEF Visible, Replaces, AssetsOf, EmptyHanded, Preparing, Replacing, Finishing, Idle, ExceptCalls
<1>6. AtWork(w)'
  <2>1. CASE pc[w] = "save_active"
    <3>1. /\ pc'[w] = "work" /\ cur'[w] = cur[w] /\ cur[w] \in Jobs
          /\ SaveStatus(cur[w], Active(cur[w]))
      BY <1>2, <2>1, FramePath, Calls DEF Preparing, EmptyHanded, QueueTypes, QueueOK, Idle
    <3> QED BY <1>2, <3>1, StatusesOfJob DEF AtWork, Settled, SaveStatus, QueueTypes, Ended
  <2>2. CASE pc[w] # "save_active"
    <3>1. pc'[w] \notin {"work", "execute", "save_baseline"} \cup Replacing
      BY <1>2, <2>2, FramePath, Calls DEF EmptyHanded, Replacing, Idle, ExceptCalls
    <3> QED BY <3>1 DEF AtWork
  <2> QED BY <2>1, <2>2
<1>7. ASSUME NEW j \in Jobs, Settled(j)', ~Settled(j)
      PROVE  \A b \in Baselines : Exists(b) => Good(b)
  <2>1. pc[w] = "save_completed"
    BY <1>2, <1>7, FramePath, StatusesOfJob DEF Settled, SaveStatus, QueueTypes, QueueOK, Ended
  <2>2. existing[w] \in Baselines /\ Exists(existing[w]) /\ made[w] \in Versions
    BY <2>1 DEF Kept, InHand, Replacing
  <2>3. Good(existing[w])
    BY <2>1, <2>2 DEF Visible, Replaces, Replacing, Good, Whole
  <2> QED BY <2>2, <2>3, OnlyOne
<1> QED BY <1>1, <1>3, <1>4, <1>6, <1>7, QuietStep

LEMMA DropVisible ==
  ASSUME Kept, Visible, Alone, Kept', NEW w \in Workers, Complete(w) \/ Raise(w) \/ Crash(w), DropMaterial(w)
  PROVE  Visible'
<1>1. UNCHANGED <<baselines, assets, status>>
  BY DEF DropMaterial, Complete, Release, Raise, Crash
<1>2. pc'[w] \in EmptyHanded
  BY DEF Complete, Release, Raise, Crash, EmptyHanded, Idle, ExceptCalls, Kept, TypeOK
<1>3. Replaces(w)' /\ AtWork(w)'
  BY <1>2 DEF Replaces, AtWork, EmptyHanded, Replacing, Idle, ExceptCalls
<1> QED BY <1>1, <1>3, QuietStep DEF Alone, Settled

\* Requests, the recovery and the clock: jobs are put in the queue, no more.
LEMMA QueueVisible ==
  ASSUME Kept, Visible, Kept',
         \/ \E j \in Jobs : AddJob(j)
         \/ Tick \/ \E r \in Recoveries : RecoveryStep(r) \/ AbortRecovery(r),
         UNCHANGED baselineVars
  PROVE  Visible'
<1>1. UNCHANGED <<baselines, assets, existing, made, old, new, creator>>
  BY DEF baselineVars, materialVars
<1>2. UNCHANGED <<pc, cur>> /\ \A j \in Jobs : Settled(j)' => Settled(j)
  <2> USE DEF workerVars, Settled
  <2>1. CASE \E j \in Jobs : AddJob(j)
    BY <2>1, StatusesOfJob DEF AddJob, SaveStatus, Kept, QueueTypes, Ended
  <2>2. CASE Tick
    BY <2>2 DEF Tick
  <2>3. ASSUME NEW r \in Recoveries, ListStale(r) \/ SkipActive(r) \/ FindUnleased(r) \/ AbortRecovery(r)
        PROVE  UNCHANGED <<pc, cur, status>>
    BY <2>3 DEF ListStale, SkipActive, FindUnleased, AbortRecovery
  <2>4. ASSUME NEW r \in Recoveries, SaveQueued(r)
        PROVE  UNCHANGED <<pc, cur>> /\ \A j \in Jobs : Settled(j)' => Settled(j)
    BY <2>4, StatusesOfJob DEF SaveQueued, SaveStatus, Kept, QueueTypes, QueueOK, Ended
  <2> QED BY <2>1, <2>2, <2>3, <2>4 DEF RecoveryStep
<1>3. \A w \in Workers : Replaces(w)' /\ AtWork(w)'
  <2> SUFFICES ASSUME NEW w \in Workers PROVE Replaces(w)' /\ AtWork(w)'
    OBVIOUS
  <2>1. Replaces(w)'
    BY <1>1, <1>2 DEF Visible, Replaces, AssetsOf
  <2>2. pc[w] \in {"work", "execute", "save_baseline"} \cup Replacing => cur[w] \in Jobs
    BY DEF Kept, QueueTypes, QueueOK, Replacing
  <2>3. AtWork(w)'
    BY <1>2, <2>2 DEF Visible, AtWork
  <2> QED BY <2>1, <2>3
<1> QED BY <1>1, <1>2, <1>3, QuietStep

\* The worker's own calls: whatever they do to the baseline, its job tells.
LEMMA WorkVisible ==
  ASSUME Kept, Visible, Alone, Kept', NEW w \in Workers,
         \/ FindExisting(w) \/ MarkRefreshing(w) \/ Execute(w) \/ SaveBaseline(w)
         \/ ListAssets(w) \/ DeleteAsset(w) \/ AddAsset(w)
  PROVE  Visible'
<1> USE RefreshAssumption
<1>0. \A v \in Workers : v = w
  BY DEF Alone
<1>1. ASSUME pc[w] \in {"work", "execute", "save_baseline"} \cup Replacing, UNCHANGED <<status, cur>>,
             Replaces(w)', OneVersion'
      PROVE  Visible'
  <2>1. cur[w] \in Jobs /\ ~Settled(cur[w]) /\ ~Settled(cur[w])'
    BY <1>1 DEF Kept, QueueTypes, QueueOK, Visible, AtWork, Settled, Replacing
  <2>2. DamageIsVisible'
    BY <1>1, <2>1, StaysVisible DEF Kept, Settled
  <2>3. AtWork(w)'
    BY <1>1, <2>1 DEF AtWork
  <2> QED BY <1>0, <1>1, <2>2, <2>3 DEF Visible
<1>2. CASE FindExisting(w)
  <2>1. pc'[w] = "heartbeat" /\ UNCHANGED <<status, cur, baselines, assets>>
    BY <1>2, CallMoves, Calls DEF FindExisting, EmptyHanded, Preparing, Idle
  <2>2. Replaces(w)' /\ AtWork(w)'
    BY <2>1 DEF Replaces, AtWork, Replacing
  <2> QED BY <1>0, <2>1, <2>2, QuietStep DEF Settled
<1>3. CASE MarkRefreshing(w)
  <2>1. pc[w] = "work" /\ pc'[w] = "execute" /\ UNCHANGED <<status, cur, assets>>
    BY <1>3, CallMoves, Calls DEF MarkRefreshing, Preparing, Idle
  <2> QED BY <1>1, <2>1 DEF Visible, OneVersion, Replaces, Replacing
<1>4. CASE Execute(w)
  <2>1. pc[w] = "execute" /\ pc'[w] = "save_baseline" /\ UNCHANGED <<status, cur, assets>>
    BY <1>4, CallMoves, Calls DEF Execute, Preparing, Idle
  <2> QED BY <1>1, <2>1 DEF Visible, OneVersion, Replaces, Replacing
<1>5. CASE SaveBaseline(w)
  <2>1. pc[w] = "save_baseline" /\ pc'[w] = "list_assets" /\ UNCHANGED <<status, cur, assets>>
    BY <1>5, CallMoves, Calls DEF SaveBaseline, Preparing, Replacing, Idle
  <2>2. baselines'[existing'[w]] = "active"
    BY <1>5 DEF SaveBaseline, SaveBaselineStatus, Kept, TypeOK
  <2> QED BY <1>1, <2>1, <2>2 DEF Visible, OneVersion, Replaces, Replacing
<1>6. CASE ListAssets(w)
  <2>1. pc[w] = "list_assets" /\ pc'[w] = "delete_assets" /\ UNCHANGED <<status, cur>>
    BY <1>6, CallMoves, Calls DEF ListAssets, Replacing, Idle
  <2>2. UNCHANGED <<baselines, assets, existing, made>>
        /\ old'[w] = AssetsOf(existing[w]) /\ new'[w] = Materialized(existing[w], made[w])
    BY <1>6 DEF ListAssets, Kept, TypeOK
  <2>3. Replaces(w)'
    BY <2>1, <2>2 DEF Visible, Replaces, Replacing, AssetsOf, Materialized
  <2> QED BY <1>1, <2>1, <2>2, <2>3 DEF Visible, OneVersion, Replacing
<1>7. CASE DeleteAsset(w)
  <2>1. PICK a \in old[w] : /\ WorkerGoto(w, "delete_assets", "delete_assets")
                            /\ assets' = assets \ {a} /\ old' = [old EXCEPT ![w] = @ \ {a}]
                            /\ UNCHANGED <<baselines, existing, made, new, creator>>
    BY <1>7 DEF DeleteAsset
  <2>2. pc[w] = "delete_assets" /\ pc'[w] = "delete_assets" /\ UNCHANGED <<status, cur>>
    BY <2>1, CallMoves, Calls DEF Replacing, Idle
  <2>3. Replaces(w)'
    BY <2>1, <2>2 DEF Visible, Replaces, Replacing, AssetsOf, Materialized, Kept, TypeOK
  <2> QED BY <1>1, <2>1, <2>2, <2>3 DEF Visible, OneVersion, Replacing
<1>8. CASE AddAsset(w)
  <2>1. PICK a \in new[w], from \in {"delete_assets", "add_assets"} :
          /\ old[w] = {}
          /\ WorkerGoto(w, from, IF new[w] = {a} THEN "save_completed" ELSE "add_assets")
          /\ assets' = assets \cup {a} /\ new' = [new EXCEPT ![w] = @ \ {a}]
          /\ UNCHANGED <<baselines, existing, made, old, creator>>
    BY <1>8 DEF AddAsset
  <2>2. /\ pc[w] \in {"delete_assets", "add_assets"} /\ UNCHANGED <<status, cur>>
        /\ pc'[w] = IF new[w] = {a} THEN "save_completed" ELSE "add_assets"
    BY <2>1, CallMoves, Calls DEF Replacing, Idle
  <2>3. /\ existing[w] \in Baselines /\ made[w] \in Versions
        /\ new[w] \subseteq Materialized(existing[w], made[w])
        /\ AssetsOf(existing[w]) = Materialized(existing[w], made[w]) \ new[w]
    BY <2>1, <2>2 DEF Kept, InHand, Visible, Replaces, Replacing
  <2>4. a[1] = existing[w] /\ a[3] = made[w]
    BY <2>3 DEF Materialized
  <2>5. AssetsOf(existing[w])' = Materialized(existing[w], made[w]) \ new'[w]
    BY <2>1, <2>3, <2>4 DEF AssetsOf, Kept, TypeOK
  <2>6. Replaces(w)'
    BY <2>1, <2>2, <2>3, <2>5 DEF Visible, Replaces, Replacing, Kept, TypeOK, Materialized
  <2>7. \A b \in assets : b[1] = existing[w] => b[3] = made[w]
    BY <2>3 DEF AssetsOf, Materialized
  <2>8. OneVersion'
    BY <2>1, <2>4, <2>7 DEF Visible, OneVersion
  <2> QED BY <1>1, <2>2, <2>6, <2>8 DEF Replacing
<1> QED BY <1>2, <1>3, <1>4, <1>5, <1>6, <1>7, <1>8

LEMMA NextVisible ==
  ASSUME Kept, Visible, Alone, [Next]_vars
  PROVE  Visible'
<1>1. Kept'
  BY NextKept
<1>2. CASE UNCHANGED vars
  <2>1. UNCHANGED <<status, pc, cur, baselines, assets, existing, made, old, new>>
    BY <1>2 DEF vars, queueVars, workerVars, baselineVars, materialVars
  <2> QED BY <2>1 DEF Visible, OneVersion, DamageIsVisible, Exists, Whole, AssetsOf, Replaces, AtWork, Settled
<1>3. ASSUME NEW j \in Jobs, RequestRefresh(j)
      PROVE  Visible'
  BY <1>1, <1>3, QueueVisible DEF RequestRefresh
<1>4. ASSUME NEW w \in Workers, RefreshStep(w) \/ CrashRefresh(w)
      PROVE  Visible'
  BY <1>1, <1>4, FrameVisible, DropVisible, WorkVisible DEF RefreshStep, CrashRefresh
<1>5. CASE (Tick \/ \E r \in Recoveries : RecoveryStep(r) \/ AbortRecovery(r)) /\ UNCHANGED baselineVars
  BY <1>1, <1>5, QueueVisible
<1> QED BY <1>2, <1>3, <1>4, <1>5 DEF Next

LEMMA SpecVisible ==
  ASSUME Alone
  PROVE  Spec => []Visible
<1>1. Kept /\ Visible /\ [Next]_vars => Visible'
  BY NextVisible
<1> QED BY SpecKept, InitVisible, <1>1, PTL DEF Spec

\* One worker never leaves the assets of a baseline a mixture of two
\* executions, for any tables and wherever it dies in the replacement.
THEOREM SpecOneVersion ==
  ASSUME Alone
  PROVE  Spec => []OneVersion
<1>1. Visible => OneVersion
  BY DEF Visible
<1> QED BY SpecVisible, <1>1, PTL

\* As long as a baseline is not selectable, or lacks an asset, there is a job
\* that is queued, running or failed: the one worker never ends a refresh as
\* completed over a damage, its own or that of the attempts before.
THEOREM SpecDamageIsVisible ==
  ASSUME Alone
  PROVE  Spec => []DamageIsVisible
<1>1. Visible => DamageIsVisible
  BY DEF Visible
<1> QED BY SpecVisible, <1>1, PTL
=============================================================================
