--------------------------- MODULE BaselineRefresh ---------------------------
(***************************************************************************)
(* Refreshes of the sanitized baseline of one system, dataset profile and  *)
(* environment type: the refresh worker looks for the baseline, marks it   *)
(* REFRESHING, materializes every table, saves the baseline as ACTIVE and  *)
(* then replaces its assets, one transaction each.                         *)
(*                                                                         *)
(* Assets are <<baseline, table, version>>: the version is the execution   *)
(* that made the file.  A version nothing refers to any more may be used   *)
(* again, so that finitely many are enough.                                *)
(***************************************************************************)
EXTENDS JobQueue

CONSTANTS
  Tables,     \* the active tables of the source's catalog
  Versions,   \* tells the executions of the pipeline apart
  Baselines,  \* baseline ids
  NoBaseline, NoVersion, NoWorker

ASSUME RefreshAssumption ==
  /\ KindOf = [j \in Jobs |-> "baseline_refresh"]
  /\ Tables # {}
  /\ NoBaseline \notin Baselines
  /\ NoVersion \notin Versions
  /\ NoWorker \notin Workers

VARIABLES
  baselines,  \* the status of each baseline's record
  assets,     \* baseline_asset records
  existing,   \* worker: the baseline it found or added
  made,       \* worker: the version its pipeline materialized
  old,        \* worker: the assets of its listing still to delete
  new,        \* worker: the assets still to add
  creator     \* who added each baseline (no part of the record)

materialVars == <<existing, made, old, new>>
baselineVars == <<baselines, assets, materialVars, creator>>
vars == <<queueVars, baselineVars>>

BaselineStatus == {"none", "active", "refreshing"}

RefreshCalls == BeforeTry \cup FrameCalls \cup ExceptCalls \cup
  {"down", "execute", "save_baseline", "list_assets", "delete_assets", "add_assets"}

Asset == Baselines \X Tables \X Versions

TypeOK ==
  /\ QueueOK
  /\ pc \in [Workers -> RefreshCalls]
  /\ baselines \in [Baselines -> BaselineStatus]
  /\ assets \in SUBSET Asset
  /\ existing \in [Workers -> Baselines \cup {NoBaseline}]
  /\ made \in [Workers -> Versions \cup {NoVersion}]
  /\ old \in [Workers -> SUBSET Asset]
  /\ new \in [Workers -> SUBSET Asset]
  /\ creator \in [Baselines -> Workers \cup {NoWorker}]

Init ==
  /\ QueueInit
  /\ baselines = [b \in Baselines |-> "none"]
  /\ assets = {}
  /\ existing = [w \in Workers |-> NoBaseline]
  /\ made = [w \in Workers |-> NoVersion]
  /\ old = [w \in Workers |-> {}]
  /\ new = [w \in Workers |-> {}]
  /\ creator = [b \in Baselines |-> NoWorker]

Exists(b) == baselines[b] # "none"

AssetsOf(b) == {a \in assets : a[1] = b}

\* The assets one execution of the pipeline yields for a baseline.
Materialized(b, v) == {b} \X Tables \X {v}

SaveBaselineStatus(b, s) == baselines' = [baselines EXCEPT ![b] = s]

-----------------------------------------------------------------------------
(* BaselineRefreshRequestService.create_job.                               *)

RequestRefresh(j) ==
  /\ AddJob(j)
  /\ UNCHANGED baselineVars

-----------------------------------------------------------------------------
(* BaselineRefreshWorker.process_next_job between claim and SaveCompleted. *)

\* Fault: only a baseline that can be selected is found.
FindSelectable(w) ==
  /\ WorkerGoto(w, "lookup", "heartbeat")
  /\ \/ \E b \in Baselines : /\ baselines[b] = "active"
                             /\ existing' = [existing EXCEPT ![w] = b]
     \/ (\A b \in Baselines : baselines[b] # "active") /\ UNCHANGED existing
  /\ UNCHANGED <<baselines, assets, made, old, new, creator>>

\* _find_existing_baseline: any baseline of the profile, whatever its status;
\* the listing has no order.
FindExisting(w) ==
  /\ WorkerGoto(w, "lookup", "heartbeat")
  /\ \/ \E b \in Baselines : Exists(b) /\ existing' = [existing EXCEPT ![w] = b]
     \/ (\A b \in Baselines : ~Exists(b)) /\ UNCHANGED existing
  /\ UNCHANGED <<baselines, assets, made, old, new, creator>>

MarkRefreshing(w) ==
  /\ WorkerGoto(w, "work", "execute")
  /\ IF existing[w] # NoBaseline
     THEN SaveBaselineStatus(existing[w], "refreshing")
     ELSE UNCHANGED baselines
  /\ UNCHANGED <<assets, materialVars, creator>>

InUse == {made[w] : w \in Workers} \cup {a[3] : a \in assets \cup UNION {old[w] : w \in Workers}}

\* The pipeline extracts every table to a file, or removes the files it has
\* written and raises.
Execute(w) ==
  /\ WorkerGoto(w, "execute", "save_baseline")
  /\ Versions \ InUse # {}
  /\ made' = [made EXCEPT ![w] = CHOOSE v \in Versions \ InUse : TRUE]
  /\ UNCHANGED <<baselines, assets, existing, old, new, creator>>

\* Fault: the object marked REFRESHING before the execution is saved again.
SaveBaselineAsMarked(w) ==
  /\ WorkerGoto(w, "save_baseline", "list_assets")
  /\ \E b \in Baselines :
       /\ IF existing[w] = NoBaseline
          THEN ~Exists(b) /\ creator' = [creator EXCEPT ![b] = w] /\ SaveBaselineStatus(b, "active")
          ELSE b = existing[w] /\ UNCHANGED <<creator, baselines>>
       /\ existing' = [existing EXCEPT ![w] = b]
  /\ UNCHANGED <<assets, made, old, new>>

\* Fault: the assets refer to the baseline looked up, None for a first refresh.
SaveBaselineApart(w) ==
  /\ WorkerGoto(w, "save_baseline", "list_assets")
  /\ \E b \in Baselines :
       /\ IF existing[w] = NoBaseline
          THEN ~Exists(b) /\ creator' = [creator EXCEPT ![b] = w]
          ELSE b = existing[w] /\ UNCHANGED creator
       /\ SaveBaselineStatus(b, "active")
  /\ UNCHANGED <<assets, existing, made, old, new>>

\* The baseline becomes ACTIVE before its assets are replaced.
SaveBaseline(w) ==
  /\ WorkerGoto(w, "save_baseline", "list_assets")
  /\ \E b \in Baselines :
       /\ IF existing[w] = NoBaseline
          THEN ~Exists(b) /\ creator' = [creator EXCEPT ![b] = w]
          ELSE b = existing[w] /\ UNCHANGED creator
       /\ SaveBaselineStatus(b, "active")
       /\ existing' = [existing EXCEPT ![w] = b]
  /\ UNCHANGED <<assets, made, old, new>>

\* Fault: the assets of the refresh before are not listed, and so not deleted.
ListNoAssets(w) ==
  /\ WorkerGoto(w, "list_assets", "delete_assets")
  /\ new' = [new EXCEPT ![w] = Materialized(existing[w], made[w])]
  /\ UNCHANGED <<baselines, assets, existing, made, old, creator>>

\* replace_for_baseline: the listing.
ListAssets(w) ==
  /\ WorkerGoto(w, "list_assets", "delete_assets")
  /\ old' = [old EXCEPT ![w] = AssetsOf(existing[w])]
  /\ new' = [new EXCEPT ![w] = Materialized(existing[w], made[w])]
  /\ UNCHANGED <<baselines, assets, existing, made, creator>>

DeleteAsset(w) == \E a \in old[w] :
  /\ WorkerGoto(w, "delete_assets", "delete_assets")
  /\ assets' = assets \ {a}
  /\ old' = [old EXCEPT ![w] = @ \ {a}]
  /\ UNCHANGED <<baselines, existing, made, new, creator>>

\* Fault: the job is completed although assets are still to be added.
AddSomeAssets(w) == \E a \in new[w] :
  /\ old[w] = {}
  /\ \E from \in {"delete_assets", "add_assets"}, to \in {"add_assets", "save_completed"} :
       WorkerGoto(w, from, IF new[w] = {a} THEN "save_completed" ELSE to)
  /\ assets' = assets \cup {a}
  /\ new' = [new EXCEPT ![w] = @ \ {a}]
  /\ UNCHANGED <<baselines, existing, made, old, creator>>

AddAsset(w) == \E a \in new[w] :
  /\ old[w] = {}
  /\ \E from \in {"delete_assets", "add_assets"} :
       WorkerGoto(w, from, IF new[w] = {a} THEN "save_completed" ELSE "add_assets")
  /\ assets' = assets \cup {a}
  /\ new' = [new EXCEPT ![w] = @ \ {a}]
  /\ UNCHANGED <<baselines, existing, made, old, creator>>

\* What the worker had in its hands when it finished a job, failed or died.
DropMaterial(w) ==
  /\ existing' = [existing EXCEPT ![w] = NoBaseline]
  /\ made' = [made EXCEPT ![w] = NoVersion]
  /\ old' = [old EXCEPT ![w] = {}]
  /\ new' = [new EXCEPT ![w] = {}]
  /\ UNCHANGED <<baselines, assets, creator>>

RefreshStep(w) ==
  \/ FrameStep(w) /\ UNCHANGED baselineVars
  \/ Complete(w) /\ DropMaterial(w)
  \/ Raise(w) /\ DropMaterial(w)
  \/ FindExisting(w) \/ MarkRefreshing(w) \/ Execute(w) \/ SaveBaseline(w)
  \/ ListAssets(w) \/ DeleteAsset(w) \/ AddAsset(w)

CrashRefresh(w) == Crash(w) /\ DropMaterial(w)

Next ==
  \/ \E j \in Jobs : RequestRefresh(j)
  \/ \E w \in Workers : RefreshStep(w) \/ CrashRefresh(w)
  \/ (Tick \/ \E r \in Recoveries : RecoveryStep(r) \/ AbortRecovery(r)) /\ UNCHANGED baselineVars

Spec == Init /\ [][Next]_vars

-----------------------------------------------------------------------------
(* Safety.                                                                 *)

\* A baseline's assets are never of two executions, so a publish that reads
\* them in the middle of a replacement, after a crash in one, or after the
\* repair of one loads no table twice.
OneVersion == \A a, b \in assets : a[1] = b[1] => a[3] = b[3]

\* The assets of a baseline are those of one whole execution.
Whole(b) == \E v \in Versions : AssetsOf(b) = Materialized(b, v)

\* A baseline that is REFRESHING, or lacks assets, can be told by a refresh job
\* that is not over or has failed: when every job is COMPLETED, the baseline can
\* be selected and is whole, whatever was retried on the way.
DamageIsVisible ==
  \A b \in Baselines : Exists(b) =>
    \/ baselines[b] = "active" /\ Whole(b)
    \/ \E j \in Jobs : status[j] \notin {"absent", "completed"}

\* Two workers may add a baseline each for the same profile, but no worker adds
\* two, however often its refreshes fail and are put back.
OneBaselinePerWorker ==
  \A b, c \in Baselines : Exists(b) /\ Exists(c) /\ creator[b] = creator[c] => b = c

-----------------------------------------------------------------------------
(* Liveness.  Workers poll and are restarted, time passes, the recovery is *)
(* started again and again.                                                *)

FairSpec ==
  /\ Spec
  /\ WF_vars(Tick /\ UNCHANGED baselineVars)
  /\ \A w \in Workers : WF_vars(RefreshStep(w))
  /\ \A r \in Recoveries : WF_vars(RecoveryStep(r) /\ UNCHANGED baselineVars)

\* From some time on no statement fails and no process is cut short (the last
\* step of a recovery and its end by failure may look the same).
FailuresEnd ==
  <>[][/\ \A w \in Workers : /\ pc'[w] = "save_failed" => pc[w] = "save_failed"
                             /\ pc'[w] = "down" => pc[w] \in {"down", "complete_failed"}
       /\ \A r \in Recoveries : AbortRecovery(r) => RecoveryStep(r)]_vars

\* A refresh that has been asked for repairs the baseline, in whatever state the
\* failures before have left it, unless it fails itself.
RefreshRepairs ==
  FailuresEnd => \A j \in Jobs :
    status[j] = "requested" ~>
      status[j] = "failed" \/ \E b \in Baselines : baselines[b] = "active" /\ Whole(b)
=============================================================================
