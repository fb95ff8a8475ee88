# Verification of the sanitized data platform

TLA+ models of the platform's jobs (publish, extraction, artifact publish, baseline refresh), of the artifacts and
baselines they leave behind, and of what the application computes for them; the TLC runs that check them on small
instances; and TLAPS proofs that carry the main results to every instance. Source paths are relative to
`src/src/sanitized_data_platform/` unless they start with `docs/` or `compose.yml`, which are relative to `src/`.

## The system

The platform copies data from a source system, masked, into target environments. A control plane holds *entities*
(jobs, baselines, artifacts, schedules, audit events, lineage records) as JSON rows. The API writes requests into it;
workers poll it and do the work.

| Component | State | Operations | Correct when |
|---|---|---|---|
| Entity store (`adapters/postgres/control_plane.py`) | one JSON row per entity | `save` overwrites a whole entity in a transaction of its own, listings by type | readers survive that a decision and its save are different transactions |
| Job leases (same file) | `job_leases`: kind, job, worker, expiry | acquire, heartbeat, release, has_active | an active lease is never taken over; whoever executes holds one |
| Polling queues (`bootstrap/production.py`) | none, they list the entities | dequeue (list, sort, try leases), heartbeat, complete | each pending job is taken, one worker at a time |
| Publish worker (`workers/publish_worker.py`) | the job it runs | claim, PLANNING, load, COMPLETED, lineage, audit, release; FAILED path | status, audit and lineage agree with what was loaded; rows are not loaded twice |
| Publish request (`application/services.py`) | publish job records | `create_job` | only publishable requests are recorded |
| Stale job recovery (`bootstrap/worker_runtime.py`) | none | puts active jobs without a lease back in the queue | dead workers' jobs come back, running and finished ones are left alone |
| Extraction worker and pipeline | extraction jobs, artifact files | plan, stream rows to a JSONL file, record the artifact | the record describes a file that exists |
| Artifact lifecycle (`application/services.py`, retention and cleanup workers) | artifact records, files | evaluate availability, expire, remove | available means readable, deleted means gone, all end deleted |
| Artifact publish worker and pipeline | artifact publish jobs | availability check, load, statuses | an unavailable artifact fails its job instead of the worker |
| Baseline refresh worker and pipeline | baselines, table assets, refresh jobs | refresh tables, activate the baseline, replace its assets | a selectable baseline has its whole set of assets |
| Refresh schedules (`application/services.py`) | schedules | create, dispatch when due | at most one pending job per schedule, each period dispatched |
| Baseline selection and eligibility | none | choose a baseline for a publish, explain each baseline | the choice and the explanations agree |
| Policy coverage, row transformation | tags, policies | decide whether a source is ready, rewrite rows | what is called ready is under consistent policies, and transformed by them |
| Extraction planning | none | traverse foreign keys from a root | the plan is the root's neighbourhood |
| Metadata ingestion | metadata catalog | list a source, save what was found | the catalog refers to nothing it lacks and is complete |
| Queries, HTTP API, frontend, settings, seeding, logging | — | views, transport, sample data | — |

Components meet only through the control plane (records and leases) and, for artifacts, through the file system. There
is no message passing and no shared memory: what makes the system hard is that each step is a small transaction that
acts on something read in an earlier one. `PROJECT.json` lists the hazards one by one, at their lines. In short:

* **check, then act**: the recovery (status, lease, save), the schedule dispatch, the search for an existing baseline,
  every artifact save;
* **leases that run out**: one heartbeat is sent, before a pipeline of unbounded length; the release names no owner;
* **stale listings**: candidates are leased in the order and state in which they were listed;
* **crashes between two transactions**: after the target commit and before COMPLETED, after `os.remove` and before
  DELETED, and so on;
* **failures after success**: the `except` block covers the calls that follow the COMPLETED save too, and lets
  failures before it end the process;
* **two readers of the same facts**: coverage and transformation read the policies differently, selection and
  explanation the baselines, count and insertion the rows.

## The modules

| Module | Models |
|---|---|
| `JobLeases` | the `job_leases` table for one kind and the statements on it |
| `PublishExecution` | publish requests, the polling queue, the publish worker call by call, the stale job recovery |
| `MCPublishExecution` | values of its constants for TLC |
| `PublishHistory` | `PublishExecution` with counters of target commits and requeues, and the refinement of `PublishOnce` |
| `PublishOnce` | what a publish job promises while nothing is put back (abstract) |
| `MCPublishHistory` | values of the constants |
| `JobQueue` | what the other three workers share: queue, frame of `process_next_job`, recovery (extends `JobLeases`) |
| `ArtifactLifecycle` | artifact files and records, availability calls, retention, cleanup |
| `ArtifactFlow` | `JobQueue` with the extraction and artifact publish workers, composed with `ArtifactLifecycle` |
| `MCArtifactFlow` | values of its constants, and a start with extracted artifacts |
| `BaselineRefresh` | `JobQueue` with the baseline refresh worker, baselines and their assets |
| `MCBaselineRefresh` | values of its constants |
| `RefreshSchedule` | refresh schedules, their dispatch, and what the recovery does to their jobs |
| `TableOrder` | the order in which a refresh takes the tables |
| `Materialization` | the files a refresh writes and removes |
| `ExtractionPlanning` | the traversal of an extraction plan |
| `BaselineSelection` | the choice of a baseline, and its explanation |
| `PolicyGovernance` | policy coverage next to row transformation |
| `MetadataIngestion` | a source that changes, and the catalog that follows it |
| `MCDecisions` | values of the constants of the last six, and one specification for them |
| `MCGovernance` | values of the constants of `PolicyGovernance` for a run of its own |
| `MCHousekeeping` | one specification for `ArtifactLifecycle` and `RefreshSchedule` |
| `...Proofs` | theorems about the module they are named for; `JobQueueProofs` has lemmas for the two modules that extend `JobQueue` |
| `DecisionProofs` | theorems about the six modules of `MCDecisions`, a section for each, and about `MCDecisions` |

Modules are composed in two ways. `PublishExecution` and `JobQueue` extend `JobLeases`, and the worker modules extend
`JobQueue`: a worker's step is a step of the frame or one of its own calls. `ArtifactFlow` instantiates
`ArtifactLifecycle` and conjoins its steps with those of the workers that make them.

Definitions whose comment starts with *Fault* are variants of an operation with a plausible mistake in it (a dropped
guard, a forgotten save, a swapped order). No specification uses them; each property is violated when one of them
takes the place of the operation after it, which is how the properties are known to say something about the code.

### JobLeases

`leases[j]` is the row of job `j`, with the worker id it was written with and the time it has `left`. The code writes
`floor(now) + lease_seconds` and compares with `<=` and `>` against `now`, so a row is active through exactly
`lease_seconds` changes of the second: `Elapse` is one such change and takes one from every active row. An expired
row stays (`left = 0`) until an acquisition deletes it. The processes' clocks are assumed to agree.

### PublishExecution

`status`, `audits`, `lineage` are the records, `loaded` the jobs whose rows a pipeline committed to the target
database. A worker has a program counter `pc`, the candidates it listed (`cands`) and its job (`cur`); a recovery run
has `rpc`, the rest of its listing (`rjobs`) and the job it is saving (`rcur`). Each repository call is one action, in
the order of the code; between any two, any other process may move.

* `RequestJob`: jobs are numbered by `created_at`. Requests are served concurrently, so an older job may become
  visible after a younger one.
* `ListPending`, `SkipLeased`, `Claim`: `LeasedPollingQueue.dequeue`. The status of a candidate is not read again. The
  lookups that follow read nothing that changes; raising there ends the process with the lease kept, as in `Crash`.
* `Heartbeat` .. `Complete`: the `try` block. `Raise` lets any call of it fail without effect; `RecordLineage` may
  also fail after its first record. `SaveFailed`, `AuditFailed`, `CompleteFailed`: the `except` block, which re-raises
  and so ends the process (`down`).
* `Crash`: the process is killed, or an exception leaves it outside the `try` block. `Restart`: `compose.yml` says
  `restart: unless-stopped`.
* `ListStale`, `SkipActive`, `FindUnleased`, `SavePending`, `AuditRecovered`: `_recover_publish_jobs`. The save writes
  the job *as listed*, whatever it has become. An empty listing changes nothing and is left out, as is the worker's
  empty poll. The order in which a recovery meets its jobs is left open (the listing has no ORDER BY).
* `Tick`: with `PromptWorkers`, no lease runs out under a live worker, which models pipelines that fit in
  `lease_seconds`. Nothing in the code ensures it; `FALSE` is the code as it is.

Not in the model: the rows and their mapping, the details of audit events, the events *requested* and *recovered*.

### PublishHistory and PublishOnce

`PublishHistory` adds `loads[j]` and `requeues[j]`, counters that name how often a job was committed and put back, and
who did it having listed the queue when (`loaders`, `seen`), from which the argument for `LoadsBounded` is made: a
worker loads a job at most once for each number of requeues it may have seen. `PublishOnce` is the abstract promise:
absent, pending, planning, completed in one direction, failure from any of them, rows loaded once and before
completion.

### ArtifactLifecycle

`files` and `record` are the file system and the artifact records, `due` the artifacts whose `expires_at` has come.
The extraction worker writes a file (`Materialize`), under a name no other attempt has, and records it in a later
transaction (`RecordArtifact`), unless it dies in between (`LoseArtifact`: nobody knows of the file, and nothing
removes it). A *caller* is any call of `evaluate_availability`: it reads the record (`LookUp`) and acts on what it read
(`EvaluateAvailability`). A retention run lists and then saves one by one (`ListDue`, `ExpireListed`), a cleanup run
lists, removes a file, saves the record (`ListExpired`, `RemoveFile`, `MarkDeleted`). `RemoveFails` is an `OSError` on a file
that `exists` has found: it cannot be removed, or another run was faster; the code counts it and goes on.
The orders in which runs go through their listings are left open.

### JobQueue

The extraction, artifact publish and refresh workers differ from the publish worker in the names of the statuses and
in what they do between the RUNNING (PUBLISHING) save and the COMPLETED save. The frame has the rest: `ListQueued`,
`SkipLeased`, `Claim` (dequeue), `Heartbeat`, `SaveActive`, `SaveCompleted`, `RecordOutcome` (lineage and audit),
`Complete`, the `except` block (`Raise`, `SaveFailed`, `CompleteFailed`), `Crash`, `Restart`, and the recovery of one
kind after the other, with the same stale save as in `PublishExecution`. Between the calls named *work* and
*save_completed* a worker module puts its own.

### ArtifactFlow

`wanted[j]` is the artifact a publish job is to load, `maker[a]` the job of an artifact's record, `loaded` the publish
jobs whose rows are committed.

* `Extract` and `RecordArtifact` are the extraction worker's work; they are `Materialize` and `RecordArtifact` of the
  lifecycle, in the same steps. There is one extraction worker (`FlowAssumption`), as in `compose.yml`.
* `RequestPublish`: the request looked the artifact up in an earlier transaction, so the job may be added when the
  artifact is over.
* `LookUpWanted`, `Accept`, `Reject`: the check before the `try` block. `Reject` is the DomainError that ends the
  process, with the job still PENDING and leased.
* `OpenFile`: `os.path.exists` and `open`; what happens to the file later does not matter to the reader. If the file
  is gone only `Raise` is possible. `Load` is everything up to the commit in the target.
* `Forget`: a worker that raises or dies has lost the file it has not recorded, or the record it has read.

The callers of `evaluate_availability` are the publish workers; the API's calls are those of `ArtifactLifecycle`.

### BaselineRefresh

One system, dataset profile and environment type. `baselines[b]` is the status of a record, `assets` the set of asset
records, each of a baseline, a table and a *version*: the execution that made the file. A version nothing refers to is
used again. `FindExisting` is the search before the `try` block; `MarkRefreshing`, `Execute`, `SaveBaseline`,
`ListAssets`, `DeleteAsset`, `AddAsset` are the work, one transaction each: `replace_for_baseline` deletes and adds
record by record, after the baseline has become ACTIVE. `Execute` is one step here, because nobody else sees its
files; what it does inside is the next two modules. `creator` names the worker that added a baseline.

### TableOrder and Materialization

`_order_tables` counts for each table the tables it references (`InboundCount`), places those that wait for nothing
(`PlaceReady`), and appends what is left, by name (`GiveUp`, `PlaceRest`). Tables are numbered by name. `execute` then
streams table after table in batches (`OpenFile`, `FetchBatch`, `EndTable`); if one raises, the extraction removes
that table's file (`RaiseStreaming`) and the refresh those of the tables before (`RemovePath`, `Reraise`). Closing the
cursor or the connection may raise after the file was written well (`RaiseClosing`): then nobody removes that file.
Removing a file is taken to succeed, and a killed process leaves its files (`Kill`).

### RefreshSchedule

`due` are the enabled schedules whose `next_run_at` has come. A dispatcher lists them (`ListDue`), and for each one
looks for a pending job (`SkipPending`, `FindIdle`), creates one (`CreateJob`) and saves the schedule with its next
run (`MarkDispatched`), in three transactions; `AbortDispatch` may come between any two. Jobs are reduced to what
`_has_pending_job` asks: REQUESTED, RUNNING or over. `ListRunning`, `SkipLeased` and `PutBack` are the recovery: it lists
the jobs once and saves each listed copy without a lease, whatever the job has become. Leases are left out, so any
listed job may be found without one. `revived` is a history variable: the pending jobs that were put back when they
were already over. The record of a job that is over, and in no recovery's listing, is used again for a new one.

### ExtractionPlanning, BaselineSelection, PolicyGovernance, MetadataIngestion

* `ExtractionPlanning`: the queue of `_expand_related_tables`; `Expand` takes a table from it and looks at all its
  neighbors, `SkipDeep` is the depth limit. The order of neighbors is left open. `Within(n)` says without recursion
  which tables are near: those at the end of a way of `n` steps from the root, each along a foreign key or on the spot.
* `BaselineSelection`: every combination of the facts about a few baselines; `TryNext` is a candidate whose storage or
  validation check raises, `RaiseLast` the error at the end. `Explanation` is the second piece of code that judges a
  baseline.
* `PolicyGovernance`: tags, foreign keys and an ordered list of policies are given; `AssertPublishReady` and
  `ApplyToRows` read them, in either order. Coverage takes the first policy with one of the column's tags and its name
  up to case; the transformation the last one with exactly its name, whatever its tag; unsupported types leave values
  as they are, and tokenization raises, because the production wiring has no vault. `PoliciesGiven` says whether the
  pipelines are constructed with the policies. The workers' wiring (`bootstrap/worker_runtime.py:398-429`) does not give
  them, so `FALSE` is the code as it runs: `ActivePolicies` is empty and every row is written as it was read. With
  `TRUE`, as tests of the pipelines construct them, the transformation acts.
* `MetadataIngestion`: objects come and go in the source (`CreateObject`, `DropObject`) while an ingestion makes its
  four listings and then saves one record at a time; views are not listed, their columns are. Nothing leaves the
  catalog. Only tests call the ingestion service, and `docs/architecture/sequence-flows.md` (flow 3) leaves open who
  is to, so ingestions may be repeated and abandoned at any point.

These run without interference by other components, so `MCDecisions` checks them as one specification: `running` says
which computation a behaviour is, the others stand still. The state space is the sum of theirs, not the product.
There `PoliciesGiven` is `TRUE`, so that every action of the transformation occurs; `ReadyIsConsistent` does not look
at what they do. What becomes of the rows is asked by `MCGovernance`, with `PoliciesGiven = FALSE`.

`MCHousekeeping` does the same for `ArtifactLifecycle` and `RefreshSchedule`, which have nothing in common either. In the
initial state of each no fair action is enabled, so the one that stands still keeps its fairness conditions.

The PostgreSQL and Oracle adapters repeat each other line by line where these models look; the map names one of the
two for each definition.

## What is checked

| Run | Instance | Shows |
|---|---|---|
| `publish_single` | 1 worker, 1 recovery, 2 jobs, 1 s lease, leases may end under the worker, fair | `OutcomeFollowsLoad`, `ReleasedOutcomeIsRecorded`, `RequeueSparesActiveLease`, `NoJobStranded`, `NoJobStarves`, types |
| `publish_replicas` | 3 workers, 2 recoveries, 1 job, 2 s lease, prompt | `ExclusiveExecution`, `HolderIsLeased` |
| `publish_repetitions` | 2 workers, 1 recovery, 1 job, 2 s lease, `MaxRequeues = 1` | `LoadsBounded`, `LeaseNeverStolen` |
| `publish_once` | 1 worker, no recovery, 2 jobs | `PublishesOnce`: refinement of `PublishOnce` |
| `housekeeping` | 2 artifacts, 2 callers, 1 retention run, 2 cleanups; or 1 schedule, 2 dispatchers, 1 recovery, 3 job records; fair | `AvailableHasFile`, `DeletedHasNoFile`, `NeverAvailableAgain`, `ArtifactsEndDeleted`; `PendingBounded`, `DueIsDispatched`, types |
| `artifact_flow` | 1 extraction and 1 publish job, a worker each, 2 artifacts, 1 recovery, 1 retention run, 1 cleanup, 1 s lease | `CompletedIsDelivered`, `LateIsNeverLoaded`, `WantedCanBeOpened`, types |
| `artifact_publish_ends` | 2 publish jobs, 1 worker, 1 recovery, 2 extracted artifacts, fair | `PublishableEnds` |
| `baseline_refresh` | 1 worker, 1 recovery, 2 jobs, 2 tables, 2 versions, 2 baselines, 1 s lease, fair | `OneVersion`, `DamageIsVisible`, `OneBaselinePerWorker`, `RefreshRepairs`, types |
| `decisions` | see below | `ReferencedFirst`, `FailureCleansUp`, `AssetsAreComplete`, `PlanIsNeighbourhood`, `SelectionAgrees`, `ReadyIsConsistent`, `CatalogResolves`, `IngestedIsComplete`, types |
| `publish_requeues_finished` | 1 worker, 1 recovery, 1 job, prompt | **violated**: the recovery puts a finished job back |
| `publish_lineage_missing` | 1 worker, 1 job | **violated**: rows in the target without lineage |
| `policies_unapplied` | 3 columns, up to 1 policy, the wiring of the workers | **violated** (`GovernedIsTransformed`): a ready source whose sensitive columns are written raw |

**Bounds.** Interference between publish jobs goes only through the order of the queue and the listings, for which two
jobs are enough; leases, statuses and records are per job, so the runs about replicas take one job and more processes.
Leases of 1 or 2 seconds can expire at every step and, with 2, be partly used; longer ones add no order of events.
`MaxRequeues` is the only bound on a counter. Symmetry is used in safety runs only, over replicas and over artifacts.
Deadlock is not checked: when every job or artifact is settled, and when a computation has ended, the system rightly
has nothing to do.

In `artifact_flow` the second artifact is that of a repeated extraction; in `artifact_publish_ends` one artifact is
wanted by the job that is rejected and one by the job behind it, and `FlowAssumption`'s extraction worker has no part.
In `baseline_refresh` two versions are the assets being replaced and those replacing them, a third is only needed for
two executions at once: as the assets are of one version (`OneVersion`) there is always a free one. A second baseline record is one too many by `OneBaselinePerWorker`, so it is there to be
misused. In `housekeeping` two jobs may be pending besides those put back when they were over, and the third would
break the bound; schedules do not interact, except that a dispatch that raises ends for all, and that is `AbortDispatch`. `decisions` goes over
all foreign keys between three tables with four keys (parallel ones, cycles, self-references); two tables of up to five
rows with batches of two and a preview of three, so that batches end full, partly full and empty and the preview ends
inside one; five tables, all sets of twelve relationships, depths 0 to 3; all facts about three baselines; three columns
with or without the two foreign keys, every set of tags, up to three policies of two handlings; and an ingestion repeated over a
source of a schema, a table, a view, a column of each and a key. Two of the columns are joined only by way
of the third, along one key and against the other, and three policies are enough for each column to have its own, or for
one of them to have two.

**What fails.**
`docs/runbooks/worker-recovery.md:34` says that the recovery puts back jobs left in an active state without a valid
lease. It tests the status in an earlier listing: a worker that completes its job and releases the lease between the
listing and the lease check has its COMPLETED job saved as PENDING, without its execution summary, and published
again. Prompt workers do not help; only the time between listing and save matters.
`docs/architecture/components.md:131` makes lineage mandatory in every execution. It is recorded after the target
commit and the COMPLETED save, in a transaction of its own, and when that fails the job becomes FAILED with its rows
in the target and no lineage.
`docs/security/security-model.md:242` lists masking before publication. The coverage report that admits a publish reads
the policies of the control plane, but the pipelines that write the files are constructed without them, so a ready
source has its sensitive columns written as they are, even when every policy is `Effective`: spelled as the source
spells the column, and of a type that `_transform_value` knows.

**What is bounded instead.** Rows are committed at most once per replica and requeue (`LoadsBounded`): the damage of
expired leases, stale listings and ownerless releases is at most one extra load per replica for each time the recovery
acts, and with one replica and no recovery a job is loaded once (`PublishesOnce`). A job put back never has an active
lease at that moment when there is one worker and one recovery (`RequeueSparesActiveLease`); with prompt workers it is
then not being executed. A schedule never has more pending jobs than dispatchers may overlap, apart from those that were
put back when they were over (`PendingBounded`). Those have no bound of their own: a recovery saves every job of its
listing, so each listing may bring back all the schedule's jobs, and the dispatch may add one before it does. What
coverage calls ready is under one handling along whole chains of foreign keys, although it looks at one key at a time
(`ReadyIsConsistent`).

**What the properties take for granted.** Each premise is stated in the property or in an ASSUME, and without it the
property does not hold of the code:

* `OneVersion`, `DamageIsVisible` and `RefreshRepairs`: one refresh worker, as in `compose.yml`. Two refreshes of one
  baseline mix their assets.
* `ReadyIsConsistent` is about the policies that coverage goes by, the first applicable ones. The transformation would
  take the last of exactly the column's name, if it were given any.
* `FailureCleansUp` leaves out the file of the table at which closing the connection failed; that one is complete.
* `CatalogResolves`: nothing is created in the source during the four listings (`GrowsWhileListed = FALSE`); a table and
  its column created between the listing of tables and that of columns give a column without a table. Drops do no harm:
  what is listed later is listed with less. `IngestedIsComplete` needs no premise, and is proved for both values.
* `PublishableEnds`: see the fairness below.

**Fairness.** Worker processes poll for ever and are restarted by the container runtime, so each worker's next step is
weakly fair, and so is time. The recovery, retention, cleanup and dispatch are one-shot processes (`restart: "no"`):
their fairness is the assumption that an operator or a timer starts them again and again. In each module `FailuresEnd`
restricts the liveness properties to behaviours in which processes are cut short finitely often; a `Raise` in the `try`
block may recur for ever where the property allows it. (The last step of a run and a failure in its place can have the
same effect, so the premise allows the failures that coincide with such a step.)

* `NoJobStarves` assumes besides that requeues end: while the recovery can keep putting back a job that has just
  finished, an older job is taken again and again ahead of a younger one, and the younger one starves, even with prompt
  workers.
* `ArtifactsEndDeleted` asks for weak fairness of each retention and cleanup run and of the calls in progress, and
  allows the late save of EXPIRED over DELETED, which another cleanup repairs.
* `PublishableEnds` is about a job whose artifact is gone: it ends the worker each time, stays PENDING, and is the first
  candidate again when its lease is over. The job behind it is reached while the lease lasts, so the premise says that a
  free worker tries its candidates before the next lease expires, and is done with a job within its lease.
  `config/settings.py:43-44` (a poll every 5 seconds, leases of 60) makes that reasonable for one such job; with many of
  them, each restart of the container costs time, and TLC shows the starvation when the premise is dropped.
* `RefreshRepairs` needs no more than `FailuresEnd`, and `DueIsDispatched` than `DispatchFailuresEnd`, which includes that requeues
  end and that `create_job` does not raise for good, and jobs are fair because `BaselineRefresh` has the workers and the
  recovery that end them.

## What is proved

The proofs hold for any number of jobs, workers, recoveries, artifacts, tables, rows, columns, policies and baselines,
any lease length and any assignment of worker ids, under the ASSUMEs of the modules (types of the constants, finiteness
of what is counted or traversed, and in `ArtifactFlow` the single extraction worker) and what the table names. Every
invariant and every safety property of a passing run is the property of one of these theorems.

| Theorem | Assumes | Says | Argument |
|---|---|---|---|
| `TypeCorrect` | — | `TypeOK` | inductive with `HolderHasJob` and `SaverHasJob`: a process between claim and release has a job, else `status'` is no function on jobs |
| `Exclusive`, `HoldersAreLeased` | `PromptWorkers` | `ExclusiveExecution`, `HolderIsLeased` | `Exclusion` is inductive: a claim needs that no active lease exists, and every holder has one; time cannot take it away; a release is the holder's own |
| `OutcomeOrder` | — | `OutcomeFollowsLoad` | `Ordered` adds what a worker's program counter says was already done (`StartedFirst`, `LoadedFirst`) |
| `LeasesStay` | — | `LeaseNeverStolen` | action by action, from the guards of acquisition and heartbeat |
| `RecoverySparesLeases` | one worker, one recovery | `RequeueSparesActiveLease` | `Sparing` follows the job from listing to save: while it is listed and its status is active the worker can only leave it, and to claim it needs a listing in which it is pending |
| `RecoverySparesWorker` | the same and `PromptWorkers` | the job put back is not being executed | the two results above |
| `ReleasedIsRecorded` | `Solitary`: prompt workers, or one worker | `ReleasedOutcomeIsRecorded` | a release names no owner, so first `Owned`: each job has one holder and the holder's row is there; then `Trailing` says for each place in the code which part of the trail is written |
| `SpecLoadsBounded` (`PublishHistoryProofs`) | finitely many workers | `LoadsBounded` | `Repeating`: a job's commits are as many as its pairs of a worker and a number of requeues seen (`Counted`); no pair is used twice, because a worker that has loaded a job must see it put back before it takes it again. `Workers \X 0 .. requeues[j]` has no more pairs |
| `RefinesPublishOnce` | `Unassisted`: one worker, no recovery | `PublishesOnce` | `Staged` fixes status and count of the job in hand at each place in the code; that a claimed job is still pending comes from `Sparing`; then step by step |
| `SpecAvailableHasFile`, `SpecDeletedHasNoFile` (`ArtifactLifecycleProofs`) | — | `AvailableHasFile`, `DeletedHasNoFile` | `Kept` adds what each run's listing says of its artifacts: in every cleanup listing they are over and due |
| `StaysOver` | — | `NeverAvailableAgain` | from `Kept` |
| `SpecTypeOK` (`ArtifactFlowProofs`) | one extraction worker | `TypeOK` | the invariant below with `QueueTypes`, which the frame keeps (`JobQueueProofs`) |
| `SpecCompletedIsDelivered` | the same | `CompletedIsDelivered` | `Inv`: a process between claim and release has an existing job of its kind (`QueueInv`); a worker before the COMPLETED save has delivered, a publish job has an artifact as soon as it exists, an unrecorded file has no maker (`Delivery`) |
| `SpecLateIsNeverLoaded` | the same | `LateIsNeverLoaded` | from `Inv`: to get past its look-ups a worker needs an artifact that is not due, and it has looked up the one its job wants |
| `SpecWantedCanBeOpened` | the same | `WantedCanBeOpened` | what a job wants was on record when it was requested, and records stay (`WantedIsRecorded`); by the lifecycle's invariant only what is due is ever in a cleanup's listing, or without its file |
| `SpecAvailableHasFile` (`ArtifactFlowProofs`) | the same | `AvailableHasFile` of the composition | the lifecycle's invariant is kept by its steps and by stutters, and there are no others |
| `SpecTypeOK`, `SpecOneBaselinePerWorker` (`BaselineRefreshProofs`) | — | `TypeOK`, `OneBaselinePerWorker` | `Kept`: a worker that has searched and found nothing has added no baseline so far, and what it holds afterwards exists (`InHand`) |
| `SpecOneVersion`, `SpecDamageIsVisible` | `Alone`: one worker | the properties of the same names | `Visible`: in the replacement, the assets recorded are the old ones that are left, or the new ones that are added, of one version each time (`Replaces`), and the job in hand is not settled until the whole set is there (`AtWork`) |
| `SpecScheduleOK`, `SpecPendingBounded` (`RefreshScheduleProofs`) | finitely many jobs and dispatchers | `ScheduleOK`, `PendingBounded` | `OwnBounded` counts with the pending jobs that were never over (`Own`) the dispatchers about to create one (`Creating`): a schedule found idle has none of the former, and each dispatcher trades itself for one job; what a recovery saves was `Own` before, or is in `revived` |
| `SpecIsEachOne`, `SpecTypeOK` (`DecisionProofs`) | — | the six specifications; `TypeOK` | a behaviour of `MCDecisions` is one of each module; types from the invariants below |
| `SpecReferencedFirst` | finitely many foreign keys | `ReferencedFirst` | `Ordered`: the count of an unplaced table is that of the tables it references and that are unplaced; when none is ready, the rest is circular, so it all waits for a cycle |
| `SpecFailureCleansUp`, `SpecAssetsAreComplete` | — | the properties of the same names | `Progress` says for each step which files exist and which lines they have |
| `SpecPlanIsNeighbourhood` | finitely many foreign keys | `PlanIsNeighbourhood` | `Planning`, below |
| `SpecSelectionAgrees` | — | `SelectionAgrees` | `Selecting`: each candidate dropped so far is one the pages refuse, and the storage is blamed just when it is for one of these; `ExplanationOfCompatible` compares the two pieces of code |
| `SpecReadyIsConsistent` | — | `ReadyIsConsistent` | the columns under a policy of the handling of a sensitive one are closed under the foreign keys that do not block: one that led out would join it to a column without classification, not sensitive, or under another handling (`LinkedAlike`, with `FirstMatches` for the first applicable policy) |
| `SpecCatalogResolves`, `SpecIngestedIsComplete` | — | the properties of the same names | `Ingested` says of each ingestion that what it has listed refers to what it has listed or the catalog has, and that what stands is listed or saved |

`compose.yml` starts one container of each worker, so `Alone` is the deployment as it is, and `Solitary` covers it however
long a pipeline takes. `Unassisted` is that deployment between two runs of the recovery, which is started by hand.
`PromptWorkers` is about pipelines that fit in a lease; for those that do not, the runs and the other theorems say what
is left.

An invariant alone is seldom inductive: `HolderIsLeased` says nothing of the worker's next step, `OutcomeFollowsLoad`
is broken by a state in which a worker stands before the COMPLETED save without having loaded, `PendingBounded` by one
in which every dispatcher is about to create a job, `OneVersion` by one in which a worker is about to add assets of two
executions. The strengthenings above rule out exactly these states.

In `ArtifactFlowProofs` the steps of the queue are abstracted by `QueueMove` (no job comes or goes, COMPLETED comes only
from the save, nobody gets past its look-ups), which `FrameMove`, `BreakMove` and `RecoveryMove` establish once; the
steps of the composition are then proved good from these few facts. The proofs about `BaselineRefresh` likewise use of
the frame only the lemmas of `JobQueueProofs`.

The plan is breadth first because of its queue, and `Planning` says how: while tables of depth `d` are queued, those
within `d` foreign keys are all visited; of these, all that are not queued have been expanded; and what has been found
beyond them is queued behind them, with depth `d + 1` (`Level`, `InOrder`). When the last of depth `d` is taken, level
`d + 1` is complete (`NextLevel`), and when the queue is empty nothing is left to be found (`LastLevel`, with
`WithinClosed`: no way leads out of a set that has all its neighbors).

**Only model-checked**: the liveness properties `NoJobStranded`, `NoJobStarves`, `ArtifactsEndDeleted`,
`PublishableEnds`, `RefreshRepairs` and `DueIsDispatched`, since fairness is out of the prover's reach.

## What is left

1. `ExclusiveExecution` and `LeaseNeverStolen` are stated and proved for the publish worker; the other three share the
   lease table, and their frame could be given the same theorems.
2. `OneVersion` and `DamageIsVisible` need one worker, and two refreshes of one baseline do mix their assets. What
   remains true with several workers that never refresh the same baseline at once is not stated.

## Not modelled

* **Queries and views, the HTTP transport, the frontend, settings, wiring, logging, the ports and transfer objects**:
  nothing in them interleaves or decides anything the properties talk about. The in-memory demonstration
  (`bootstrap/demo.py`) implements the same ports over dictionaries.
* **Seeding**: straight-line saves of sample data; that a seed which breaks off is never completed is in the hazards.
* **Contents of rows**: the masking of values is hashing and string work; the rows of different tables are read in
  different transactions, so references between them may dangle; both need data the models do not have.
* **Look-ups that only refuse** a request or raise before a job starts (inactive systems, profiles, targets, engines):
  in the workers they are failures like others, in the requests they decide only whether a job exists.
* **Validation**: nothing in the code writes validation reports (step 8 of flow 2 in `sequence-flows.md`), so
  `BaselineSelection` takes them as given.
* **Migrations** of the control plane, and the foreign keys as such: the PostgreSQL discovery pairs the columns of
  composite keys crosswise, which changes which relationships exist, not what is done with them.
