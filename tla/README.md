# The JuiceFS operator in TLA+

This directory specifies and verifies the JuiceFS operator (`juicedata/juicefs-operator`), a
Kubernetes operator that manages distributed cache groups, cache warm-up and data synchronization.
Paths below are relative to the repository.

## The system

The operator is one process of controller-runtime. Each controller has a work queue of object keys;
a reconcile reads the object and its children from the informer cache, which lags behind the API
server, compares them with the spec, calls the API server, and writes the status. The processes that
interact are the controllers, the API server, the kubelet with the JuiceFS process in each pod, the
informer cache, the owner garbage collector and the user. All they share is the objects at the API
server; within a reconcile of a cache group there is also a goroutine for each worker.

| component | state it keeps | operations | what is hard | what makes it correct |
|---|---|---|---|---|
| CacheGroup controller: workers `internal/controller/cachegroup_controller.go`, `cachegroup_worker_lifecycle.go` | worker pods (their hash, mount options, join and leave annotations), `status` (phase, counts, join batch) | sync of the workers, rolling update, smooth restart, graceful shutdown, cleaning of caches, status | goroutines of a pass, stale lists, crash or error between the deletion of a pod and its creation, waits that time out, phases that last over many passes | updates stay within maxUnavailable; a worker is deleted after its cache migrated; joins are batched; every phase ends; the group converges |
| CacheGroup controller: group | the finalizer, the claims of the workers, the jobs that clean caches | which workers are to be there, claims, finalizer, clean-cache jobs, what wakes up the reconcile | an old copy of the group after its deletion, a finalizer that runs beside its workers, claims and jobs that are on their way out, events that nobody sends | nothing is created that nobody cleans up after; the workers follow the nodes; a deleted group goes and leaves nothing behind |
| stats controller `cachegroup_stats_controller.go` | `status.stats`, `status.cacheSize` | sample the workers every minute, compute rates | old samples, restarted processes, a second writer of the status | no decision on a sample that does not show what it is taken to show |
| worker decisions `pkg/utils/worker.go`, `pod.go` | none | may a worker join, is a counter idle, what is the budget | boundaries of times, missing values | see the above |
| pod builder `pkg/builder/cache_group_pod.go` | none | render a worker, its hash and its options | v1 and v2 rendering of the same template | equal templates render equal hashes |
| scheduler simulator `pkg/scheduler` | pods to come and pods to go | which nodes could take a worker: taints, node affinity, pod affinity and anti-affinity | the order of the nodes, pods counted that will not be there, and the other way round | all workers that are expected can be scheduled together |
| Sync controller `sync_controller.go` | phase of a Sync, worker pods, manager pod, secret | prepare, progress, finish, expire | stale reads with an overwriting status update, waits inside a reconcile, a manager that ends before it is seen | a finished Sync stays finished; its pods go away; its phase tells what the manager did |
| CronSync controller `cronsync_controller.go` | schedule times, Sync jobs | start a job when due, concurrency policy, history | crash between creating a job and recording it, stale list of jobs, no requeue under Forbid | each due time starts one job at most; Forbid never runs two; the schedule goes on |
| WarmUp controller `warmup_controller.go`, `pkg/builder/job.go` | Job or CronJob, phase and progress | render and create the job, follow it, expire; keep the cron job up to date | conflicts that are ignored, requeues that depend on the phase read, statistics from the log of any pod, a template from any pod of the group | a verdict stays and is earned; a job gets one; the progress is shown; the cron job follows spec and group; a job never joins the group as a member |
| node events `enqueue.go` | none | call the groups when a node comes, goes or has other labels | changes it does not look at | no change that matters is missed |
| utilities `pkg/utils`, manager `cmd/` | none of their own | wiring, parsing | comparison of image versions | |

`PROJECT.json` lists the components with what is modelled of each, and the hazards of the code at
their lines.

## Modules

* `WorkerDecisions` holds what the CacheGroup controller decides, as pure operators named after the
  functions of the code: `CanAddWorker`, `ShouldAddJoinOption`, `CounterIdle` (WorkerCounterIdle),
  `Recreates` and `SmoothRestarts` (workerUpdateAction), `UpdateBudget` (the counting in syncWorkers),
  `CanDelete`, `ShutdownFails` and `StartsLeaving` (the outcomes of gracefulShutdownWorker),
  `CalculateStatus` (calculateStatus). It also defines the records for pods, samples and status.
* `CacheGroup` is the state machine: the reconcile of one group, one API call a step, composed with
  the stats controller, the kubelet, the informer, the user and the clock. It states the properties.
* `MCCacheGroup` gives values to the constants for TLC; one cfg per run.
* `CacheGroup_proofs`, `CacheGroupPass_proofs` and `CacheGroupPhases_proofs` hold the theorems about it:
  types and the budget of a pass; what a pass deletes, cleans and takes down; how joining and leaving end.
* `SyncPromise` is the abstract specification of a Sync: what its phase promises to whoever created
  it. `SyncJob_proofs` proves that `SyncJob` implements it and what follows from it.
* `SyncJob` is the Sync controller with one Sync: the reconcile, its worker pods and its manager pod,
  the informer cache, the kubelet, the garbage collector and the user. It implements `SyncPromise`.
* `CronSync` is the CronSync controller with one CronSync. Its Syncs move as `SyncPromise` says.
  `CronSync_proofs` holds the theorems about it.

* `WarmUpPromise` is the abstract specification of a WarmUp, `WarmUpJob` what the controller renders as
  pure operators (`CompareImageVersion`, `AppendMountOpts`, `NewWarmUpJob`, `NewWarmUpCronJob` and their
  parts), `WarmUp` the controller with one WarmUp, its Job or CronJob, the pods of its group and the
  user. It implements `WarmUpPromise`. `MCWarmUp` gives values to the constants, `WarmUp_proofs` holds
  the theorems, with `Induction` for those that are inductions over data.
* `Scheduling` holds what decides where the workers of a group are, as pure operators: the expected
  workers by replicas, by node selector and by the simulated scheduler, the overwrites of the template,
  what the builder makes of a name, and where the Kubernetes scheduler may put the result.
* `GroupLifetime` is the life of one group from its creation to its removal: finalizer, expected
  workers, claims, clean-cache jobs and what wakes up the reconcile, composed with the nodes, the
  scheduler, the kubelet, the jobs, the garbage collector and the user. What a worker goes through in
  between is the subject of `CacheGroup`. `MCGroupLifetime` gives values to the constants,
  `GroupLifetime_proofs` holds the theorems about it.

Definitions whose comment begins with "A mutant" change one definition the way a plausible bug in
the code would. No specification uses them; each property is violated when one takes the place of
the definition it mutates.

### State and code

| variable | in the code |
|---|---|
| `spec` | `cg.Spec`: the names parseExpectState returns, a number for the worker template, the update strategy |
| `status` | the fields of `cg.Status` that calculateStatus computes |
| `cacheSize`, `stats` | `cg.Status.CacheSize` and `cg.Status.Stats`, written by the stats controller |
| `pods` | worker pods at the API server: generation of the template (the hash annotation), v1 or v2, condition, deletion timestamp, `juicefs.io/backup-worker` (`joinAt`), `juicefs.io/waiting-delete-worker` (`leaveAt`), start of the JuiceFS process |
| `seen` | the same in the informer cache: what `r.List` and `r.Get` return |
| `dirty` | nodes whose cache directory holds blocks of the group |
| `queued`, `timer` | the key is in the work queue; the `RequeueAfter` of one minute is running |
| `pc`, `run`, `want`, `task`, `todo`, `err` | the reconcile: where it is, what it read, the pod each worker is to become, the next API call of each goroutine, what the removal loop has left, whether something failed |
| `now`, `edits`, `faults` | the clock, and counters for the bounds |

### Actions and code

| action | code |
|---|---|
| `Start` | Reconcile up to the goroutines: list, first calculateStatus, and for each worker syncWorkers' checks, including the choice of which ready workers fill the budget (the loop is over a Go map, so the choice is open) |
| `CreateWorker` | createCacheGroupWorker |
| `DeleteOld`, `AwaitGone`, `AwaitTimeout`, `RecreateWorker` | updateCacheGroupWorker: delete, the wait of deleteCacheGroupWorker on the informer cache, create |
| `RestartWorker`, `PatchWorker`, `RestartFails` | smoothRestartWorker, and what syncWorker or gracefulShutdownWorker do when it fails |
| `StartRemoval`, `ShutDownWorker`, `DeleteRedundant`, `CleanWorkerCache` | removeRedundantWorkers, one worker after the other |
| `PatchStatus`, `PatchStatusFails` | the end of sync: second list, second calculateStatus, the patch, and the requeue of Reconcile |
| `ApiError`, `Crash` | an API call fails; the operator dies and starts again with a fresh cache |
| `CollectStats` | one reconcile of the stats controller |
| `Observe` | the informer catches up, and the event of an owned pod queues the group |
| `PodReady`, `PodGone`, `PodFails`, `PodDeleted`, `EditSpec`, `Tick` | kubelet, drain or user, clock |

`SyncJob` (sync_controller.go):

| variable | in the code |
|---|---|
| `obj`, `seen` | the Sync at the API server and in the informer cache: which of the Syncs of this name it is (the UID), its phase, whether its spec passes the checks |
| `pod`, `seenPod` | the worker pods and the manager pod, at the API server and in the cache: phase, and the Sync that owns them |
| `hosts`, `ips` | the addresses in WORKER_IPS of the manager, and those prepareWorkerPod collected |
| `late` | Syncs whose PreparingAt is longer ago than PreparingTimeoutSeconds |
| `queued`, `pc`, `mine`, `mgr` | the work queue, and the reconcile: its next API call, the Sync and the manager pod it has read |
| `copied` | Syncs whose manager has copied everything |

| action | code |
|---|---|
| `RejectSpec`, `BeginPreparing`, `TimeOutPreparing`, `ResumePreparing`, `ResumeProgressing`, `ResumeFinished`, `SyncNotFound` | Reconcile up to its first API call |
| `WritePreparing`, `WriteProgressing`, `WriteVerdict`, `WriteStats`, `WriteStatusFails` | updateStatus, which re-reads the object from the cache and overwrites its status |
| `CreateWorkers`, `WorkersReady`, `WorkersNotReady` | prepareWorkerPod: list, create, poll |
| `CreateManager`, `CreateManagerFails`, `FindManager`, `ManagerReady`, `ManagerNotReady` | prepareManagerPod |
| `WaitTimesOut` | the minute of either wait |
| `ManagerMissing`, `CheckManager`, `DeleteSucceeded`, `Judge...` | the Progressing phase and calculateSyncStats |
| `DeleteAllWorkers`, `Expire`, `AwaitTTL` | the finished phases, and the TTL |
| `CreateWorkersFails`, `JudgeWithoutLog`, `CallFails`, `Crash`, `LosePod` | faults |
| `ObserveSync`, `ObservePod` | the informer and the events; the other actions are the kubelet, the garbage collector, the clock and the user |

`CronSync` (cronsync_controller.go): `cron` and `seenCron` are the CronSync at the API server and in
the cache, `jobs` and `seenJobs` its Syncs by the time in their name, `mine`, `listed` and `start` what
the reconcile has read and its time.Now(). `ReadCron`, `FirstSchedule`, `PruneHistory`, `NotDue`,
`SkipForbidden`, `StartRun`, `ReplaceRunning`, `CreateJob` and `RecordRun` are Reconcile in its order,
one API call a step; `PruneFails`, `ReplaceFails`, `UpdateRefused`, `CreateExisting` and `RecordRunFails`
are the calls the API server refuses, since the object has changed, is gone or exists.

`WarmUp` (warmup_controller.go, utils/warmup.go):

| variable | in the code |
|---|---|
| `wu`, `seenWu`, `fresh` | the WarmUp (its spec by name, phase, progress) at the API server and in the cache; which copies have the latest resource version |
| `job`, `seenJob`, `cron`, `seenCron` | the Job with what its pods have logged, and the CronJob, at the API server and in the cache; each as the spec and the pod it was rendered from |
| `group` | the pods with the label of the cache group, among them that of a clean-cache job |
| `warmed`, `expired` | a job has ended well (for the promise); the TTL is over |
| `queued`, `timer`, `pc`, `mine`, `what` | the work queue, RequeueAfter, and the reconcile: its next API call, the status and the object it has read or is about to write |

| action | code |
|---|---|
| `SyncGone`, `OnceFinished`, `OnceAwaitTTL`, `OnceExpire`, `OnceFindJob`, `OnceBuildJob` | Reconcile and syncOnce up to the first API call that changes something |
| `CreateJob`, `WriteStatus`, `DeleteWarmUp` | the rest of them: create, statistics and status, the end of the TTL |
| `CronBuildJob`, `CronRebuildJob`, `CronUpToDate`, `CreateCronJob`, `UpdateCronJob`, `WriteRunning` | the cron handler |
| `ResolveFails`, `WriteObjectFails`, `WriteGone`, `CallFails`, `Crash` | no worker, or one that cleans; a call the API server refuses; a call that fails; the operator dies |
| `ObserveWarmUp`, `ObserveJob`, `ObserveCronJob`, `TimerFires`, `CronJobRuns` | informers, events, the timer |
| `JobProgresses`, `JobRetries`, `JobEnds`, `LogsGetLost`, `TTLPasses`, `CleanerGoes`, `Collect` | the Job controller and its pods, the clock, the clean-cache job, the garbage collector |
| `UserDeletesJob`, `UserDeletes`, `UserEdits`, `GroupChanges` | the user, and the CacheGroup controller |

`GroupLifetime` (cachegroup_controller.go, enqueue.go):

| variable | in the code |
|---|---|
| `nodes`, `seenNodes` | labels and taints of the nodes, at the API server and in the cache |
| `cg`, `seenCg` | the CacheGroup: spec by name, deletion timestamp, finalizer, and whether its status knows the file system |
| `secret` | the Secret named in the spec is there |
| `pods`, `seenPods`, `claims` | the workers (node, running, leaving, being deleted) and the claims of their VolumeClaimTemplates, with their storage |
| `jobs`, `dirty` | the clean-cache jobs by the node in their name, and the nodes with cache of the group |
| `queued`, `pc`, `run`, `task` | the work queue with the requeue of a minute, and the reconcile: what it has read, and the API calls left for each worker |
| `events`, `excused` | a counter for the bound; a cache may remain, for one of the reasons `CacheIsCleaned` names |

| action | code |
|---|---|
| `ReconcileGone`, `ReconcileNew`, `AddFinalizer`, `ReconcileFails`, `ReconcileSync` | Reconcile: not found, the finalizer, the secret, the list and the expected workers |
| `EnsureClaims`, `CreateWorker`, `RestartWorker` | ensurePVCsForWorker with the expansion of a claim, createCacheGroupWorker, the restart of a worker that serves again |
| `StartRemoval`, `BeginsLeaving`, `DeleteWorker`, `CleanWorkerCache`, `WriteStatus` | removeRedundantWorkers, cleanWorkerCache, the status and the requeue |
| `ReconcileDeleted`, `CleanAllDone`, `RemoveFinalizer` | HandleFinalizer |
| `CallFails`, `Crash` | faults |
| `ObserveNode`, `ObserveGroup`, `ObserveWorkers` | informers, with enqueueRequestForNode for the nodes |
| `WorkerPlaced`, `WorkerStarts`, `WorkerStops`, `ClaimGoes`, `JobRuns`, `JobFails`, `JobExpires`, `Collect` | scheduler, kubelet, pvc-protection, Job and TTL controller, garbage collector |
| `UserEditsNode`, `UserScales`, `UserExpands`, `UserDeletesGroup`, `UserDeletesSecret` | the user |

### Abstractions

* Time is a coarse clock. A tick is at least the minute of the requeue and of the stats controller,
  and long against an API call and the lag of the informer, so time passes only while the reconcile
  is idle or waits for a pod to go away, and with the informer caught up. At `MaxTime` the clock
  stops and every recorded time recedes by one instead: time never ends, which liveness needs.
  `HorizonAssumption` says that `MaxTime` exceeds every span a decision compares, so that a time that
  has receded to 0 decides as it did before. It is evaluated in every run.
* A counter of a worker is missing, moving at the idle rate or faster, idle at zero, or idle above
  zero: what WorkerCounterIdle tells apart. A rate is missing after the first sample of a process, or
  after a gap, as in nextWorkerStats. A sample shows any of these, whether or not it is true of the
  JuiceFS process, whose own migration is outside the repository.
* The controller reads the CacheGroup itself as it is. An edit during a pass is taken after the pass,
  which has read its spec already.
* A template is a number; `V2Gens` tells which have an image that takes restart arguments. The hash
  of a v1 worker covers its join option, that of a v2 worker does not (newWorker).
* A worker is down from the deletion of its pod until its replacement is ready. A pod that is being
  deleted keeps its readiness until it is gone.
* In `SyncJob` the spec of a Sync either passes the checks of Reconcile or does not; a log is read and
  tells of lost files, or is not. The figures from the metrics of a running manager are left out, but
  they are written with the whole status, so the phase is written with them. A write is accepted if the
  cache shows the Sync as it is: RetryOnConflict reads it again until then. The secret is only a call
  that may fail.
* In `CronSync` the schedule is periodic. A tick, at least the second in the name of a Sync, is long
  against a reconcile and the lag of the informer. What surrounds a reconcile happens between
  reconciles; the module says why nothing is lost. "Progressing" stands for Preparing, too.
  Nobody but the controller deletes its Syncs.
* In `CacheGroup` there are no pods the scheduler has not bound, and a cache is cleaned at once; both
  are in `GroupLifetime`.
* In `WarmUp` a job is the spec and the pod it was rendered from, and `JobTemplate` what that renders.
  An image is a kind of tag and a version, an option a key and a value; the hash of a cron job is equal
  if all that is rendered is. The log of a pod is clean, tells of failed blocks, or is lost; which of the
  pods' logs is read is open, as it is in the code. Duration and times are left out of the status.
* In `GroupLifetime` a worker leaves in one step or two, since how long is the subject of `CacheGroup`.
  Of the status there is only whether it has the file system in it, which HandleFinalizer falls back
  on. Selectors are conjunctions of labels. A job empties the directories of its node unless a worker
  of the group runs there; `Patient` jobs start after the workers have stopped that go. A worker that is
  bound by NodeName is created with its node, another gets it from `WorkerPlaced`, which looks at every
  node and at the pods there are, as the Kubernetes scheduler does and the simulation does not.
  Claims are read as they are, and an expansion succeeds.

## Properties

The hazards each property is for are in `PROJECT.json`.

* `PassWithinBudget`: the ready workers a pass is updating and those it found unavailable stay within
  maxUnavailable, whatever its goroutines, the kubelet and faults do.
* `FaultsCostABoundedNumber`: over any passes, the workers that are down exceed maxUnavailable by at
  most one for each fault, or the budget for each crash.
* `DeletesWhatItListed`: a delete by name marks only the pod the pass decided about, or what a restart
  or a decommission has made of it, although the list was stale.
* `CacheNotLeftBehind`: a group at rest, without faults, has no data on nodes it does not use.
* `JoinsInWindow`: a worker that joins is created a margin before the rebalance of its batch, as a
  member the batch already knows, or together with all others that join and have not had their time.
* `BatchCoversJoiners`: between two passes the batch in the status has all workers that join, unless all
  of them have had their time.
* `BatchStartNeverEarlier`: no pass moves the rebalance to an earlier time while a worker of the batch is
  a member of it.
* `JoinEndsOnEvidence`: the join option is removed by a smooth restart after the join duration, or on
  a sample late enough to show that the transfer is over: the delay of its phase after the last process
  of the group has started (a joining worker that is leaving, too, has the shorter delay of leaving).
* `MigratesFirst`: a worker that serves and holds cache, with another to take it, is deleted only
  after its migration, by a sample of the process that migrates, or after the maximal wait.
* `Converges`: when edits and faults are over, the expected workers, and no others, run, ready and up
  to date, and neither join nor leave, for ever.

Of a Sync:

* `KeepsPromise`: the controller implements `SyncPromise`. The phase moves forward, a verdict stays,
  and Completed is written only after the manager has copied everything.
* `Settles`: every Sync ends with a verdict that stays, or is gone, and so are its pods.
* `WorkersGo`, `WorkersOutliveManager`: the workers of a finished Sync are deleted and not created
  again; none is deleted by the controller while the manager runs.
* `ManagerHasItsWorkers`: the manager is started with the addresses of all its workers.

Of a CronSync:

* `OneAtATime`: under Forbid and Replace at most one Sync is unfinished.
* `OncePerDueTime`: between the creation of two Syncs there is a due time, unless the first could not
  be recorded. It is violated under Replace; `OncePerDueTimeUnlessReplace` holds, if no history limit is 0.
* `RetainsHistory`, `PrunesHistory`: pruning leaves what is to be retained, if no history limit is 0, and
  in the end no more.
* `ScheduleGoesOn`: no run stays due, unless a Sync could not be created or recorded.

Of a WarmUp:

* `KeepsPromise`: the controller implements `WarmUpPromise`. No reconcile with an old status, job or spec
  changes a verdict, and Complete is written only if a job has ended well and a log of it does not tell
  of failed blocks.
* `Settles`: a WarmUp that runs once gets a job, a verdict when the job has ended, and goes after its TTL.
* `ShowsProgress`: while a job runs, the status comes to show how far it is.
* `CronJobFollows`: a scheduled WarmUp comes to have a cron job of its spec and of a worker there is.
* `MountsAsClient`: whatever options the worker and the user have, what is rendered neither caches nor
  serves.

Of the life of a group:

* `CreatesUnderFinalizer`: a worker or a claim is created only for a group that the finalizer holds.
* `AtHome`: a worker that has the name of a node runs there, unless its template has a required node
  affinity of its own.
* `AllFit`: the workers that are expected under enableScheduling can all be scheduled together.
* `Converges`: when the nodes stop changing, the workers are those that should be there now, and run with
  claims of the size that is asked for; a group that is deleted goes, with its workers and claims.
* `CacheIsCleaned`: with cleanCache, in the end only nodes with a worker hold cache of the group, but for
  the cases the property names.

## Runs

| run | instance | checks | result |
|---|---|---|---|
| `CacheGroupRolling` | 2 workers, v1 to v2 template, lists that lag, one API error, crash, failed pod or slow termination | `DeletesWhatItListed`, `Converges` | hold |
| `CacheGroupBudget` | 3 workers, maxUnavailable 50 % (1 of 3, 1 of 2), one fault of any kind, one edit of workers and template | `FaultsCostABoundedNumber`, `PassWithinBudget`, `CacheNotLeftBehind` | hold |
| `CacheGroupBatch` | 1 worker and 2 that join in up to two edits, of which one may leave again, a crash, no samples | `BatchCoversJoiners`, `JoinsInWindow`, `BatchStartNeverEarlier` | hold |
| `CacheGroupPhases` | 2 v2 workers, one joins, leaves and may be wanted again, samples, both update strategies, one crash or failed sample | `TypeOK`, `JoinEndsOnEvidence`, `MigratesFirst`, `Converges` | hold |
| `CacheGroupLeaveExec` | a command in the worker fails once | `MigratesFirst` | violated |
| `CacheGroupLeaveV1` | a v1 worker leaves and is wanted again | `Converges` | violated |
| `SyncJobRun` | 2 workers, a TTL, a cache that lags, one API error, crash or deletion | `TypeOK`, `KeepsPromise`, `WorkersGo`, `WorkersOutliveManager`, `ManagerHasItsWorkers` | hold |
| `SyncJobUser` | 1 worker, a preparing timeout, one pod that fails or goes away, unreadable log, edit or deletion, and a second Sync of the same name | `Settles` | holds |
| `CronSync` | a run every 2 ticks of 4, every policy, history limits of 1, one API error, failed creation, crash, suspension or resumption | `TypeOK`, `OneAtATime`, `OncePerDueTimeUnlessReplace`, `RetainsHistory`, `PrunesHistory`, `ScheduleGoesOn` | hold |
| `CronSyncReplace` | Replace, no faults | `OncePerDueTime` | violated |
| `WarmUp` | 2 workers with and without statistics, a run with a TTL, a schedule, a run with a secret, caches that lag, one fault or intervention of any kind | `TypeOK`, `MountsAsClient`, `KeepsPromise`, `Settles`, `ShowsProgress`, `CronJobFollows` | hold |
| `GroupLifetime` | 2 nodes or 2 replicas; a group by node selector, one scheduled with affinities, an overwrite and a taint, one with claims and directories, one that is scaled and whose claims grow; two events (one if scheduled): nodes that come, go and change, deletion, lost secret, API error, crash | `TypeOK`, `AtHome`, `CreatesUnderFinalizer`, `AllFit`, `Converges`, `CacheIsCleaned` | hold |

The bounds are `MaxTime` (clock), `MaxGen` (templates), `MaxEdits` and `MaxFaults`; passes, restarts
and, through the receding clock, time are not bounded. A Sync with two workers
is one whose workers are created, listed or deleted in part; with one fault, every step of the
reconcile is interrupted or repeated once. The clock of `CronSync` has room for the first schedule and
two due times, so that a run is forbidden, replaced or missed, and a history exceeds its limit.
Two workers of a cache group are enough for a property of one
worker and another that could take its place or its cache; the budget and the batch need three, so
that one is down, one is updated and one must not be, or so that two join a group that exists. Two
edits let a decision be taken back (add, then remove; remove, then want again). One fault at a time
is what the properties speak of; `FaultsCostABoundedNumber` counts them. A WarmUp needs two workers,
so that the cron job follows one of several and a version has statistics or has not; one step of
progress tells a status that follows from one that does not. A group needs two nodes, so that a
worker has another place to go, excludes another, or is left over; two events are a node that changes
and a crash in the pass for it, or a deletion that crosses a change. Deadlock is checked in the runs
of `CacheGroup`; a finished Sync, a CronSync at the end of its clock, a WarmUp with its verdict, and a
group that is settled or gone, may rest.

### Findings

1. `CacheGroupLeaveExec`: IsMountPointReady answers false when its command cannot be run, and a
   worker whose mount point is not ready is deleted at once unless it is leaving already. One failed
   exec deletes a serving worker without migrating its cache; a failure of the next exec is an error.
2. `CacheGroupLeaveV1`: a leaving v1 worker keeps the hash of its template, and mount options are
   compared for v2 workers only. Wanted again, it is up to date and stays decommissioned.
3. `CronSyncReplace`: the creation of a Sync is an event of its CronSync. A reconcile for it that reads
   the CronSync from before the record finds the same time due; under Replace it deletes the Sync that
   was just created and creates another. A comment says that such a call is ignored. Under Forbid the
   list, and under Allow the name, of the same second, prevent it.

### Outside the runs

TLC shows these when the constants of a run are changed; the code does them, and no doc contradicts.

* If the manager may be lost, `KeepsPromise` does not hold: it may be removed after it has ended and
  before its log is read, and then its exit code alone makes a Sync Completed that has lost files.
* With a preparing timeout or edits, `KeepsPromise` does not hold: a reconcile that reads an old
  Preparing after the deadline writes Failed over Progressing, and one that reads an old Progressing
  writes Completed over Failed. An edit that the checks reject writes Failed over Completed, and its
  reconcile returns before it deletes the workers, so `WorkersGo` fails, too.
* With an unreadable log, `KeepsPromise` does not hold: the exit code alone makes a Sync Completed
  that has lost files.
* A Sync that is deleted and made anew while a reconcile of the old one is under way may be given the
  verdict of the old one, whose reconcile writes by name (sync_controller.go:495). Its workers are deleted
  then although its manager runs. So they are with a preparing timeout, or if a fault removes the manager:
  `WorkersOutliveManager` holds in `SyncJobRun`, which has none of the three.
* With `Namesakes` (workers of a Sync of the same name in another namespace), `ManagerHasItsWorkers`
  does not hold: workers are listed in all namespaces.
* Without a preparing timeout, `Settles` does not hold once a worker has failed: it is in the list, is
  not restarted, and is not replaced.
* syncWorkers counts unavailable workers in the list of pods, and an expected worker that is missing is
  in no list. After the wait for a termination has timed out a later pass creates the missing worker
  and updates others beside it: more are down than maxUnavailable. `FaultsCostABoundedNumber` allows it.
  With 4 workers and maxUnavailable 2 a crash between two deletions and their creations costs two
  workers, and the next pass takes down two more: the cost of a crash is a budget, not one worker.
* With lists that lag, a worker that is removed and wanted again before the cache shows it, or that
  others delete, may have its replacement deleted by the next pass, which recreates it
  (`DeletesWhatItListed`); `CacheGroupRolling` lets lists lag and has neither. A pass that sees the pod as
  before its last restart removes a join option at once, on the old sample (`JoinEndsOnEvidence`).
* A batch of other workers may start earlier than the one before, when all members of that are gone and
  a worker that leaves shortens the delay: `BatchStartNeverEarlier` speaks of batches with a common member.
* A member of a batch whose pod is created again joins with a later time than the recorded start, which
  is extended for new members only (cachegroup_controller.go:386): it has less than its delay until the
  rebalance. `JoinsInWindow` asks nothing of members.
* With lists that lag, a pass that follows a failed patch of the status may know nothing of a joining worker
  that the pass before has recreated, and lets another join later, in a batch of its own (`JoinsInWindow`; TLC
  finds it with two templates and an API error). No such run is known of `BatchStartNeverEarlier`, whose proof
  needs up-to-date lists all the same.
* A worker that loses and regains its readiness during a pass is not ready in its list, and is deleted
  without migrating its cache (`MigratesFirst`, with faults of the kind "pod").
* With a history limit of 0 a Sync that ends in the second of its creation may be pruned, and its name be
  used again for the same due time, by a Sync that the cache takes for the old one: neither
  `RetainsHistory` nor `OncePerDueTimeUnlessReplace` holds then. `CronSync` has limits of 1.
* A worker whose template has a required node affinity gets the name of its node as one more
  alternative (cache_group_pod.go:244), and may run elsewhere: `AtHome` excepts it.
  It looks at the template of the node's present labels: with an overwrite by labels that sets the
  affinity, a node that is relabelled may not be excepted any more. `MCGroupLifetime` has no such overwrite.
* With jobs that are not `Patient`, `CacheIsCleaned` does not hold: the finalizer's jobs start while the
  workers run, and one that ends before its worker does is for nothing.
* Workers that are bound to their nodes by name and have claims do not converge: a worker that comes
  back while its old claim is on its way out keeps that claim in use, and cannot start on it.
* `Converges` excepts a worker the scheduler has not placed: the removal passes it over, for ever.

These are seen in the code and are outside the models, or are what a property allows:

* A change of taints alone calls no group (enqueue.go:53). A finished clean-cache job, which stays for
  a minute, is taken for the one to create (cachegroup_controller.go:486).
* The status of a scheduled WarmUp is written once, after its cron job is created; with overwrites, the
  cron job is rewritten as pods of different templates are listed first. A WarmUp whose policy is
  switched keeps its old job or cron job.
* The statistics of a retried job are those of any of its pods; a log that is lost says that nothing
  failed.
* A percentage for maxUnavailable is rounded down, with few workers to 0 (pod.go:159). Under OnDelete a
  v1 worker keeps its join option (cachegroup_worker_lifecycle.go:295). The count of ready workers that
  could take a cache includes the redundant ones (188).

## Fairness

`Converges` assumes weak fairness of: `Start`, since the work queue runs what is queued; each
`WorkerStep`, `StartRemoval` and `PatchStatus`, since a goroutine of a running operator goes on;
`Observe`, since an informer delivers its watch or relists; `CollectStats`, since the stats controller
requeues itself every minute; `PodReady` and `PodGone`, since the kubelet starts and removes pods; and
`Tick`. Weak fairness is enough, since only the step itself or a crash disables one of them for good.
No fairness says that a fault or an edit happens, and none that a sample ever shows an idle counter:
phases must also end by their duration.

In `SyncJob` weak fairness of `Step` says that the reconcile goes on and the work queue runs what is
queued, retries after an error included; of `ObserveSync` and `ObservePod`, that the informers catch
up; of `PodStarts` and `ManagerEnds`, that the kubelet starts pods and the manager ends, well or not;
of `CollectPod`, the owner garbage collector; of `DeadlinePasses`, the clock. Workers need not exit by
themselves. In `CronSync` the surroundings act when the reconcile is idle, which it is again and again,
so strong fairness is needed: of `ObserveCron`, and of the other surroundings together, none of which
can go on for ever without the others (Syncs end, the clock stops, a timer fires once).

In `WarmUp` weak fairness of `Step` is the work queue and the reconcile, of the `Observe` actions the
informers, of `TimerFires` RequeueAfter, of `CronJobRuns` the schedule, of `TTLPasses` the clock, of
`CleanerGoes` that a cache is cleaned in the end, of `Collect` the garbage collector. That a job ends is
not assumed; `Settles` speaks of those that do.

In `GroupLifetime` weak fairness of `Step`, of each `Observe` action, of what the scheduler and the
kubelet do with each worker, of each job, and of the garbage collector. Each is disabled for good only
by its own step or by an event, of which there are finitely many. A requeue is in `queued`, and `Step`
is its timer, too: no property depends on how long a minute is.

## Proofs

`CacheGroup_proofs` proves, with TLAPS, for every value of the constants that the assumptions allow
(any finite set of workers, any durations, templates, fault kinds and bounds):

* `TypeCorrect`, `Spec => []TypeOK`. `TypeOK` is not inductive: `CreateWorker` and `PatchWorker` copy
  from `want[w]`, which its type allows to be no pod, and `LeavingWorker` from `run.list[w]`. `Targets`
  adds that a worker with a task that creates or patches has a pod to become, and that the removal
  loop visits pods of its list. `TypeInv == TypeOK /\ Targets` is inductive: `InitTypeInv`, and
  `TypeStep`, from a lemma for the steps of one worker, one for the pass and one for the outside.
* `PassBudget`, `Spec => []PassWithinBudget`. `GrantsFit` shows, from the definition of the budget,
  that what `Start` grants fits with what is unavailable; `StartWithinBudget` that the ready workers
  with a task are the granted ones; `UpdatesShrink` that until the pass ends no other ready worker
  gets a task and what the pass found unavailable stays, though the clock recedes. The cardinalities
  follow from the theorems on finite sets.

`CacheGroupPass_proofs` proves, from the same assumptions, what a pass does to the pods it has listed. Its
invariant `PassInv` says which tasks a pass may have in which of its phases (`PassShape`), that the cache
shows what it may yet delete (`CacheShowsVisited`), and that the pod it is about to recreate is gone. From it:

* `NoCacheLeft`, `Spec => []CacheNotLeftBehind`. `CacheIsLookedAfter`: without faults whoever has
  data on a node runs, or has a task that ends with it running again or clean.
* `FreshDeletes` and `LaggingDeletes`, `DeletesWhatItListed`. `ListedInv`: an untouched pod of a worker with a
  deletion ahead is the listed one. With up-to-date lists it holds whatever else happens. With lists that
  lag, `Waited` adds that the cache has shown a deleted pod gone before the pass goes on to recreate it,
  which needs that no worker is removed by an edit and no pod is deleted by others.
* `FaultsCost`, `[]FaultsCostABoundedNumber`, for up-to-date lists and edits that add no worker and leave
  maxUnavailable. The inductive invariant `CostInv` bounds `Covered`, what is down or may yet be taken
  down, and `Stranded`, what a fault has left without a pod: a later pass fills its budget from what its
  list shows, so the two never add up.

`CacheGroupPhases_proofs` proves what lasts over many passes; all but `BatchCovers` need up-to-date lists:

* `JoinsEnd`, `JoinEndsOnEvidence`. `UndecidedAsListed`: until a pass has done its part with a worker, its
  annotations are those of the list, and without faults of pods its readiness, whatever the kubelet does. `JoinInv`: a worker
  that is about to be restarted without the join option has the evidence already.
* `MigrationFirst`, `MigratesFirst`, if no command in a worker fails and none loses its readiness: without
  the first TLC finds the counterexample of `CacheGroupLeaveExec`, and without the second the one named
  above. `MigrationInv`: the status a pass has computed counts the ready workers of its list, and what it is
  about to remove has migrated, unless it could not be missed.
* `BatchCovers`, `[]BatchCoversJoiners`, for lists that lag as well. `QuietInv`: while nothing is queued, the
  cache shows what the pass has listed, and so the pass has changed no pod. Then it computes the status at its
  end of the list it began with. A status that is the same after two computations has the joining workers in
  its batch, or has dropped the batch twice because all their time was over (`TwiceCovers`).
* `BatchStartStays`, `BatchStartNeverEarlier`. `StartKept`: a pass keeps the start of the batch it has found, or
  has found the batch timed out, or without workers that joined before its start, or without any member left.
* `JoinWindow`, `JoinsInWindow`. `WindowInv`: a pass lets its workers join at one time (`OneJoinTime`), and a task
  that does so belongs to a member of the batch, is a creation before the window closes, in which no time
  passes, or was given when all that joined already had had their time, and none else may begin
  (`JoinTasksInWindow`). Whoever is recreated by the removal loop leaves (`RemovedLeave`).

The three modules use `DurationsAssumption`, `WorkersAssumption` and `EnvironmentAssumption`, which TLC evaluates in
the runs, and not `HorizonAssumption`. The proofs do not rest on the bounds of the clock or of the faults.

`CronSync_proofs` proves, for every period of the schedule, policies, history limits, length of the clock
and number of faults, from `ScheduleAssumption`:

* `TypeCorrect`, `Spec => []TypeOK`. The edits that `TypeOK` bounds are bounded by the faults
  (`EditsCounted`).
* `OneSyncAtATime`, `Spec => []OneAtATime`. The inductive invariant `OneInv` relates the three copies of
  the Syncs: what runs and is not shown as running by the cache was created at the present time
  (`CacheShowsRunning`), so what a reconcile's list lacks has the name the reconcile would use itself
  (`ListShowsRunning`); under Forbid a reconcile that creates has seen no running Sync
  (`ForbidHasLooked`). `CreateOne` is the step that matters: the name is free, so nothing runs.
* `HistoryRetained`, `Spec => RetainsHistory`, if no history limit is 0 (`KeepsSome`). `HistoryInv`: a list
  shows a Sync as the cache does or not at all, and of the finished Syncs that the cache shows only those
  are gone that have a limit of newer ones in it (`OnlyExcessGoes`). So the newest that is gone has a limit
  of newer ones that are still there (`EnoughRemain`). A Sync with newer ones is not of this second
  (`ExcessOfCache`): its name is not used again before the cache shows it gone.
* `OnceIfKept`, `Spec => OncePerDueTimeUnlessReplace`, if no history limit is 0. `OnceInv`: the last creation
  is recorded, or about to be, or lost; and a cache that shows an earlier record than there is does so for
  this second only, in which the name of a Sync is taken or the first schedule was set. So a reconcile
  that creates has read the present record (`CreatesOnce`).

`SyncJob_proofs` proves, for any workers, namesakes, generations and numbers of faults, from
`NamesAssumption` and `BoundsAssumption`:

* `TypeCorrect`, `Spec => []TypeOK`, which is inductive.
* `PromiseKept`, `Spec => KeepsPromise`, the refinement, for a Sync that is `Undisturbed`: no preparing
  timeout, no edits, readable logs, a manager that no fault removes. TLC breaks the promise without any
  one of the four. The invariant `IInv` speaks of the first Sync while it is there (`Live`, which does
  not come back: `LiveBefore`). `SeenInv`: the cache is at most one write behind. `PodInv`: what the cache
  shows of a manager that has started or ended is still so. `ObjInv`: a phase was written after the
  cache had shown what it rests on. `MgrInv` and `MineInv`: what a reconcile holds agrees with them. So a
  reconcile with an old Progressing reads a manager that has ended and repeats its verdict
  (`RefineWrite`).
* `CompletedMeansCopied` and `VerdictIsFinal` follow from `PromiseKept` and the promise alone: a Sync is
  completed only when it has been copied, and does not leave a verdict. So the abstract specification
  says what it is meant to say.
* `ManagerKnowsItsWorkers`, `Spec => ManagerHasItsWorkers`, if there are no `Namesakes`. `AddressInv`: what a
  reconcile that turns to the manager has found are the addresses of all workers; their number decides it
  (`AllListed`), since the list has no others.
* `WorkersStay`, `Spec => WorkersOutliveManager`, for a Sync that is `Undisturbed` and made once
  (`MaxGen = 0`). `DoneInv` goes on where `IInv` ends, with the deletion of the Sync: where a verdict is known
  no manager runs and none is being prepared (`DoneStep`). TLC finds no violation with edits or unreadable
  logs either, which the theorem excludes because `IInv` does not hold with them.

`WarmUp_proofs` proves, for any specs, pods, kinds and numbers of faults, from `NamesAssumption`,
`BoundsAssumption` and, for the options, `OptionsAssumption`:

* `TypeCorrect`, `Spec => []TypeOK`: `TypeInv` adds that a step that works on an object has one of its
  kind (`ObjectOfStep`).
* `PromiseKept`, `Spec => KeepsPromise`, the refinement. Its invariant has two more parts. `CopiesInv`:
  a copy of the WarmUp that has the latest resource version is equal to it, so a status that is accepted
  was computed of the status and the policy that are replaced. `JobInv`: a job that is complete, as the
  API server, the cache or the reconcile has it, has warmed up the cache or all its logs tell of failed
  blocks. `CompleteIsEarned` is the step that matters: the log is read later than the job.
* `AlwaysClient`, `Spec => []MountsAsClient`, for sequences of options of any length. `OptionsAt` and
  `AppendMountOpts` are recursive functions, and the theorem is an induction over the options.
  `AddedOptions` says what a step adds: nothing but an option that is not to be ignored, behind the
  options of the client.

`Induction` has what such proofs need. The theorems of the library about induction and recursion take an
operator as a parameter, which the provers cannot instantiate; `UptoInduction` and `RecursionExists` say
the same of a set of numbers and of a function of steps.

`GroupLifetime_proofs` proves, for any nodes, specs, modes of scheduling, events and their numbers, from
`NoneAssumption`, `LifetimeAssumption` and `SpecAssumption`:

* `UnderFinalizer`, `Spec => CreatesUnderFinalizer`. Its invariant says that deletion is for good
  (`Deleted1`), that a cache which shows a finalizer and no deletion implies that the finalizer is there
  (`Protected1`), that a reconcile within `HandleFinalizer` works for a deleted group (`Finalizing`), one
  within `sync` for a protected one (`Syncing`), and only the latter creates.
* `TypeCorrect`, `Spec => []TypeOK`. `TypeInv` adds that a task is one or two calls of its step (`TaskType`) for a worker
  that is expected or redundant (`TasksAreOfRun`), and what a reconcile expects (`RunType`). That the simulated scheduler expects workers of nodes of its list is an induction over the nodes
  (`SchedulerExpectsNodes`).
* `WorkersAtHome`, `Spec => []AtHome`, if no overwrite that is chosen by labels sets the affinity
  (`LabelsLeaveAffinity`). `HomeInv`: a group that has no replicas in the cache or in the copy of a
  reconcile has none (`CopiesAgree`), so that a worker which has the name of a node was made for it, and it
  is on that node or its template has a required node affinity of its own (`AtHomeUnlessSentAway`). That the affinity of a template does not depend on the labels is an induction
  over the overwrites (`SameAffinity`).

Only model-checked: the liveness properties, since liveness under fairness is out of reach of the prover, and
one action property. `AllFit` stays with the instances of `MCGroupLifetime`: it does not hold for all
overwrites and affinities, since the simulation asks each worker for its own terms only, and lets a worker
in for the sake of one that is rejected later.

## Plan

The cache group, from its workers to its lifetime, Sync, CronSync and WarmUp are modelled. What is left:

1. Proofs: `AllFit` for the overwrites and affinities of which it holds, and `KeepsPromise` of a Sync with
   fewer of its four hypotheses.
2. Claims as the cache shows them, and claims that the API server does not expand: one that is not bound
   yet would keep each reconcile from creating its worker (cachegroup_worker_lifecycle.go:107).

Not planned, since they hold no state of their own: the rendering of commands, environment and probes of
workers and Sync pods, the secrets, the parsing of URLs, quantities and logs, generated deep copies, the
wiring of the manager, and the dashboards and manifests.
