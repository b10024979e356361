---- MODULE CacheGroup ----
(***************************************************************************)
(* The CacheGroup controller reconciling the worker pods of one cache      *)
(* group, one API call a step, against the Kubernetes API server, the      *)
(* kubelet, the operator's informer cache, the stats controller and a user *)
(* who edits the spec.                                                     *)
(*   internal/controller/cachegroup_controller.go                          *)
(*   internal/controller/cachegroup_worker_lifecycle.go                    *)
(*   internal/controller/cachegroup_stats_controller.go                    *)
(***************************************************************************)
EXTENDS WorkerDecisions

CONSTANTS
  InitWorkers,       \* workers that run, ready, when the operator starts
  Strategies,        \* whether spec.updateStrategy.type is OnDelete
  InitV2,            \* whether those are v2 workers (FALSE: an older operator made them)
  InitCacheSize,     \* what status.cacheSize reports at first
  ExpectSets,        \* the worker sets the user may ask for
  Receives, Transfers, CacheReports, \* what a sample of the stats controller may show
  CleanCache,        \* spec.cleanCache
  ColdWorkers,       \* whether a worker may become ready and hold no cached block
  FreshLists,        \* if TRUE the informer cache has caught up when a pass lists the pods
  FaultKinds,        \* what may go wrong: "api", "crash", "exec", "pod", "delete", "slow", "sample"
  MaxEdits, MaxFaults \* how often the user edits the spec, how often something goes wrong

ASSUME EnvironmentAssumption ==
  /\ InitWorkers \subseteq Workers
  /\ ExpectSets \subseteq SUBSET Workers
  /\ Strategies \subseteq BOOLEAN
  /\ {InitV2, CleanCache, ColdWorkers, FreshLists} \subseteq BOOLEAN
  /\ InitCacheSize \in CacheSizes
  /\ Receives \cup Transfers \subseteq Counters
  /\ CacheReports \subseteq CacheSizes
  /\ {MaxEdits, MaxFaults} \subseteq Nat
  /\ 1 \in Gens

VARIABLES
  now,        \* the clock
  spec,       \* the spec of the CacheGroup: the workers it expects and their template
  status,     \* the fields of its status that this controller writes
  cacheSize,  \* status.cacheSize, written by the stats controller
  stats,      \* status.stats, written by the stats controller
  pods,       \* the worker pods at the API server
  seen,       \* the worker pods in the operator's informer cache
  dirty,      \* workers whose cache directory holds data of the group
  queued,     \* the CacheGroup is in the controller's work queue
  timer,      \* a requeue after one minute is due
  pc,         \* where the reconcile is
  run,        \* what the reconcile read and computed when it started
  want,       \* the pod syncWorker or gracefulShutdownWorker is to create or patch in
  task,       \* the next API call of the goroutine of each worker
  todo,       \* redundant workers the removal loop has yet to visit
  err,        \* an error was met in this reconcile
  edits, faults

vars == <<now, spec, status, cacheSize, stats, pods, seen, dirty, queued, timer,
          pc, run, want, task, todo, err, edits, faults>>
cgVars == <<spec, edits>>
statsVars == <<cacheSize, stats>>
queueVars == <<queued, timer>>
passVars == <<pc, run, want, task, todo, err>>

Spec0    == [expect : SUBSET Workers, gen : Gens, onDelete : BOOLEAN]
NoPods   == [w \in Workers |-> NoPod]
AllDone  == [w \in Workers |-> "done"]
Tasks    == {"done", "create", "delete", "await", "recreate", "restart", "patch",
             "remove", "clean"}
InitSpec   == [expect |-> InitWorkers, gen |-> 1, onDelete |-> FALSE]
InitStatus == [phase |-> IF InitWorkers = {} THEN "Waiting" ELSE "Ready", batch |-> NoBatch,
               ready |-> Cardinality(InitWorkers), joining |-> 0, waiting |-> 0]
NoSamples == [w \in Workers |-> NoSample]
NoRun == [spec |-> InitSpec, status |-> InitStatus, list |-> NoPods, stats |-> NoSamples]

TypeOK ==
  /\ now \in Time
  /\ spec \in Spec0
  /\ status \in Status
  /\ cacheSize \in CacheSizes
  /\ stats \in [Workers -> Sample]
  /\ pods \in PodList /\ seen \in PodList
  /\ dirty \subseteq Workers
  /\ queued \in BOOLEAN /\ timer \in BOOLEAN /\ err \in BOOLEAN
  /\ pc \in {"idle", "workers", "remove"}
  /\ run \in [spec : Spec0, status : Status, list : PodList,
              stats : [Workers -> Sample]]
  /\ want \in PodList
  /\ task \in [Workers -> Tasks]
  /\ todo \subseteq Workers
  /\ edits \in 0..MaxEdits /\ faults \in 0..MaxFaults

InitPods == [w \in Workers |->
  IF w \in InitWorkers
  THEN [gen |-> 1, v2 |-> InitV2, health |-> "ready", deleting |-> FALSE,
        joinAt |-> Never, leaveAt |-> Never, startAt |-> 0]
  ELSE NoPod]

Init ==
  /\ now = 0
  /\ spec \in {[InitSpec EXCEPT !.onDelete = b] : b \in Strategies}
  /\ status = InitStatus
  /\ cacheSize = InitCacheSize
  /\ stats = NoSamples
  /\ pods = InitPods /\ seen = InitPods
  /\ dirty = InitWorkers
  /\ queued = TRUE /\ timer = FALSE
  /\ pc = "idle" /\ run = NoRun /\ want = NoPods /\ task = AllDone
  /\ todo = {} /\ err = FALSE
  /\ edits = 0 /\ faults = 0

Fault(kind) ==
  /\ kind \in FaultKinds
  /\ faults < MaxFaults
  /\ faults' = faults + 1

----
(* Reconcile, sync, and the decisions of syncWorkers *)

\* syncWorkers skips a missing worker that may not join now and is not in the join batch.
Skipped(w, list, batch) ==
  /\ ~Exists(list, w)
  /\ ~CanAddWorker(batch, cacheSize, now)
  /\ w \notin batch.members

Expected(w, list) ==
  NewWorker(spec.gen, ShouldAddJoinOption(w, list[w], stats, cacheSize, now), now)

\* The workers an update would touch, and those of them the budget of the pass has to cover.
Outdated(list, batch) ==
  {w \in spec.expect : /\ ~Skipped(w, list, batch)
                       /\ \/ Recreates(spec.onDelete, list[w], Expected(w, list))
                          \/ SmoothRestarts(spec.onDelete, list[w], Expected(w, list))}
OutdatedReady(list, batch) == {w \in Outdated(list, batch) : Ready(list[w])}

\* A mutant: the workers granted an update are not counted as they are granted.
GrantsUncounted(list, batch) ==
  {IF UpdateBudget(spec.onDelete, list, Cardinality(spec.expect)) > 0
   THEN OutdatedReady(list, batch) ELSE {}}

\* syncWorkers walks a Go map: any choice of ready workers that fills the budget is possible.
Grants(list, batch) ==
  LET ready  == OutdatedReady(list, batch)
      budget == UpdateBudget(spec.onDelete, list, Cardinality(spec.expect))
  IN {g \in SUBSET ready :
        \/ Cardinality(g) = budget
        \/ g = ready /\ Cardinality(g) <= budget}

FirstTask(actual, expect) ==
  IF actual = NoPod THEN "create"
  ELSE IF Recreates(spec.onDelete, actual, expect) THEN "delete" ELSE "restart"

Start ==
  /\ pc = "idle" /\ queued
  /\ FreshLists => seen = pods
  /\ \E startAt \in BatchStart(status.batch, seen) :
       LET st == CalculateStatus(status, spec.expect, seen, startAt, now)
       IN \E granted \in Grants(seen, st.batch) :
            LET updated == (Outdated(seen, st.batch) \ OutdatedReady(seen, st.batch))
                             \cup granted
            IN /\ run' = [spec |-> spec, status |-> st, list |-> seen, stats |-> stats]
               /\ want' = [w \in Workers |-> IF w \in updated THEN Expected(w, seen) ELSE NoPod]
               /\ task' = [w \in Workers |-> IF w \in updated
                                             THEN FirstTask(seen[w], Expected(w, seen))
                                             ELSE "done"]
  /\ pc' = "workers"
  /\ todo' = {} /\ err' = FALSE
  /\ queued' = FALSE
  /\ UNCHANGED <<now, spec, status, statsVars, timer, pods, seen, dirty, edits, faults>>

----
(* The API calls of one worker: createOrUpdateWorker, smoothRestartWorker, deleteCacheGroupWorker *)

Goto(w, t) == task' = [task EXCEPT ![w] = t]
SetPod(w, p) == pods' = [pods EXCEPT ![w] = p]
Remaining == <<now, cgVars, status, statsVars, seen, queueVars, pc, run, want>>

\* A pod is created without the condition and the deletion mark of the pod it was copied from.
Created(w) == [want[w] EXCEPT !.health = "pending", !.deleting = FALSE, !.startAt = now]

\* createCacheGroupWorker: a pod that already exists is no error.
CreateWorker(w) ==
  /\ task[w] = "create"
  /\ IF Exists(pods, w) THEN UNCHANGED pods ELSE SetPod(w, Created(w))
  /\ Goto(w, "done")
  /\ UNCHANGED <<Remaining, dirty, todo, err, faults>>

\* deleteCacheGroupWorker(waiting): a pod that is already gone is not waited for.
DeleteOld(w) ==
  /\ task[w] = "delete"
  /\ IF Exists(pods, w)
     THEN SetPod(w, [pods[w] EXCEPT !.deleting = TRUE]) /\ Goto(w, "await")
     ELSE UNCHANGED pods /\ Goto(w, "recreate")
  /\ UNCHANGED <<Remaining, dirty, todo, err, faults>>

\* A mutant: the worker is recreated at once.
AwaitNothing(w) ==
  /\ task[w] = "await"
  /\ Goto(w, "recreate")
  /\ UNCHANGED <<Remaining, pods, dirty, todo, err, faults>>

AwaitGone(w) ==
  /\ task[w] = "await"
  /\ ~Exists(seen, w)
  /\ Goto(w, "recreate")
  /\ UNCHANGED <<Remaining, pods, dirty, todo, err, faults>>

\* An error ends the worker's task, and the removal loop.
Abort(w) == Goto(w, "done") /\ err' = TRUE /\ todo' = {}

\* A worker may take more than the minute deleteCacheGroupWorker waits for it to terminate, which
\* is long against the lag of the informer.
AwaitTimeout(w) ==
  /\ task[w] = "await"
  /\ Exists(seen, w) /\ seen = pods
  /\ Fault("slow")
  /\ Abort(w)
  /\ UNCHANGED <<Remaining, pods, dirty>>

RecreateWorker(w) ==
  /\ task[w] = "recreate"
  /\ IF Exists(pods, w)
     THEN Abort(w) /\ UNCHANGED pods          \* AlreadyExists
     ELSE SetPod(w, Created(w)) /\ Goto(w, "done") /\ UNCHANGED <<todo, err>>
  /\ UNCHANGED <<Remaining, dirty, faults>>

\* TriggerWorkerSmoothRestart and WaitForWorkerRestart: the process of the pod is a new one.
RestartWorker(w) ==
  /\ task[w] = "restart"
  /\ Ready(pods[w])
  /\ SetPod(w, [pods[w] EXCEPT !.startAt = now])
  /\ Goto(w, "patch")
  /\ UNCHANGED <<Remaining, dirty, todo, err, faults>>

PatchWorker(w) ==
  /\ task[w] = "patch"
  /\ Exists(pods, w)
  /\ SetPod(w, [pods[w] EXCEPT !.joinAt = want[w].joinAt, !.leaveAt = want[w].leaveAt])
  /\ Goto(w, "done")
  /\ UNCHANGED <<Remaining, dirty, todo, err, faults>>

\* A failed smooth restart is an error of syncWorker under OnDelete, else the pod is recreated.
RestartFails(w) ==
  /\ \/ task[w] = "restart" /\ ~Ready(pods[w]) /\ UNCHANGED faults
     \/ task[w] = "patch" /\ ~Exists(pods, w) /\ UNCHANGED faults
     \/ task[w] \in {"restart", "patch"} /\ Fault("api")
  /\ IF run.spec.onDelete /\ pc = "workers" THEN Abort(w) ELSE Goto(w, "delete") /\ UNCHANGED <<todo, err>>
  /\ UNCHANGED <<Remaining, pods, dirty>>

ApiError(w) ==
  /\ task[w] \in {"create", "delete", "recreate", "remove", "clean"}
  /\ Fault("api")
  /\ Abort(w)
  /\ UNCHANGED <<Remaining, pods, dirty>>

----
(* removeRedundantWorkers *)

Redundant(list, expect) ==
  {w \in Workers : Exists(list, w) /\ w \notin expect /\ ~list[w].deleting}

\* syncWorkers ends when every goroutine has; its error skips the removal loop.
StartRemoval ==
  /\ pc = "workers" /\ task = AllDone /\ ~err
  /\ Redundant(run.list, run.spec.expect) # {}
  /\ pc' = "remove" /\ todo' = Redundant(run.list, run.spec.expect)
  /\ UNCHANGED <<now, cgVars, status, statsVars, pods, seen, dirty, queueVars, run, want,
                 task, err, faults>>

\* What the controller reads from the worker as it is now; an exec that fails reads as a mount
\* point that is not ready, or as an error.
LiveReads(w) ==
  {l \in [mounted : BOOLEAN, failed : BOOLEAN, empty : {w \notin dirty}, startAt : {pods[w].startAt}] :
     ~Ready(pods[w]) => ~l.mounted}
ExecFails(w, live) == live.failed \/ (Ready(pods[w]) /\ ~live.mounted)

ShutDownWorker(w) ==
  LET p     == run.list[w]
      s     == run.stats[w]
      ready == run.status.ready
  IN /\ pc = "remove" /\ w \in todo /\ task = AllDone
     /\ \E live \in LiveReads(w) :
        /\ IF ExecFails(w, live) THEN Fault("exec") ELSE UNCHANGED faults
        /\ \/ /\ CanDelete(p, s, ready, live, now)
              /\ Goto(w, "remove") /\ todo' = todo \ {w} /\ UNCHANGED <<want, err>>
           \/ /\ ShutdownFails(p, s, ready, live, now)
              /\ Abort(w) /\ UNCHANGED want
           \/ /\ StartsLeaving(p, s, ready, live, now)
              /\ want' = [want EXCEPT ![w] = LeavingWorker(p, now)]
              /\ Goto(w, IF p.v2 THEN "restart" ELSE "delete")
              /\ todo' = todo \ {w} /\ UNCHANGED err
           \/ /\ Leaving(p) /\ ~CanDelete(p, s, ready, live, now)
              /\ ~ShutdownFails(p, s, ready, live, now)
              /\ todo' = todo \ {w} /\ UNCHANGED <<want, task, err>>
     /\ UNCHANGED <<now, cgVars, status, statsVars, pods, seen, dirty, queueVars, pc, run>>

\* deleteCacheGroupWorker without waiting, then cleanWorkerCache.
DeleteRedundant(w) ==
  /\ task[w] = "remove"
  /\ IF Exists(pods, w) THEN SetPod(w, [pods[w] EXCEPT !.deleting = TRUE]) ELSE UNCHANGED pods
  /\ Goto(w, "clean")
  /\ UNCHANGED <<Remaining, dirty, todo, err, faults>>

\* A mutant: a worker that has migrated its cache is taken to have none left.
CleanUnmigratedCache(w) ==
  /\ task[w] = "clean"
  /\ dirty' = IF CleanCache /\ ~Leaving(run.list[w]) THEN dirty \ {w} ELSE dirty
  /\ Goto(w, "done")
  /\ UNCHANGED <<Remaining, pods, todo, err, faults>>

CleanWorkerCache(w) ==
  /\ task[w] = "clean"
  /\ dirty' = IF CleanCache THEN dirty \ {w} ELSE dirty
  /\ Goto(w, "done")
  /\ UNCHANGED <<Remaining, pods, todo, err, faults>>

----
(* The end of sync and of Reconcile *)

PassDone ==
  /\ task = AllDone
  /\ \/ pc = "workers" /\ (err \/ Redundant(run.list, run.spec.expect) = {})
     \/ pc = "remove" /\ todo = {}

EndPass == pc' = "idle" /\ run' = NoRun /\ want' = NoPods /\ task' = AllDone /\ todo' = {} /\ err' = FALSE

\* A mutant: a group with every worker ready is left alone.
UnsettledPhase(st) == st.phase # "Ready"

\* Reconcile asks to be called again in a minute while the group is not settled.
Unsettled(st) ==
  st.batch # NoBatch \/ st.joining > 0 \/ st.waiting > 0 \/ st.phase # "Ready"

\* A status that changed is an event of the CacheGroup.
PatchStatus ==
  /\ PassDone
  /\ \E startAt \in BatchStart(run.status.batch, seen) :
       LET st == CalculateStatus(run.status, run.spec.expect, seen, startAt, now)
       IN /\ status' = st
          /\ queued' = (queued \/ err \/ st # status)
          /\ timer' = (timer \/ (~err /\ Unsettled(st)))
  /\ EndPass
  /\ UNCHANGED <<now, cgVars, statsVars, pods, seen, dirty, faults>>

PatchStatusFails ==
  /\ PassDone
  /\ Fault("api")
  /\ queued' = TRUE
  /\ EndPass
  /\ UNCHANGED <<now, cgVars, status, statsVars, pods, seen, dirty, timer>>

\* The operator dies and starts again: it lists everything and reconciles every object.
Crash ==
  /\ pc # "idle"
  /\ Fault("crash")
  /\ seen' = pods
  /\ queued' = TRUE /\ timer' = FALSE
  /\ EndPass
  /\ UNCHANGED <<now, cgVars, status, statsVars, pods, dirty>>

----
(* The stats controller *)

\* nextWorkerStats: a counter has a rate only after a recent sample of the same process.
NextSample(w, receive, transfer) ==
  LET prev == stats[w]
      rated == /\ prev # NoSample
               /\ prev.startAt = pods[w].startAt
               /\ now - prev.sampleAt <= StatsMaxAge
  IN [sampleAt |-> now, startAt |-> pods[w].startAt,
      receive  |-> IF rated THEN receive ELSE "unknown",
      transfer |-> IF rated THEN transfer ELSE "unknown"]

\* Reconcile of the stats controller comes back every minute, at most once a tick. It samples
\* every ready worker; one that is not ready, or in which the command fails, keeps its last sample,
\* one that is gone loses it.
\* Only joining workers have their receive counter read, and only leaving ones their transfer
\* counter: the other counters are left unknown. No report at all: the controller is left out.
Due(w) == Ready(seen[w]) /\ ~seen[w].deleting /\ Ready(pods[w])

CollectStats ==
  /\ CacheReports # {}
  /\ \A w \in Workers : stats[w].sampleAt # now
  /\ \E receive \in [Joiners(pods) -> Receives], transfer \in [Leavers(pods) -> Transfers],
        missed \in SUBSET {w \in Workers : Due(w)} :
       /\ IF missed = {} THEN UNCHANGED faults ELSE Fault("sample")
       /\ stats' = [w \in Workers |->
         IF Due(w) /\ w \notin missed
         THEN NextSample(w, IF Joining(pods[w]) THEN receive[w] ELSE "unknown",
                            IF Leaving(pods[w]) THEN transfer[w] ELSE "unknown")
         ELSE IF Exists(seen, w) /\ ~seen[w].deleting THEN stats[w] ELSE NoSample]
  /\ cacheSize' \in IF stats' = NoSamples THEN {""} ELSE CacheReports
  /\ UNCHANGED <<now, cgVars, status, pods, seen, dirty, queueVars, passVars>>

----
(* The environment: kubelet, informer, user, clock *)

Outside == <<now, status, statsVars, timer, passVars>>

PodReady(w) ==
  /\ Exists(pods, w) /\ pods[w].health = "pending" /\ ~pods[w].deleting
  /\ SetPod(w, [pods[w] EXCEPT !.health = "ready", !.startAt = now])
  /\ \/ dirty' = dirty \cup {w}
     \/ ColdWorkers /\ dirty' = dirty
  /\ UNCHANGED <<Outside, cgVars, seen, queued, faults>>

PodGone(w) ==
  /\ pods[w].deleting
  /\ SetPod(w, NoPod)
  /\ UNCHANGED <<Outside, cgVars, seen, dirty, queued, faults>>

\* A worker loses its readiness, is evicted, or exits.
PodFails(w) ==
  /\ Ready(pods[w])
  /\ Fault("pod")
  /\ \E h \in {"pending", "failed"} : SetPod(w, [pods[w] EXCEPT !.health = h])
  /\ UNCHANGED <<Outside, cgVars, seen, dirty, queued>>

PodDeleted(w) ==
  /\ Exists(pods, w) /\ ~pods[w].deleting
  /\ Fault("delete")
  /\ SetPod(w, [pods[w] EXCEPT !.deleting = TRUE])
  /\ UNCHANGED <<Outside, cgVars, seen, dirty, queued>>

\* A pass reads the spec when it starts: an edit during a pass is one after it.
EditSpec ==
  /\ pc = "idle"
  /\ edits < MaxEdits /\ edits' = edits + 1
  /\ spec' \in [expect : ExpectSets, gen : {spec.gen, spec.gen + 1} \cap Gens,
               onDelete : {spec.onDelete}]
  /\ spec' # spec
  /\ queued' = TRUE
  /\ UNCHANGED <<Outside, pods, seen, dirty, faults>>

\* The informer catches up; every pod event enqueues the owner.
Observe ==
  /\ seen # pods
  /\ seen' = pods
  /\ queued' = TRUE
  /\ UNCHANGED <<Outside, cgVars, pods, dirty, faults>>

(***************************************************************************)
(* A tick is at least the minute after which Reconcile is called again. It *)
(* is long against an API call and the lag of the informer: only the wait  *)
(* for a pod to go away lasts through one. The clock stops at MaxTime, and *)
(* then every recorded time recedes instead. No decision tells a time that *)
(* has receded to 0 from an earlier one, by HorizonAssumption.             *)
(***************************************************************************)
Back(t) == IF t > 0 THEN t - 1 ELSE t
BackPod(p) ==
  IF p = NoPod THEN p
  ELSE [p EXCEPT !.joinAt = Back(p.joinAt), !.leaveAt = Back(p.leaveAt), !.startAt = Back(p.startAt)]
BackPods(L) == [w \in Workers |-> BackPod(L[w])]
BackStats(S) ==
  [w \in Workers |-> [S[w] EXCEPT !.sampleAt = Back(S[w].sampleAt), !.startAt = Back(S[w].startAt)]]
BackStatus(st) == [st EXCEPT !.batch.startAt = Back(st.batch.startAt)]

Recede ==
  /\ pods' = BackPods(pods) /\ seen' = BackPods(seen) /\ want' = BackPods(want)
  /\ stats' = BackStats(stats)
  /\ status' = BackStatus(status)
  /\ run' = [run EXCEPT !.list = BackPods(run.list), !.stats = BackStats(run.stats),
                        !.status = BackStatus(run.status)]

Tick ==
  /\ seen = pods
  /\ pc = "idle" \/ \E w \in Workers : task[w] = "await"
  /\ \A w \in Workers : task[w] \in {"done", "await"}
  /\ \/ /\ now < MaxTime /\ now' = now + 1
        /\ UNCHANGED <<pods, seen, want, stats, status, run>>
     \/ /\ now = MaxTime /\ UNCHANGED now
        /\ Recede
  /\ queued' = (queued \/ timer) /\ timer' = FALSE
  /\ UNCHANGED <<cgVars, cacheSize, dirty, pc, task, todo, err, faults>>

WorkerStep(w) ==
  \/ CreateWorker(w) \/ DeleteOld(w) \/ AwaitGone(w) \/ RecreateWorker(w)
  \/ RestartWorker(w) \/ PatchWorker(w) \/ RestartFails(w)
  \/ ShutDownWorker(w) \/ DeleteRedundant(w) \/ CleanWorkerCache(w)

Next ==
  \/ Start \/ StartRemoval \/ PatchStatus \/ PatchStatusFails
  \/ Crash \/ CollectStats \/ Observe \/ EditSpec \/ Tick
  \/ \E w \in Workers : \/ WorkerStep(w) \/ AwaitTimeout(w) \/ ApiError(w)
                        \/ PodReady(w) \/ PodGone(w) \/ PodFails(w) \/ PodDeleted(w)

Spec == Init /\ [][Next]_vars

(***************************************************************************)
(* The work queue runs what is queued, a goroutine of a pass goes on, the  *)
(* requeue timer fires, the informer catches up, the kubelet starts pods   *)
(* and removes deleted ones, the stats controller requeues itself, and     *)
(* time passes. Nothing says that a fault or an edit ever happens.         *)
(***************************************************************************)
Fairness ==
  /\ WF_vars(Start) /\ WF_vars(StartRemoval) /\ WF_vars(PatchStatus)
  /\ WF_vars(Observe) /\ WF_vars(CollectStats) /\ WF_vars(Tick)
  /\ \A w \in Workers : WF_vars(WorkerStep(w)) /\ WF_vars(PodReady(w)) /\ WF_vars(PodGone(w))

FairSpec == Spec /\ Fairness

----
(* Properties *)

\* Expected workers that serve nothing or are about to stop.
Down == {w \in spec.expect : ~Ready(pods[w]) \/ pods[w].deleting}

Allowed == MaxUnavailableOf(spec.onDelete, Cardinality(spec.expect))

\* A crash hits every worker the pass has deleted and not yet recreated.
FaultCost == IF "crash" \in FaultKinds /\ Allowed > 1 THEN Allowed ELSE 1

(***************************************************************************)
(* Over any number of passes, the workers that are down exceed             *)
(* maxUnavailable by no more than what went wrong has cost: a worker that  *)
(* is deleted, evicted or slow to terminate, or an API error after its     *)
(* deletion, costs that one worker, a crash the workers then missing. The  *)
(* budget of a pass does not count the missing ones, nor multiply them     *)
(* (syncWorkers). With lists that lag, or an edit that adds workers or     *)
(* lowers maxUnavailable, it need not hold.                                *)
(***************************************************************************)
FaultsCostABoundedNumber == Cardinality(Down) <= Allowed + faults * FaultCost

\* The workers that were ready in the list of the pass and that it has yet to finish updating.
Updating == {w \in Workers : Ready(run.list[w]) /\ task[w] # "done"}

(***************************************************************************)
(* However the goroutines of a pass interleave, with each other, with the  *)
(* kubelet, failed smooth restarts and faults, the ready workers it is     *)
(* updating and the workers it found unavailable stay within               *)
(* maxUnavailable; a pass that found too many unavailable updates none.    *)
(***************************************************************************)
PassWithinBudget ==
  pc = "workers" =>
    \/ Updating = {}
    \/ Cardinality(Updating) + Cardinality(Unavailable(run.list))
         <= MaxUnavailableOf(run.spec.onDelete, Cardinality(run.spec.expect))

\* Two pods of the list of a worker are the same one: a smooth restart patches the annotations of a
\* v2 worker, and only a new pod has others if it is v1.
SamePod(p, q) ==
  /\ p.gen = q.gen /\ p.v2 = q.v2
  /\ ~p.v2 => p.joinAt = q.joinAt /\ p.leaveAt = q.leaveAt

(***************************************************************************)
(* deleteCacheGroupWorker deletes by name, without the UID of the pod it   *)
(* listed. Still, it only marks a pod that is the one its pass decided     *)
(* about, and not a replacement the list was too old to show: a worker is  *)
(* recreated only after the cache has shown that the old one is gone. With *)
(* lists that lag it need not hold of a worker that is removed and wanted  *)
(* again, or that others delete.                                           *)
(***************************************************************************)
DeletesWhatItListed ==
  [][\A w \in Workers :
       task[w] \in {"delete", "remove"} /\ pods'[w] # pods[w] /\ ~pods[w].deleting
         => SamePod(pods[w], run.list[w])]_vars

Removes(w) == task[w] = "remove" /\ pods'[w] # pods[w]

(***************************************************************************)
(* A redundant worker that serves and holds cache is deleted, while others *)
(* could take its cache, only when it has been leaving for longer than     *)
(* waitingDeletedMaxDuration, or after a sample of its running process,    *)
(* taken since it began to leave, shows its transfer at rest               *)
(* (gracefulShutdownWorker). It does not hold when a command run in the    *)
(* worker fails: IsMountPointReady then answers as if nothing was mounted; *)
(* nor of a worker that loses and regains its readiness during the pass.   *)
(***************************************************************************)
MigratesFirst ==
  [][\A w \in Workers :
       /\ Removes(w) /\ Ready(pods[w]) /\ Ready(run.list[w]) /\ w \in dirty
       /\ run.spec.expect # {}
       /\ \E v \in Workers \ {w} : Ready(run.list[v])
       => /\ Leaving(pods[w])
          /\ \/ now - pods[w].leaveAt > WaitingMax
             \/ /\ run.stats[w].startAt = pods[w].startAt
                /\ run.stats[w].sampleAt >= pods[w].leaveAt
                /\ run.stats[w].transfer \in {"zero", "idle"}]_vars

\* Worker v has joined for as long as its batch lasts.
HasHadItsTime(v) ==
  now >= BackupDuration + IF v \in status.batch.members THEN status.batch.startAt ELSE pods[v].joinAt

(***************************************************************************)
(* Workers that join are rebalanced together: one that begins to join, and *)
(* is not known to do so, is created a margin before the rebalance of the  *)
(* batch, or together with all others that join, but those that have had   *)
(* their time: although it is created after the decision, and perhaps      *)
(* after a wait for its old pod to go away. A group without cached data    *)
(* has nothing to rebalance, and does not ask. With lists that lag it need *)
(* not hold after the status could not be written.                         *)
(***************************************************************************)
JoinsInWindow ==
  [][\A w \in Workers :
       /\ ~Exists(pods, w) /\ Exists(pods', w) /\ Joining(pods'[w]) /\ ~Leaving(pods'[w])
       => \/ w \in run.status.batch.members
          \/ now < run.status.batch.startAt - Margin
          \/ \A v \in Joiners(pods) : pods[v].joinAt >= pods'[w].joinAt \/ HasHadItsTime(v)]_vars

(***************************************************************************)
(* Between two passes the status knows every worker that joins as a member *)
(* of the batch, so that it goes on to close the window for others, unless *)
(* the batch has timed out.                                                *)
(***************************************************************************)
BatchCoversJoiners ==
  pc = "idle" /\ ~queued /\ seen = pods /\ spec.expect # {} =>
    \/ Joiners(pods) \subseteq status.batch.members
    \/ \A w \in Joiners(pods) : now >= pods[w].joinAt + CacheGroupRebalanceDelay(pods) + BackupDuration

(***************************************************************************)
(* A pass never moves the start of the rebalance to an earlier time while  *)
(* a worker of the batch still waits for it, though a worker that begins   *)
(* to leave shortens the delay that the later members are given            *)
(* (calculateStatus). Only a batch of other workers, when all of this one  *)
(* are gone, may start earlier: with that shorter delay.                   *)
(***************************************************************************)
BatchStartNeverEarlier ==
  [][status.batch.members \cap status'.batch.members # {} /\ pc # pc'
       => status'.batch.startAt >= status.batch.startAt]_vars

(***************************************************************************)
(* A smooth restart takes the join option from a worker only when its join *)
(* phase has lasted backupDuration, or when a sample shows it receives     *)
(* nothing more, taken after every process of the group had the rebalance  *)
(* delay of the worker and the margin to start (ShouldAddJoinOption): of   *)
(* this pod, and though the decision was made on a list and statistics     *)
(* that are old now. If the list was old when it was made, and shows the   *)
(* pod as it was before its last restart, it need not hold.                *)
(***************************************************************************)
JoinEndsOnEvidence ==
  [][\A w \in Workers :
       /\ task[w] = "patch" /\ pods'[w] # pods[w] /\ Exists(pods', w)
       /\ Joining(pods[w]) /\ ~Joining(pods'[w])
       => \/ now - pods[w].joinAt >= BackupDuration
          \/ /\ run.stats[w].receive \in {"zero", "idle"}
             /\ \A v \in Workers :
                  run.stats[w].sampleAt >= JoinCheckAfter(pods[w], run.stats[v].startAt)
             /\ run.stats[w].sampleAt >= JoinCheckAfter(pods[w], pods[w].joinAt)]_vars

(***************************************************************************)
(* With spec.cleanCache a group at rest has left no cache behind: whoever  *)
(* holds data is expected or still there to be cleaned, unless something   *)
(* went wrong (removeRedundantWorkers, cleanWorkerCache).                  *)
(***************************************************************************)
CacheNotLeftBehind ==
  pc = "idle" /\ ~queued /\ ~timer /\ seen = pods /\ CleanCache /\ faults = 0
    => \A w \in dirty : w \in spec.expect \/ Exists(pods, w)

\* The workers are the expected ones, ready, as the template says, and neither join nor leave.
\* Under OnDelete a worker keeps its old template, and one that began to leave goes on leaving
\* although it is wanted again.
Settled ==
  /\ \A w \in spec.expect :
       /\ Ready(pods[w]) /\ ~pods[w].deleting /\ ~Joining(pods[w])
       /\ spec.onDelete \/ (pods[w].gen = spec.gen /\ ~Leaving(pods[w]))
  /\ \A w \in Workers \ spec.expect : ~Exists(pods, w)

(***************************************************************************)
(* Once the edits and the faults are over the group settles: no update is  *)
(* forgotten for want of a budget or an event, every join phase and every  *)
(* departure ends, and a worker that is wanted again serves again.         *)
(***************************************************************************)
Converges == <>[]Settled
====
