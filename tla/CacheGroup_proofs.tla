---- MODULE CacheGroup_proofs ----
(***************************************************************************)
(* Proofs about the CacheGroup controller, for any number of workers, any  *)
(* durations, any template and any faults: type correctness, and that a    *)
(* pass keeps within the update budget it computed.                        *)
(***************************************************************************)
EXTENDS CacheGroup, FiniteSetTheorems, TLAPS

USE DurationsAssumption, WorkersAssumption, EnvironmentAssumption

(***************************************************************************)
(* Types of what the controller computes.                                  *)
(***************************************************************************)

\* A worker pod differs from the absence of one.
LEMMA PodIsThere == ASSUME NEW p \in Pod PROVE p # NoPod
BY DEF Pod, NoPod, Gens

\* newWorker renders a worker pod.
LEMMA NewWorkerType ==
  ASSUME NEW gen \in Gens, NEW join \in BOOLEAN, NEW t \in Time
  PROVE  NewWorker(gen, join, t) \in Pod
BY DEF NewWorker, Pod, Health, Time, Never

\* The rebalance delay of a group is one of the two delays a worker can have.
LEMMA DelayType ==
  ASSUME NEW L \in PodList
  PROVE  CacheGroupRebalanceDelay(L) \in {RebalanceDelay, LeaveDelay}
<1> DEFINE delays == {WorkerRebalanceDelay(L[w]) : w \in {v \in Workers : Exists(L, v)}}
           least(d) == \A w \in Workers : Exists(L, w) => d <= WorkerRebalanceDelay(L[w])
<1>1. delays \subseteq {RebalanceDelay, LeaveDelay}
  BY DEF WorkerRebalanceDelay
<1>2. CASE \E w \in Workers : Exists(L, w)
  <2>1. \E d \in delays : least(d)
    <3>1. PICK w \in Workers : Exists(L, w)
      BY <1>2
    <3>2. WorkerRebalanceDelay(L[w]) \in delays
      BY <3>1
    <3>3. \A v \in Workers : WorkerRebalanceDelay(L[v]) \in {RebalanceDelay, LeaveDelay}
      BY DEF WorkerRebalanceDelay
    <3>4. RebalanceDelay \in Nat /\ LeaveDelay \in Nat
      BY DEF DurationsAssumption
    <3>5. CASE \A v \in Workers : Exists(L, v) => WorkerRebalanceDelay(L[w]) <= WorkerRebalanceDelay(L[v])
      BY <3>2, <3>5
    <3>6. CASE \E v \in Workers : Exists(L, v) /\ ~(WorkerRebalanceDelay(L[w]) <= WorkerRebalanceDelay(L[v]))
      <4>1. PICK v \in Workers : Exists(L, v) /\ ~(WorkerRebalanceDelay(L[w]) <= WorkerRebalanceDelay(L[v]))
        BY <3>6
      <4>2. least(WorkerRebalanceDelay(L[v]))
        BY <4>1, <3>3, <3>4
      <4> QED BY <4>1, <4>2
    <3> QED BY <3>5, <3>6
  <2>2. CacheGroupRebalanceDelay(L) = CHOOSE d \in delays : least(d)
    BY <1>2 DEF CacheGroupRebalanceDelay
  <2>3. (CHOOSE d \in delays : least(d)) \in delays
    BY <2>1
  <2> QED BY <1>1, <2>2, <2>3
<1>3. CASE ~\E w \in Workers : Exists(L, w)
  BY <1>3 DEF CacheGroupRebalanceDelay
<1> QED BY <1>2, <1>3

\* The start of a batch is bounded by the clock and the delays.
LEMMA BatchStartType ==
  ASSUME NEW L \in PodList, NEW batch \in Batch, NEW startAt \in BatchStart(batch, L)
  PROVE  startAt \in 0..(MaxTime + RebalanceDelay + LeaveDelay)
<1> DEFINE delay == CacheGroupRebalanceDelay(L)
           starts == {L[w].joinAt + delay : w \in Joiners(L) \ batch.members}
<1>1. startAt \in {batch.startAt} \cup starts
  BY DEF BatchStart, Latest
<1>2. batch.startAt \in 0..(MaxTime + RebalanceDelay + LeaveDelay)
  BY DEF Batch
<1>3. ASSUME NEW w \in Joiners(L)
      PROVE  L[w].joinAt + delay \in 0..(MaxTime + RebalanceDelay + LeaveDelay)
  <2>1. delay \in {RebalanceDelay, LeaveDelay}
    BY DelayType
  <2>2. L[w] \in Pod /\ L[w].joinAt # Never
    BY DEF Joiners, Exists, Joining, PodList
  <2>3. L[w].joinAt \in 0..MaxTime
    BY <2>2 DEF Pod, Time
  <2>4. RebalanceDelay \in Nat /\ LeaveDelay \in Nat /\ MaxTime \in Nat
    BY DEF DurationsAssumption
  <2> HIDE DEF delay
  <2> QED BY <2>1, <2>3, <2>4
<1> QED BY <1>1, <1>2, <1>3

\* The number of workers of a subset is a natural number.
LEMMA CountType == ASSUME NEW S \in SUBSET Workers PROVE Cardinality(S) \in Nat
BY FS_Subset, FS_CardinalityType DEF WorkersAssumption

\* calculateStatus computes a status.
LEMMA CalculateStatusType ==
  ASSUME NEW old \in Status, NEW expect \in SUBSET Workers, NEW L \in PodList,
         NEW startAt \in 0..(MaxTime + RebalanceDelay + LeaveDelay), NEW t \in Time
  PROVE  CalculateStatus(old, expect, L, startAt, t) \in Status
<1>1. NextBatch(old.batch, expect, L, startAt, t) \in Batch
  <2>1. BatchMembers(old.batch, expect, L) \subseteq Workers
    BY DEF BatchMembers, Joiners, Status, Batch
  <2>2. NoBatch \in Batch
    BY DEF NoBatch, Batch, DurationsAssumption
  <2> QED BY <2>1, <2>2 DEF NextBatch, Batch
<1>2. /\ Cardinality(ReadyWorkers(L)) \in Nat
      /\ Cardinality(Joiners(L)) \in Nat
      /\ Cardinality(Leavers(L)) \in Nat
  BY CountType DEF ReadyWorkers, Joiners, Leavers
<1>3. NoBatch \in Batch
  BY DEF NoBatch, Batch, DurationsAssumption
<1>4. [old EXCEPT !.phase = "Waiting", !.batch = NoBatch, !.ready = 0, !.joining = 0] \in Status
  BY <1>3 DEF Status, Phases
<1> HIDE DEF NextBatch
<1> QED BY <1>1, <1>2, <1>4 DEF CalculateStatus, Status, Phases

\* Receding times stay times.
LEMMA BackTypes ==
  /\ \A t \in Time \cup {Never} : Back(t) \in Time \cup {Never} /\ (t \in Time => Back(t) \in Time)
  /\ \A L \in PodList : BackPods(L) \in PodList
  /\ \A S \in [Workers -> Sample] : BackStats(S) \in [Workers -> Sample]
  /\ \A st \in Status : BackStatus(st) \in Status
<1>1. \A t \in Time \cup {Never} : Back(t) \in Time \cup {Never} /\ (t \in Time => Back(t) \in Time)
  BY DEF Back, Time, Never, DurationsAssumption
<1>2. \A p \in Pod : BackPod(p) \in Pod
  BY <1>1, PodIsThere DEF BackPod, Pod
<1>3. BackPod(NoPod) = NoPod
  BY DEF BackPod
<1>4. \A L \in PodList : BackPods(L) \in PodList
  BY <1>2, <1>3 DEF BackPods, PodList
<1>5. \A S \in [Workers -> Sample] : BackStats(S) \in [Workers -> Sample]
  <2>1. \A s \in Sample :
          [s EXCEPT !.sampleAt = Back(s.sampleAt), !.startAt = Back(s.startAt)] \in Sample
    BY <1>1 DEF Sample
  <2> QED BY <2>1 DEF BackStats
<1>6. \A st \in Status : BackStatus(st) \in Status
  BY DEF BackStatus, Status, Batch, Back, DurationsAssumption
<1> QED BY <1>1, <1>4, <1>5, <1>6

\* Receding times leave a pod where, and as healthy as, it is.
LEMMA BackedPods ==
  ASSUME NEW L \in PodList, NEW w \in Workers
  PROVE  /\ Exists(BackPods(L), w) <=> Exists(L, w)
         /\ Ready(BackPods(L)[w]) <=> Ready(L[w])
         /\ BackPods(L)[w].deleting = L[w].deleting
<1>1. BackPods(L)[w] = BackPod(L[w])
  BY DEF BackPods
<1>2. CASE L[w] = NoPod
  BY <1>1, <1>2 DEF BackPod, Exists
<1>3. CASE L[w] \in Pod
  <2>1. BackPod(L[w]) # NoPod
    <3>1. BackPods(L)[w] \in Pod
      <4>1. BackPod(L[w]).gen = L[w].gen
        BY <1>3, PodIsThere DEF BackPod, Pod
      <4>2. L[w].gen # NoPod.gen
        BY <1>3 DEF Pod, NoPod, Gens
      <4>3. BackPods(L)[w] \in Pod \cup {NoPod}
        BY BackTypes DEF PodList
      <4> QED BY <1>1, <4>1, <4>2, <4>3
    <3> QED BY <1>1, <3>1, PodIsThere
  <2> QED BY <1>1, <1>3, <2>1, PodIsThere DEF BackPod, Exists, Ready, Pod
<1> QED BY <1>2, <1>3 DEF PodList

(***************************************************************************)
(* The inductive invariant of type correctness. A task that will create or *)
(* patch a worker needs the pod it is to be, and the removal loop visits   *)
(* pods of its list: PodList alone would let both be NoPod.                *)
(***************************************************************************)
Targets ==
  /\ \A w \in Workers :
       task[w] \in {"create", "delete", "await", "recreate", "restart", "patch"} => Exists(want, w)
  /\ \A w \in todo : Exists(run.list, w)

TypeInv == TypeOK /\ Targets

\* The pods and the tasks that a step of one worker writes are of their types.
LEMMA SetPodType ==
  ASSUME TypeInv, NEW w \in Workers, NEW p \in Pod \cup {NoPod}, SetPod(w, p)
  PROVE  pods' \in PodList
BY DEF TypeInv, TypeOK, SetPod, PodList

LEMMA GotoType ==
  ASSUME TypeInv, NEW w \in Workers, NEW t \in Tasks, Goto(w, t)
  PROVE  task' \in [Workers -> Tasks] /\ task'[w] = t /\ \A v \in Workers \ {w} : task'[v] = task[v]
BY DEF TypeInv, TypeOK, Goto

\* What a pass holds when there is none.
LEMMA NothingTypes ==
  /\ NoPods \in PodList /\ NoSamples \in [Workers -> Sample] /\ NoBatch \in Batch
  /\ InitStatus \in Status /\ InitSpec \in Spec0
  /\ NoRun \in [spec : Spec0, status : Status, list : PodList, stats : [Workers -> Sample]]
  /\ AllDone \in [Workers -> Tasks]
<1>1. NoPods \in PodList /\ NoSamples \in [Workers -> Sample]
  BY DEF NoPods, PodList, NoSamples, NoSample, Sample, Counters
<1>2. NoBatch \in Batch
  BY DEF NoBatch, Batch, DurationsAssumption
<1>3. InitStatus \in Status
  BY <1>2, CountType DEF InitStatus, Status, Phases, EnvironmentAssumption
<1>4. InitSpec \in Spec0
  BY DEF InitSpec, Spec0, EnvironmentAssumption
<1>5. NoRun \in [spec : Spec0, status : Status, list : PodList, stats : [Workers -> Sample]]
  BY <1>1, <1>3, <1>4 DEF NoRun
<1>6. AllDone \in [Workers -> Tasks]
  BY DEF AllDone, Tasks
<1> QED BY <1>1, <1>2, <1>3, <1>4, <1>5, <1>6

\* The operator starts in a state of the right types.
LEMMA InitTypeInv == Init => TypeInv
<1> SUFFICES ASSUME Init PROVE TypeInv
  OBVIOUS
<1> USE DEF Init
<1>1. InitPods \in PodList
  BY DEF InitPods, PodList, Pod, NoPod, Health, Time, Never, DurationsAssumption, EnvironmentAssumption
<1>2. spec \in Spec0
  BY DEF InitSpec, Spec0, EnvironmentAssumption
<1>3. TypeOK
  <2>1. now \in Time /\ edits \in 0..MaxEdits /\ faults \in 0..MaxFaults
    BY DEF Time, DurationsAssumption, EnvironmentAssumption
  <2>2. cacheSize \in CacheSizes /\ dirty \subseteq Workers
    BY DEF EnvironmentAssumption
  <2> QED BY <2>1, <2>2, <1>1, <1>2, NothingTypes DEF TypeOK
<1>4. Targets
  BY DEF Targets, AllDone
<1> QED BY <1>3, <1>4 DEF TypeInv

----
(***************************************************************************)
(* Every action preserves TypeInv.                                         *)
(***************************************************************************)

\* What the API calls make of a pod is a pod.
LEMMA PodChanges ==
  ASSUME NEW p \in Pod, NEW q \in Pod, NEW t \in Time
  PROVE  /\ [p EXCEPT !.health = "pending", !.deleting = FALSE, !.startAt = t] \in Pod
         /\ [p EXCEPT !.health = "ready", !.startAt = t] \in Pod
         /\ \A h \in Health : [p EXCEPT !.health = h] \in Pod
         /\ [p EXCEPT !.deleting = TRUE] \in Pod
         /\ [p EXCEPT !.startAt = t] \in Pod
         /\ [p EXCEPT !.leaveAt = t] \in Pod
         /\ [p EXCEPT !.joinAt = q.joinAt, !.leaveAt = q.leaveAt] \in Pod
BY DEF Pod, Health

\* A pod of a list is a pod or is not there.
LEMMA ListedPod == ASSUME NEW L \in PodList, NEW w \in Workers PROVE L[w] = NoPod \/ L[w] \in Pod
BY DEF PodList

\* Faults are counted up to the bound.
LEMMA FaultType ==
  ASSUME TypeInv, NEW kind, Fault(kind)
  PROVE  faults' \in 0..MaxFaults
BY DEF TypeInv, TypeOK, Fault, EnvironmentAssumption

\* The steps of the goroutine of one worker.
LEMMA WorkerTypes ==
  ASSUME TypeInv, NEW w \in Workers, WorkerStep(w) \/ AwaitTimeout(w) \/ ApiError(w)
  PROVE  TypeInv'
<1> USE DEF TypeInv, TypeOK, Targets, Remaining, cgVars, statsVars, queueVars
<1>1. want[w] # NoPod => /\ want[w] \in Pod
                         /\ Created(w) \in Pod
  BY ListedPod, PodChanges DEF Created
<1>2. pods[w] # NoPod => /\ pods[w] \in Pod
                         /\ [pods[w] EXCEPT !.deleting = TRUE] \in Pod
                         /\ [pods[w] EXCEPT !.startAt = now] \in Pod
  BY ListedPod, PodChanges
<1>3. ~Ready(NoPod)
  BY DEF Ready, NoPod
<1>4. CASE CreateWorker(w)
  BY <1>1, <1>4, SetPodType, GotoType DEF CreateWorker, Exists, Tasks
<1>5. CASE DeleteOld(w)
  BY <1>2, <1>5, SetPodType, GotoType DEF DeleteOld, Exists, Tasks
<1>6. CASE AwaitGone(w)
  BY <1>6, GotoType DEF AwaitGone, Tasks
<1>7. CASE RecreateWorker(w)
  BY <1>1, <1>7, SetPodType, GotoType DEF RecreateWorker, Abort, Exists, Tasks
<1>8. CASE RestartWorker(w)
  BY <1>2, <1>3, <1>8, SetPodType, GotoType DEF RestartWorker, Tasks
<1>9. CASE PatchWorker(w)
  <2>1. Exists(want, w) /\ Exists(pods, w)
    BY <1>9 DEF PatchWorker
  <2>2. [pods[w] EXCEPT !.joinAt = want[w].joinAt, !.leaveAt = want[w].leaveAt] \in Pod
    BY <2>1, <1>1, <1>2, PodChanges DEF Exists
  <2> QED BY <2>2, <1>9, SetPodType, GotoType DEF PatchWorker, Tasks
<1>10. CASE RestartFails(w)
  <2>1. faults' \in 0..MaxFaults
    BY <1>10 DEF RestartFails, Fault
  <2>2. Exists(want, w)
    BY <1>10 DEF RestartFails
  <2>3. CASE Abort(w)
    BY <2>1, <2>3, <1>10, GotoType DEF RestartFails, Abort, Tasks
  <2>4. CASE Goto(w, "delete") /\ UNCHANGED <<todo, err>>
    BY <2>1, <2>2, <2>4, <1>10, GotoType DEF RestartFails, Tasks
  <2> QED BY <2>3, <2>4, <1>10 DEF RestartFails
<1>11. CASE ShutDownWorker(w)
  <2>1. LeavingWorker(run.list[w], now) \in Pod /\ run.list[w] # NoPod
    <3>1. w \in todo
      BY <1>11 DEF ShutDownWorker
    <3>2. run.list[w] \in Pod
      BY <3>1, ListedPod DEF Exists
    <3> QED BY <3>2, PodIsThere, PodChanges DEF LeavingWorker
  <2>2. LeavingWorker(run.list[w], now) # NoPod
    BY <2>1, PodIsThere
  <2>3. [want EXCEPT ![w] = LeavingWorker(run.list[w], now)] \in PodList
    BY <2>1 DEF PodList
  <2>4. faults' \in 0..MaxFaults
    BY <1>11 DEF ShutDownWorker, Fault
  <2>5. UNCHANGED <<now, cgVars, status, statsVars, pods, seen, dirty, queueVars, pc, run>>
    BY <1>11 DEF ShutDownWorker
  <2>6. \/ Goto(w, "remove") /\ todo' = todo \ {w} /\ UNCHANGED <<want, err>>
        \/ Abort(w) /\ UNCHANGED want
        \/ /\ want' = [want EXCEPT ![w] = LeavingWorker(run.list[w], now)]
           /\ Goto(w, IF run.list[w].v2 THEN "restart" ELSE "delete")
           /\ todo' = todo \ {w} /\ UNCHANGED err
        \/ todo' = todo \ {w} /\ UNCHANGED <<want, task, err>>
    BY <1>11 DEF ShutDownWorker
  <2>7. CASE Goto(w, "remove") /\ todo' = todo \ {w} /\ UNCHANGED <<want, err>>
    BY <2>4, <2>5, <2>7, GotoType DEF Tasks
  <2>8. CASE Abort(w) /\ UNCHANGED want
    BY <2>4, <2>5, <2>8, GotoType DEF Abort, Tasks
  <2>9. CASE /\ want' = [want EXCEPT ![w] = LeavingWorker(run.list[w], now)]
             /\ Goto(w, IF run.list[w].v2 THEN "restart" ELSE "delete")
             /\ todo' = todo \ {w} /\ UNCHANGED err
    <3>1. \A v \in Workers : Exists(want, v) \/ v = w => Exists(want', v)
      <4>1. want \in [Workers -> Pod \cup {NoPod}]
        BY DEF PodList
      <4> HIDE DEF TypeInv, TypeOK, Targets
      <4> QED BY <4>1, <2>2, <2>9 DEF Exists
    <3> QED BY <3>1, <2>3, <2>4, <2>5, <2>9, GotoType DEF Tasks
  <2>10. CASE todo' = todo \ {w} /\ UNCHANGED <<want, task, err>>
    BY <2>4, <2>5, <2>10
  <2> QED BY <2>6, <2>7, <2>8, <2>9, <2>10
<1>12. CASE DeleteRedundant(w)
  BY <1>2, <1>12, SetPodType, GotoType DEF DeleteRedundant, Exists, Tasks
<1>13. CASE CleanWorkerCache(w)
  BY <1>13, GotoType DEF CleanWorkerCache, Tasks
<1>14. CASE AwaitTimeout(w)
  BY <1>14, GotoType DEF AwaitTimeout, Abort, Fault, Tasks
<1>15. CASE ApiError(w)
  BY <1>15, GotoType DEF ApiError, Abort, Fault, Tasks
<1> QED BY <1>4, <1>5, <1>6, <1>7, <1>8, <1>9, <1>10, <1>11, <1>12, <1>13, <1>14, <1>15 DEF WorkerStep

\* The steps of the stats controller, the kubelet, the informer, the user and the clock.
LEMMA OutsideTypes ==
  ASSUME TypeInv,
         \/ CollectStats \/ Observe \/ EditSpec \/ Tick
         \/ \E w \in Workers : PodReady(w) \/ PodGone(w) \/ PodFails(w) \/ PodDeleted(w)
  PROVE  TypeInv'
<1> USE DEF TypeInv, TypeOK, Targets, Outside, passVars, cgVars, statsVars, queueVars
<1>1. CASE CollectStats
  <2>1. stats' \in [Workers -> Sample]
    <3>1. NoSample \in Sample
      BY DEF NoSample, Sample, Counters
    <3>2. ASSUME NEW w \in Workers, NEW r \in Counters, NEW t \in Counters, Due(w)
          PROVE  NextSample(w, r, t) \in Sample
      <4>1. pods[w].startAt \in Time
        BY ListedPod, <3>2 DEF Due, Ready, NoPod, Pod
      <4>2. "unknown" \in Counters
        BY DEF Counters
      <4> QED BY <4>1, <4>2 DEF NextSample, Sample
    <3>3. PICK receive \in [Joiners(pods) -> Receives], transfer \in [Leavers(pods) -> Transfers],
               missed \in SUBSET {w \in Workers : Due(w)} :
            /\ IF missed = {} THEN UNCHANGED faults ELSE Fault("sample")
            /\ stats' = [w \in Workers |->
              IF Due(w) /\ w \notin missed
              THEN NextSample(w, IF Joining(pods[w]) THEN receive[w] ELSE "unknown",
                                 IF Leaving(pods[w]) THEN transfer[w] ELSE "unknown")
              ELSE IF Exists(seen, w) /\ ~seen[w].deleting THEN stats[w] ELSE NoSample]
      BY <1>1 DEF CollectStats
    <3>4. ASSUME NEW w \in Workers, Due(w)
          PROVE  /\ (IF Joining(pods[w]) THEN receive[w] ELSE "unknown") \in Counters
                 /\ (IF Leaving(pods[w]) THEN transfer[w] ELSE "unknown") \in Counters
      <4>1. pods[w] # NoPod
        BY <3>4 DEF Due, Ready, NoPod
      <4>2. "unknown" \in Counters
        BY DEF Counters
      <4> QED BY <4>1, <4>2 DEF Joiners, Leavers, Exists, EnvironmentAssumption
    <3> QED BY <3>1, <3>2, <3>3, <3>4
  <2>2. cacheSize' \in CacheSizes
    BY <1>1 DEF CollectStats, CacheSizes, EnvironmentAssumption
  <2>3. faults' \in 0..MaxFaults
    BY <1>1, FaultType DEF CollectStats
  <2> QED BY <2>1, <2>2, <2>3, <1>1 DEF CollectStats
<1>2. CASE Observe
  BY <1>2 DEF Observe
<1>3. CASE EditSpec
  BY <1>3 DEF EditSpec, Spec0, EnvironmentAssumption
<1>4. CASE Tick
  <2>1. now' \in Time
    BY <1>4 DEF Tick, Time, DurationsAssumption
  <2>2. CASE UNCHANGED <<pods, seen, want, stats, status, run>>
    BY <2>1, <2>2, <1>4 DEF Tick
  <2>3. CASE Recede
    <3>1. pods' \in PodList /\ seen' \in PodList /\ want' \in PodList
      BY <2>3, BackTypes DEF Recede
    <3>2. stats' \in [Workers -> Sample] /\ status' \in Status
      BY <2>3, BackTypes DEF Recede
    <3>3. run' \in [spec : Spec0, status : Status, list : PodList, stats : [Workers -> Sample]]
      BY <2>3, BackTypes DEF Recede
    <3>4. /\ \A w \in Workers : Exists(want, w) => Exists(want', w)
          /\ \A w \in Workers : Exists(run.list, w) => Exists(run'.list, w)
      <4>1. \A L \in PodList : \A w \in Workers : Exists(L, w) => Exists(BackPods(L), w)
        BY BackedPods
      <4> QED BY <4>1, <2>3 DEF Recede
    <3>5. Targets'
      BY <3>4, <1>4 DEF Tick
    <3> HIDE DEF Targets
    <3> QED BY <2>1, <3>1, <3>2, <3>3, <3>5, <1>4 DEF Tick
  <2> QED BY <2>2, <2>3, <1>4 DEF Tick
<1>5. ASSUME NEW w \in Workers, PodReady(w) \/ PodGone(w) \/ PodFails(w) \/ PodDeleted(w)
      PROVE  TypeInv'
  <2>1. pods[w] # NoPod => pods[w] \in Pod
    BY ListedPod
  <2>2. ~Ready(NoPod)
    BY DEF Ready, NoPod
  <2>3. pods' \in PodList
    <3>1. CASE PodReady(w)
      BY <2>1, <3>1, PodChanges, SetPodType DEF PodReady, Exists
    <3>2. CASE PodGone(w)
      BY <3>2, SetPodType DEF PodGone
    <3>3. CASE PodFails(w)
      <4>1. PICK h \in Health : SetPod(w, [pods[w] EXCEPT !.health = h])
        BY <3>3 DEF PodFails, Health
      <4> QED BY <2>1, <2>2, <3>3, <4>1, PodChanges, SetPodType DEF PodFails
    <3>4. CASE PodDeleted(w)
      BY <2>1, <3>4, PodChanges, SetPodType DEF PodDeleted, Exists
    <3> QED BY <3>1, <3>2, <3>3, <3>4, <1>5
  <2>4. faults' \in 0..MaxFaults
    <3>1. CASE UNCHANGED faults
      BY <3>1
    <3>2. CASE \E kind \in FaultKinds : Fault(kind)
      BY <3>2, FaultType
    <3>3. UNCHANGED faults \/ \E kind \in FaultKinds : Fault(kind)
      BY <1>5 DEF PodReady, PodGone, PodFails, PodDeleted, Fault
    <3> QED BY <3>1, <3>2, <3>3
  <2> QED BY <2>3, <2>4, <1>5 DEF PodReady, PodGone, PodFails, PodDeleted
<1> QED BY <1>1, <1>2, <1>3, <1>4, <1>5

\* The steps of the pass as a whole.
LEMMA PassTypes ==
  ASSUME TypeInv, Start \/ StartRemoval \/ PatchStatus \/ PatchStatusFails \/ Crash
  PROVE  TypeInv'
<1> USE DEF TypeInv, TypeOK, cgVars, statsVars, queueVars
<1>1. CASE Start
  <2>1. PICK startAt \in BatchStart(status.batch, seen) :
          LET st == CalculateStatus(status, spec.expect, seen, startAt, now)
          IN \E granted \in Grants(seen, st.batch) :
               LET updated == (Outdated(seen, st.batch) \ OutdatedReady(seen, st.batch))
                                \cup granted
               IN /\ run' = [spec |-> spec, status |-> st, list |-> seen, stats |-> stats]
                  /\ want' = [w \in Workers |->
                                IF w \in updated THEN Expected(w, seen) ELSE NoPod]
                  /\ task' = [w \in Workers |-> IF w \in updated
                                                THEN FirstTask(seen[w], Expected(w, seen))
                                                ELSE "done"]
    BY <1>1 DEF Start
  <2> DEFINE st == CalculateStatus(status, spec.expect, seen, startAt, now)
  <2>2. st \in Status
    <3>1. status.batch \in Batch /\ spec.expect \in SUBSET Workers
      BY DEF Status, Spec0
    <3> QED BY <3>1, BatchStartType, CalculateStatusType
  <2> HIDE DEF st
  <2>3. PICK updated : 
          /\ run' = [spec |-> spec, status |-> st, list |-> seen, stats |-> stats]
          /\ want' = [w \in Workers |-> IF w \in updated THEN Expected(w, seen) ELSE NoPod]
          /\ task' = [w \in Workers |-> IF w \in updated
                                        THEN FirstTask(seen[w], Expected(w, seen)) ELSE "done"]
    BY <2>1 DEF st
  <2>4. \A w \in Workers : Expected(w, seen) \in Pod
    <3>1. spec.gen \in Gens
      BY DEF Spec0
    <3>2. \A w \in Workers : ShouldAddJoinOption(w, seen[w], stats, cacheSize, now) \in BOOLEAN
      BY DEF ShouldAddJoinOption
    <3> QED BY <3>1, <3>2, NewWorkerType DEF Expected
  <2>5. run' \in [spec : Spec0, status : Status, list : PodList, stats : [Workers -> Sample]]
    BY <2>2, <2>3
  <2>6. want' \in PodList
    BY <2>3, <2>4 DEF PodList
  <2>7. task' \in [Workers -> Tasks]
    BY <2>3 DEF FirstTask, Tasks
  <2>8. Targets'
    <3>1. \A w \in Workers : task'[w] # "done" => w \in updated
      BY <2>3
    <3>2. \A w \in updated \cap Workers : Exists(want', w)
      BY <2>3, <2>4, PodIsThere DEF Exists
    <3>3. todo' = {}
      BY <1>1 DEF Start
    <3> QED BY <3>1, <3>2, <3>3 DEF Targets
  <2> QED BY <2>5, <2>6, <2>7, <2>8, <1>1 DEF Start
<1>2. CASE StartRemoval
  BY <1>2 DEF StartRemoval, Redundant, Targets
<1>3. ASSUME EndPass, now' \in Time, spec' \in Spec0, status' \in Status, cacheSize' \in CacheSizes,
             stats' \in [Workers -> Sample], pods' \in PodList, seen' \in PodList,
             dirty' \subseteq Workers, queued' \in BOOLEAN, timer' \in BOOLEAN,
             edits' \in 0..MaxEdits, faults' \in 0..MaxFaults
      PROVE  TypeInv'
  <2>1. TypeOK'
    BY <1>3, NothingTypes DEF EndPass
  <2>2. Targets'
    BY <1>3 DEF EndPass, Targets, AllDone
  <2> QED BY <2>1, <2>2
<1>4. CASE PatchStatus
  <2>1. PICK startAt \in BatchStart(run.status.batch, seen) :
          LET st == CalculateStatus(run.status, run.spec.expect, seen, startAt, now)
          IN /\ status' = st
             /\ queued' = (queued \/ err \/ st # status)
             /\ timer' = (timer \/ (~err /\ Unsettled(st)))
    BY <1>4 DEF PatchStatus
  <2>2. CalculateStatus(run.status, run.spec.expect, seen, startAt, now) \in Status
    <3>1. run.status \in Status /\ run.status.batch \in Batch /\ run.spec.expect \in SUBSET Workers
      BY DEF Status, Spec0
    <3> QED BY <3>1, BatchStartType, CalculateStatusType
  <2>3. status' \in Status /\ queued' \in BOOLEAN /\ timer' \in BOOLEAN
    BY <2>1, <2>2
  <2> QED BY <2>3, <1>3, <1>4 DEF PatchStatus
<1>5. CASE PatchStatusFails \/ Crash
  <2>1. EndPass /\ faults' \in 0..MaxFaults
    BY <1>5, FaultType DEF PatchStatusFails, Crash
  <2>2. seen' \in PodList /\ queued' \in BOOLEAN /\ timer' \in BOOLEAN
    BY <1>5 DEF PatchStatusFails, Crash
  <2> QED BY <2>1, <2>2, <1>3, <1>5 DEF PatchStatusFails, Crash
<1> QED BY <1>1, <1>2, <1>3, <1>4, <1>5

\* TypeInv is inductive.
LEMMA TypeStep == TypeInv /\ [Next]_vars => TypeInv'
<1> SUFFICES ASSUME TypeInv, [Next]_vars PROVE TypeInv'
  OBVIOUS
<1>1. CASE Next
  BY <1>1, WorkerTypes, OutsideTypes, PassTypes DEF Next
<1>2. CASE UNCHANGED vars
  BY <1>2 DEF TypeInv, TypeOK, Targets, vars
<1> QED BY <1>1, <1>2

(***************************************************************************)
(* Every variable keeps its type: in particular a task of a pass always    *)
(* has the pod it is to create or patch, times stay within the clock, and  *)
(* the status computed by calculateStatus is one.                          *)
(***************************************************************************)
THEOREM TypeCorrect == Spec => []TypeOK
<1>1. TypeInv => TypeOK
  BY DEF TypeInv
<1> QED BY <1>1, TypeStep, InitTypeInv, PTL DEF Spec

----
(***************************************************************************)
(* The update budget of a pass. Start grants updates within the budget of  *)
(* the list it keeps; from then on the goroutines of the workers only      *)
(* finish, whatever order they run in and whatever goes wrong.             *)
(***************************************************************************)

\* maxUnavailable is a number, as a percentage too.
LEMMA MaxUnavailableType ==
  ASSUME NEW onDelete, NEW total \in Nat PROVE MaxUnavailableOf(onDelete, total) \in Int
BY DEF MaxUnavailableOf, DurationsAssumption

\* What is granted fits in maxUnavailable together with what is unavailable.
LEMMA GrantsFit ==
  ASSUME TypeInv, NEW batch, NEW granted \in Grants(seen, batch), granted # {}
  PROVE  Cardinality(granted) + Cardinality(Unavailable(seen))
           <= MaxUnavailableOf(spec.onDelete, Cardinality(spec.expect))
<1> DEFINE max == MaxUnavailableOf(spec.onDelete, Cardinality(spec.expect))
           down == Cardinality(Unavailable(seen))
           used == Cardinality(granted)
<1>1. spec.expect \subseteq Workers
  BY DEF TypeInv, TypeOK, Spec0
<1>2. granted \subseteq Workers
  BY <1>1 DEF Grants, OutdatedReady, Outdated
<1>3. used \in Nat /\ down \in Nat /\ max \in Int
  BY <1>1, <1>2, CountType, MaxUnavailableType DEF Unavailable
<1>4. used # 0
  BY <1>2, FS_Subset, FS_EmptySet DEF WorkersAssumption
<1>5. used <= AtLeast0(max - down)
  <2>1. UpdateBudget(spec.onDelete, seen, Cardinality(spec.expect)) = AtLeast0(max - down)
    BY DEF UpdateBudget
  <2>2. AtLeast0(max - down) \in Int
    BY <1>3 DEF AtLeast0
  <2> HIDE DEF max, down
  <2> QED BY <2>1, <2>2, <1>3 DEF Grants
<1> HIDE DEF max, down, used
<1>6. used + down <= max
  BY <1>3, <1>4, <1>5 DEF AtLeast0
<1> QED BY <1>6 DEF max, down, used

\* A pass that starts updates the ready workers it granted an update, and no other ready one.
LEMMA StartWithinBudget == ASSUME TypeInv, Start PROVE PassWithinBudget'
<1>1. PICK batch : \E granted \in Grants(seen, batch) :
        LET updated == (Outdated(seen, batch) \ OutdatedReady(seen, batch)) \cup granted
        IN /\ run'.spec = spec /\ run'.list = seen
           /\ task' = [w \in Workers |-> IF w \in updated
                                         THEN FirstTask(seen[w], Expected(w, seen)) ELSE "done"]
  BY DEF Start
<1>2. PICK granted \in Grants(seen, batch) :
        LET updated == (Outdated(seen, batch) \ OutdatedReady(seen, batch)) \cup granted
        IN /\ run'.spec = spec /\ run'.list = seen
           /\ task' = [w \in Workers |-> IF w \in updated
                                         THEN FirstTask(seen[w], Expected(w, seen)) ELSE "done"]
  BY <1>1
<1>3. granted \subseteq OutdatedReady(seen, batch)
  BY DEF Grants
<1>4. Updating' \subseteq granted
  BY <1>2 DEF Updating, OutdatedReady
<1>5. granted \subseteq Workers
  BY <1>3 DEF OutdatedReady, Outdated, TypeInv, TypeOK, Spec0
<1>6. Cardinality(Updating') <= Cardinality(granted)
  BY <1>4, <1>5, FS_Subset DEF WorkersAssumption
<1>7. CASE granted = {}
  BY <1>4, <1>7 DEF PassWithinBudget
<1>8. CASE granted # {}
  <2>1. Cardinality(granted) + Cardinality(Unavailable(seen))
          <= MaxUnavailableOf(spec.onDelete, Cardinality(spec.expect))
    BY <1>8, GrantsFit
  <2>2. /\ Cardinality(granted) \in Nat
        /\ Cardinality(Updating') \in Nat
        /\ Cardinality(Unavailable(seen)) \in Nat
        /\ Cardinality(spec.expect) \in Nat
    BY <1>4, <1>5, CountType DEF Unavailable, TypeInv, TypeOK, Spec0
  <2>3. MaxUnavailableOf(spec.onDelete, Cardinality(spec.expect)) \in Int
    BY <2>2, MaxUnavailableType
  <2>4. Cardinality(Updating') + Cardinality(Unavailable(seen))
          <= MaxUnavailableOf(spec.onDelete, Cardinality(spec.expect))
    BY <1>6, <2>1, <2>2, <2>3
  <2> QED BY <2>4, <1>2 DEF PassWithinBudget
<1> QED BY <1>7, <1>8

\* Until the pass ends its spec, what it found unavailable, and what it is done with, stay.
LEMMA UpdatesShrink ==
  ASSUME TypeInv, [Next]_vars, ~Start, pc' = "workers"
  PROVE  /\ pc = "workers"
         /\ Updating' \subseteq Updating
         /\ Unavailable(run'.list) = Unavailable(run.list)
         /\ run'.spec = run.spec
<1> DEFINE Kept == /\ pc = "workers" /\ run' = run
                   /\ \A w \in Workers : task'[w] # "done" => task[w] # "done"
<1>1. Kept => /\ pc = "workers"
              /\ Updating' \subseteq Updating
              /\ Unavailable(run'.list) = Unavailable(run.list)
              /\ run'.spec = run.spec
  BY DEF Updating
<1> USE DEF Remaining, Outside, passVars
<1>2. CASE UNCHANGED vars
  BY <1>2, <1>1 DEF vars
<1>3. CASE StartRemoval \/ PatchStatus \/ PatchStatusFails \/ Crash
  BY <1>3 DEF StartRemoval, PatchStatus, PatchStatusFails, Crash, EndPass
<1>4. CASE CollectStats \/ Observe \/ EditSpec
  BY <1>4, <1>1 DEF CollectStats, Observe, EditSpec
<1>5. CASE \E w \in Workers : PodReady(w) \/ PodGone(w) \/ PodFails(w) \/ PodDeleted(w)
  BY <1>5, <1>1 DEF PodReady, PodGone, PodFails, PodDeleted
<1>6. CASE \E w \in Workers : WorkerStep(w) \/ AwaitTimeout(w) \/ ApiError(w)
  <2>1. PICK w \in Workers : WorkerStep(w) \/ AwaitTimeout(w) \/ ApiError(w)
    BY <1>6
  <2>2. ~ShutDownWorker(w)
    BY DEF ShutDownWorker
  <2>3. /\ task[w] # "done" /\ pc' = pc /\ run' = run
        /\ \E t \in Tasks : Goto(w, t)
    BY <2>1, <2>2
    DEF WorkerStep, CreateWorker, DeleteOld, AwaitGone, RecreateWorker, RestartWorker, PatchWorker,
        RestartFails, DeleteRedundant, CleanWorkerCache, AwaitTimeout, ApiError, Abort, Tasks
  <2>4. Kept
    BY <2>3, GotoType
  <2> QED BY <2>4, <1>1
<1>7. CASE Tick
  <2>1. CASE UNCHANGED run
    BY <2>1, <1>7, <1>1 DEF Tick
  <2>2. CASE Recede
    <3>1. run \in [spec : Spec0, status : Status, list : PodList, stats : [Workers -> Sample]]
      BY DEF TypeInv, TypeOK
    <3>2. run'.list = BackPods(run.list) /\ run'.spec = run.spec
      BY <3>1, <2>2 DEF Recede
    <3>3. \A w \in Workers : /\ Ready(run'.list[w]) <=> Ready(run.list[w])
                             /\ Exists(run'.list, w) <=> Exists(run.list, w)
                             /\ run'.list[w].deleting = run.list[w].deleting
      BY <3>1, <3>2, BackedPods
    <3>4. task' = task /\ pc' = pc
      BY <1>7 DEF Tick
    <3>5. Updating' = Updating
      BY <3>3, <3>4 DEF Updating
    <3>6. Unavailable(run'.list) = Unavailable(run.list)
      BY <3>3 DEF Unavailable
    <3> QED BY <3>2, <3>4, <3>5, <3>6
  <2> QED BY <2>1, <2>2, <1>7 DEF Tick
<1> QED BY <1>2, <1>3, <1>4, <1>5, <1>6, <1>7 DEF Next

(***************************************************************************)
(* A pass of syncWorkers, however its goroutines interleave and whatever   *)
(* fails, never updates more ready workers than maxUnavailable leaves once *)
(* the unavailable workers of its list are counted.                        *)
(***************************************************************************)
THEOREM PassBudget == Spec => []PassWithinBudget
<1> DEFINE Inv == TypeInv /\ PassWithinBudget
<1>1. Init => Inv
  BY InitTypeInv DEF Init, PassWithinBudget
<1>2. Inv /\ [Next]_vars => Inv'
  <2> SUFFICES ASSUME TypeInv, PassWithinBudget, [Next]_vars PROVE PassWithinBudget'
    BY TypeStep
  <2>1. CASE Start
    BY <2>1, StartWithinBudget
  <2>2. CASE pc' # "workers"
    BY <2>2 DEF PassWithinBudget
  <2>3. CASE ~Start /\ pc' = "workers"
    <3>1. /\ pc = "workers" /\ Updating' \subseteq Updating
          /\ Unavailable(run'.list) = Unavailable(run.list) /\ run'.spec = run.spec
      BY <2>3, UpdatesShrink
    <3>2. Updating \subseteq Workers
      BY DEF Updating
    <3>3. /\ Cardinality(Updating') <= Cardinality(Updating)
          /\ Cardinality(Updating') \in Nat
          /\ Cardinality(Updating) \in Nat
      BY <3>1, <3>2, CountType, FS_Subset DEF WorkersAssumption
    <3>4. CASE Updating = {}
      BY <3>1, <3>4 DEF PassWithinBudget
    <3>5. CASE Updating # {}
      <4> DEFINE max == MaxUnavailableOf(run.spec.onDelete, Cardinality(run.spec.expect))
                 down == Cardinality(Unavailable(run.list))
      <4>1. Cardinality(Updating) + down <= max
        BY <3>1, <3>5 DEF PassWithinBudget
      <4>2. down \in Nat /\ max \in Int
        BY CountType, MaxUnavailableType DEF Unavailable, TypeInv, TypeOK, Spec0
      <4> HIDE DEF max, down
      <4>3. Cardinality(Updating') + down <= max
        BY <3>3, <4>1, <4>2
      <4> QED BY <3>1, <4>3 DEF PassWithinBudget, max, down
    <3> QED BY <3>4, <3>5
  <2> QED BY <2>1, <2>2, <2>3
<1> QED BY <1>1, <1>2, PTL DEF Spec
====
