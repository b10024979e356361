------------------------------ MODULE SyncJob ------------------------------
(* The Sync controller: one Sync, the reconcile that drives it (read from the *)
(* informer cache, one API call a step), the pods of its workers and of its   *)
(* manager, the kubelet, the owner garbage collector and the user.            *)
(* internal/controller/sync_controller.go, pkg/builder/sync_pod.go.           *)
EXTENDS Naturals, FiniteSets

CONSTANTS
  Worker,            \* names of the worker pods, Replicas - 1 of them
  Manager,           \* name of the manager pod
  Namesakes,         \* names of ready workers of a Sync with this name elsewhere
  PreparingTimeout,  \* the spec sets PreparingTimeoutSeconds
  TTL,               \* the spec sets TTLSecondsAfterFinished
  Losable,           \* pods a node failure or a drain may remove
  MaxGen,            \* how often the user creates the Sync anew
  Kinds,             \* the kinds of faults and of interventions that happen
  MaxFaults          \* and how many of them

FaultKinds == {"error", "log", "lost", "crash", "delete", "edit"}

ASSUME NamesAssumption ==
  /\ Manager \notin Worker
  /\ Namesakes \subseteq Worker
  /\ Losable \subseteq Worker \cup {Manager}
  /\ IsFiniteSet(Worker)

ASSUME BoundsAssumption ==
  /\ PreparingTimeout \in BOOLEAN
  /\ TTL \in BOOLEAN
  /\ Kinds \subseteq FaultKinds
  /\ MaxGen \in Nat
  /\ MaxFaults \in Nat

VARIABLES
  obj,       \* the Sync at the API server
  seen,      \* the Sync in the informer cache
  late,      \* generations whose PreparingAt is longer ago than the timeout
  pod,       \* the pods at the API server
  seenPod,   \* the pods in the informer cache
  hosts,     \* workers whose address the manager was started with
  copied,    \* generations whose manager has ended and has lost nothing
  queued,    \* the key is in the work queue
  pc,        \* the next step of the reconcile
  mine,      \* the Sync as the reconcile has read and changed it
  ips,       \* the workers whose addresses prepareWorkerPod found
  mgr,       \* the phase of the manager pod as the reconcile has read it
  faults     \* how many faults and interventions there were

world == <<obj, late, pod, hosts, copied, faults>>
cache == <<seen, seenPod>>
reconcile == <<queued, pc, mine, ips, mgr>>
vars == <<world, cache, reconcile>>

Name == Worker \cup {Manager}
Gens == 0 .. MaxGen

Unfinished == {"Pending", "Preparing", "Progressing"}
Finished == {"Completed", "Failed"}

\* "lossy": the manager exits with 0 and its log tells of lost or failed files.
Ended == {"succeeded", "lossy", "failed"}
PodPhases == {"none", "starting", "ready"} \cup Ended
Place == {"own", "elsewhere"} \X Worker
Addresses(where, names) == {where} \X names

SyncObj == [gen : Gens, phase : Unfinished \cup Finished \cup {"Gone"}, valid : BOOLEAN]
NewSync(g) == [gen |-> g, phase |-> "Pending", valid |-> TRUE]
Pod == [phase : PodPhases, gen : Gens]
NoPod == [phase |-> "none", gen |-> 0]
\* A mutant: the pod has no owner.
StartingUnownedPod == [phase |-> "starting"]
StartingPod == [phase |-> "starting", gen |-> mine.gen]

Steps == {"idle", "writePreparing", "listWorkers", "pollWorkers", "waitWorkers",
  "getManager", "pollManager", "waitManager", "writeProgressing", "checkManager",
  "deleteSucceeded", "readLog", "writeVerdict", "writeStats", "deleteAll", "checkTTL"}

TypeOK ==
  /\ obj \in SyncObj
  /\ seen \in SyncObj
  /\ late \subseteq Gens
  /\ pod \in [Name -> Pod]
  /\ seenPod \in [Name -> Pod]
  /\ hosts \subseteq Place
  /\ copied \subseteq Gens
  /\ queued \in BOOLEAN
  /\ pc \in Steps
  /\ mine \in SyncObj
  /\ ips \subseteq Place
  /\ mgr \in PodPhases
  /\ faults \in 0 .. MaxFaults

Init ==
  /\ obj = NewSync(0)
  /\ seen = obj
  /\ late = {}
  /\ pod = [n \in Name |-> NoPod]
  /\ seenPod = pod
  /\ hosts = {}
  /\ copied = {}
  /\ queued = TRUE
  /\ pc = "idle"
  /\ mine = obj
  /\ ips = {}
  /\ mgr = "none"
  /\ faults = 0

Occurs(kind) ==
  /\ kind \in Kinds
  /\ faults < MaxFaults
  /\ faults' = faults + 1

-----------------------------------------------------------------------------
(* The reconcile *)

\* What a reconcile leaves behind when it returns; again: its key is requeued.
Return(again) ==
  /\ pc' = "idle"
  /\ queued' = (queued \/ again)
  /\ mine' = NewSync(0)
  /\ ips' = {}
  /\ mgr' = "none"

\* An error is returned, and the work queue retries with a backoff.
ReturnError == Return(TRUE)

Goto(step) ==
  /\ pc' = step
  /\ UNCHANGED queued

\* The reconcile reads the Sync and turns to its first API call.
Take(phase, step) ==
  /\ pc = "idle"
  /\ queued
  /\ seen.phase # "Gone"
  /\ queued' = FALSE
  /\ mine' = [seen EXCEPT !.phase = phase]
  /\ pc' = step
  /\ UNCHANGED <<world, cache, ips, mgr>>

\* A mutant: the deadline is never over.
TimedOutNever(sync) == FALSE
TimedOut(sync) == PreparingTimeout /\ sync.gen \in late

SyncNotFound ==
  /\ pc = "idle"
  /\ queued
  /\ seen.phase = "Gone"
  /\ queued' = FALSE
  /\ UNCHANGED <<world, cache, pc, mine, ips, mgr>>

RejectSpec == ~seen.valid /\ Take("Failed", "writeVerdict")

BeginPreparing ==
  /\ seen.valid
  /\ seen.phase = "Pending"
  /\ Take("Preparing", "writePreparing")

TimeOutPreparing ==
  /\ seen.valid
  /\ seen.phase = "Preparing"
  /\ TimedOut(seen)
  /\ Take("Failed", "writeVerdict")

ResumePreparing ==
  /\ seen.valid
  /\ seen.phase = "Preparing"
  /\ ~TimedOut(seen)
  /\ Take("Preparing", "listWorkers")

ResumeProgressing ==
  /\ seen.valid
  /\ seen.phase = "Progressing"
  /\ Take("Progressing", "checkManager")

ResumeFinished ==
  /\ seen.valid
  /\ seen.phase \in Finished
  /\ Take(seen.phase, "deleteAll")

\* updateStatus: the object is read from the cache, its status is overwritten,
\* and the API server accepts it if the cache had its current version.
StatusAccepted == seen = obj /\ obj.phase # "Gone"
WriteStatus ==
  /\ StatusAccepted
  /\ obj' = [obj EXCEPT !.phase = mine.phase]
  /\ UNCHANGED <<late, pod, hosts, copied, faults, cache>>

WritePreparing ==
  /\ pc = "writePreparing"
  /\ WriteStatus
  /\ Goto("listWorkers")
  /\ UNCHANGED <<mine, ips, mgr>>

WriteProgressing ==
  /\ pc = "writeProgressing"
  /\ WriteStatus
  /\ Goto("checkManager")
  /\ UNCHANGED <<mine, ips, mgr>>

\* The verdicts before Preparing: nothing is requeued.
WriteVerdict ==
  /\ pc = "writeVerdict"
  /\ WriteStatus
  /\ Return(FALSE)

\* What calculateSyncStats returned: the reconcile asks for another.
WriteStats ==
  /\ pc = "writeStats"
  /\ WriteStatus
  /\ Return(TRUE)

\* RetryOnConflict gives up, or the Sync is no longer there.
WriteStatusFails ==
  /\ pc \in {"writePreparing", "writeProgressing", "writeVerdict", "writeStats"}
  /\ ~StatusAccepted
  /\ ReturnError
  /\ UNCHANGED <<world, cache>>

-----------------------------------------------------------------------------
(* Preparing: prepareWorkerPod and prepareManagerPod *)

Exists(n) == seenPod[n].phase # "none"
ReadyOrSucceeded(n) == seenPod[n].phase \in {"ready", "succeeded", "lossy"}
OwnListed == {w \in Worker : Exists(w)}

\* The list of the workers matches labels in every namespace.
Listed == Addresses("own", OwnListed) \cup Addresses("elsewhere", Namesakes)
NamesListed == OwnListed \cup Namesakes
Missing == IF Cardinality(Listed) = Cardinality(Worker) THEN {} ELSE Worker \ NamesListed

\* Create, for each of some names; AlreadyExists is ignored.
CreatePods(names) ==
  pod' = [n \in Name |-> IF n \in names /\ pod[n].phase = "none" THEN StartingPod ELSE pod[n]]

CreateWorkers ==
  /\ pc = "listWorkers"
  /\ CreatePods(Missing)
  /\ Goto(IF Worker = {} THEN "getManager" ELSE "pollWorkers")
  /\ UNCHANGED <<obj, late, hosts, copied, faults, cache, mine, ips, mgr>>

\* One of the creations fails, after some were done.
CreateWorkersFails ==
  /\ pc = "listWorkers"
  /\ \E done \in SUBSET Missing \ {Missing} : CreatePods(done)
  /\ Occurs("error")
  /\ ReturnError
  /\ UNCHANGED <<obj, late, hosts, copied, cache>>

\* A mutant: that all the workers are listed is not tested.
AllListedReady == \A w \in OwnListed : ReadyOrSucceeded(w)
AllWorkersReady ==
  /\ Cardinality(Listed) = Cardinality(Worker)
  /\ \A w \in OwnListed : ReadyOrSucceeded(w)

WorkersReady ==
  /\ pc \in {"pollWorkers", "waitWorkers"}
  /\ AllWorkersReady
  /\ ips' = Listed
  /\ Goto("getManager")
  /\ UNCHANGED <<world, cache, mine, mgr>>

WorkersNotReady ==
  /\ pc = "pollWorkers"
  /\ ~AllWorkersReady
  /\ Goto("waitWorkers")
  /\ UNCHANGED <<world, cache, mine, ips, mgr>>

CreateManager ==
  /\ pc = "getManager"
  /\ ~Exists(Manager)
  /\ pod[Manager].phase = "none"
  /\ CreatePods({Manager})
  /\ hosts' = ips
  /\ Goto("pollManager")
  /\ UNCHANGED <<obj, late, copied, faults, cache, mine, ips, mgr>>

\* The cache does not show the manager yet, and AlreadyExists is an error here.
CreateManagerFails ==
  /\ pc = "getManager"
  /\ ~Exists(Manager)
  /\ pod[Manager].phase # "none"
  /\ ReturnError
  /\ UNCHANGED <<world, cache>>

FindManager ==
  /\ pc = "getManager"
  /\ Exists(Manager)
  /\ Goto("pollManager")
  /\ UNCHANGED <<world, cache, mine, ips, mgr>>

ManagerStarted == seenPod[Manager].phase \in {"ready"} \cup Ended

ManagerReady ==
  /\ pc \in {"pollManager", "waitManager"}
  /\ ManagerStarted
  /\ mine' = [mine EXCEPT !.phase = "Progressing"]
  /\ Goto("writeProgressing")
  /\ UNCHANGED <<world, cache, ips, mgr>>

ManagerNotReady ==
  /\ pc = "pollManager"
  /\ ~ManagerStarted
  /\ Goto("waitManager")
  /\ UNCHANGED <<world, cache, mine, ips, mgr>>

\* The minute of a wait is over.  The last poll may be five seconds old.
WaitTimesOut ==
  /\ pc \in {"waitWorkers", "waitManager"}
  /\ ReturnError
  /\ UNCHANGED <<world, cache>>

-----------------------------------------------------------------------------
(* Progressing, and what follows *)

ManagerMissing ==
  /\ pc = "checkManager"
  /\ ~Exists(Manager)
  /\ mine' = [mine EXCEPT !.phase = "Failed"]
  /\ Goto("writeVerdict")
  /\ UNCHANGED <<world, cache, ips, mgr>>

CheckManager ==
  /\ pc = "checkManager"
  /\ Exists(Manager)
  /\ mgr' = seenPod[Manager].phase
  /\ Goto("deleteSucceeded")
  /\ UNCHANGED <<world, cache, mine, ips>>

\* DeleteAllOf selects at the API server, in the namespace of the Sync.  The
\* grace period of a worker is zero.
DeleteWorkers(names) ==
  /\ pod' = [n \in Name |-> IF n \in names THEN NoPod ELSE pod[n]]
  /\ hosts' = hosts \ Addresses("own", names)

\* A mutant: the field selector is missing.
WorkersInAnyPhase == Worker
SucceededWorkers == {w \in Worker : pod[w].phase = "succeeded"}

\* deleteWorkerPods(false), then the tests of calculateSyncStats: of a manager
\* that is ready only figures are updated, if they have been fetched, but they are
\* written with the phase the reconcile has read.
DeleteSucceeded ==
  /\ pc = "deleteSucceeded"
  /\ DeleteWorkers(SucceededWorkers)
  /\ \/ mgr \in Ended /\ Goto("readLog") /\ UNCHANGED <<mine, ips, mgr>>
     \/ mgr = "ready" /\ Goto("writeStats") /\ UNCHANGED <<mine, ips, mgr>>
     \/ mgr \notin Ended /\ Return(TRUE)
  /\ UNCHANGED <<obj, late, copied, faults, cache>>

Judge(verdict) ==
  /\ pc = "readLog"
  /\ mine' = [mine EXCEPT !.phase = verdict]
  /\ Goto("writeStats")

\* The phase by the exit code alone.
ExitVerdict == IF mgr = "failed" THEN "Failed" ELSE "Completed"
LogVerdict == IF pod[Manager].phase = "lossy" THEN "Failed" ELSE ExitVerdict

JudgeByLog ==
  /\ pod[Manager].phase \in Ended
  /\ Judge(LogVerdict)
  /\ UNCHANGED <<world, cache, ips, mgr>>

\* The log cannot be read, or has no statistics: the manager is not there, or
\* has not ended (it is another than the reconcile has read).
JudgeWithoutManager ==
  /\ pod[Manager].phase \notin Ended
  /\ Judge(ExitVerdict)
  /\ UNCHANGED <<world, cache, ips, mgr>>

JudgeWithoutLog ==
  /\ Judge(ExitVerdict)
  /\ Occurs("log")
  /\ UNCHANGED <<obj, late, pod, hosts, copied, cache, ips, mgr>>

\* A mutant: only workers that have succeeded are deleted.
DeleteFinishedWorkers ==
  /\ pc = "deleteAll"
  /\ DeleteWorkers(SucceededWorkers)
  /\ Return(FALSE)
  /\ UNCHANGED <<obj, late, copied, faults, cache>>

\* deleteWorkerPods(true) of a finished Sync.
DeleteAllWorkers ==
  /\ pc = "deleteAll"
  /\ DeleteWorkers(Worker)
  /\ IF mine.phase = "Completed" /\ TTL
       THEN Goto("checkTTL") /\ UNCHANGED <<mine, ips, mgr>>
       ELSE Return(FALSE)
  /\ UNCHANGED <<obj, late, copied, faults, cache>>

\* The TTL is over.  The deletion is by name.
Expire ==
  /\ pc = "checkTTL"
  /\ obj' = [obj EXCEPT !.phase = "Gone"]
  /\ Return(obj.phase # "Gone")
  /\ UNCHANGED <<late, pod, hosts, copied, faults, cache>>

AwaitTTL ==
  /\ pc = "checkTTL"
  /\ Return(TRUE)
  /\ UNCHANGED <<world, cache>>

\* An API call of the reconcile fails and changes nothing.
CallFails ==
  /\ pc # "idle"
  /\ Occurs("error")
  /\ ReturnError
  /\ UNCHANGED <<obj, late, pod, hosts, copied, cache>>

-----------------------------------------------------------------------------
(* What surrounds the reconcile *)

\* The operator dies and starts again, with a cache that is up to date.
Crash ==
  /\ Occurs("crash")
  /\ ReturnError
  /\ seen' = obj
  /\ seenPod' = pod
  /\ UNCHANGED <<obj, late, pod, hosts, copied>>

ObserveSync ==
  /\ seen # obj
  /\ seen' = obj
  /\ queued' = TRUE
  /\ UNCHANGED <<world, seenPod, pc, mine, ips, mgr>>

\* The controller owns the pods: each event queues the Sync.
ObservePod(n) ==
  /\ seenPod[n] # pod[n]
  /\ seenPod' = [seenPod EXCEPT ![n] = pod[n]]
  /\ queued' = TRUE
  /\ UNCHANGED <<world, seen, pc, mine, ips, mgr>>

SetPod(n, phase) == pod' = [pod EXCEPT ![n].phase = phase]

PodStarts(n) ==
  /\ pod[n].phase = "starting"
  /\ SetPod(n, "ready")
  /\ UNCHANGED <<obj, late, hosts, copied, faults, cache, reconcile>>

\* The juicefs process the manager started on a worker ends, and so does the
\* worker: after the manager, or before it.
WorkerExits(w) ==
  /\ pod[w].phase = "ready"
  /\ <<"own", w>> \in hosts
  /\ pod[Manager].phase \in {"ready"} \cup Ended
  /\ SetPod(w, "succeeded")
  /\ UNCHANGED <<obj, late, hosts, copied, faults, cache, reconcile>>

ManagerEnds(how) ==
  /\ pod[Manager].phase = "ready"
  /\ SetPod(Manager, how)
  /\ copied' = IF how = "succeeded" THEN copied \cup {pod[Manager].gen} ELSE copied
  /\ UNCHANGED <<obj, late, hosts, faults, cache, reconcile>>

\* A pod that will not be restarted fails, or it is removed.
LosePod(n) ==
  /\ n \in Losable
  /\ pod[n].phase # "none"
  /\ Occurs("lost")
  /\ \/ /\ pod[n].phase \in {"starting", "ready"}
        /\ SetPod(n, "failed")
     \/ pod' = [pod EXCEPT ![n] = NoPod]
  /\ hosts' = IF n = Manager THEN {} ELSE hosts \ {<<"own", n>>}
  /\ UNCHANGED <<obj, late, copied, cache, reconcile>>

\* The garbage collector removes the pods of a Sync that is no longer there.
Orphan(n) == pod[n].phase # "none" /\ (obj.phase = "Gone" \/ pod[n].gen # obj.gen)
CollectPod(n) ==
  /\ Orphan(n)
  /\ pod' = [pod EXCEPT ![n] = NoPod]
  /\ hosts' = IF n = Manager THEN {} ELSE hosts \ {<<"own", n>>}
  /\ UNCHANGED <<obj, late, copied, faults, cache, reconcile>>

DeadlinePasses ==
  /\ PreparingTimeout
  /\ obj.phase \in {"Preparing", "Progressing"}
  /\ obj.gen \notin late
  /\ late' = late \cup {obj.gen}
  /\ UNCHANGED <<obj, pod, hosts, copied, faults, cache, reconcile>>

UserDeletes ==
  /\ obj.phase # "Gone"
  /\ Occurs("delete")
  /\ obj' = [obj EXCEPT !.phase = "Gone"]
  /\ UNCHANGED <<late, pod, hosts, copied, cache, reconcile>>

UserRecreates ==
  /\ obj.phase = "Gone"
  /\ obj.gen < MaxGen
  /\ obj' = NewSync(obj.gen + 1)
  /\ UNCHANGED <<late, pod, hosts, copied, faults, cache, reconcile>>

UserEdits ==
  /\ obj.phase # "Gone"
  /\ obj.valid
  /\ Occurs("edit")
  /\ obj' = [obj EXCEPT !.valid = FALSE]
  /\ UNCHANGED <<late, pod, hosts, copied, cache, reconcile>>

-----------------------------------------------------------------------------
ReadSync ==
  \/ SyncNotFound \/ RejectSpec \/ BeginPreparing \/ TimeOutPreparing
  \/ ResumePreparing \/ ResumeProgressing \/ ResumeFinished

Write == WritePreparing \/ WriteProgressing \/ WriteVerdict \/ WriteStats \/ WriteStatusFails

Prepare ==
  \/ CreateWorkers \/ WorkersReady \/ WorkersNotReady
  \/ CreateManager \/ CreateManagerFails \/ FindManager
  \/ ManagerReady \/ ManagerNotReady \/ WaitTimesOut

Follow ==
  \/ ManagerMissing \/ CheckManager \/ DeleteSucceeded
  \/ JudgeByLog \/ JudgeWithoutManager
  \/ DeleteAllWorkers \/ Expire \/ AwaitTTL

Step == ReadSync \/ Write \/ Prepare \/ Follow
Fault == CreateWorkersFails \/ JudgeWithoutLog \/ CallFails \/ Crash \/ \E n \in Name : LosePod(n)
User == UserDeletes \/ UserRecreates \/ UserEdits
Kubelet ==
  \/ \E n \in Name : PodStarts(n)
  \/ \E w \in Worker : WorkerExits(w)
  \/ \E how \in Ended : ManagerEnds(how)
Cluster == ObserveSync \/ (\E n \in Name : ObservePod(n) \/ CollectPod(n)) \/ DeadlinePasses

Next == Step \/ Fault \/ User \/ Kubelet \/ Cluster

Spec == Init /\ [][Next]_vars

\* The work queue runs what is queued, the informers catch up, pods that can
\* start do, a manager ends, owners are collected, and time passes.
Fairness ==
  /\ WF_vars(Step)
  /\ WF_vars(ObserveSync)
  /\ \A n \in Name : WF_vars(ObservePod(n)) /\ WF_vars(PodStarts(n)) /\ WF_vars(CollectPod(n))
  /\ WF_vars(\E how \in Ended : ManagerEnds(how))
  /\ WF_vars(DeadlinePasses)

FairSpec == Spec /\ Fairness
-----------------------------------------------------------------------------
(* Properties *)

\* The Sync controller keeps the promise of a Sync: the phase moves forward, a
\* verdict is not changed by a reconcile that has read an old Sync or repeats
\* what was done, and Completed is written only when the manager has copied
\* everything.  This is of the Sync that is there first.
Promise == INSTANCE SyncPromise WITH
  phase <- IF obj.gen = 0 THEN obj.phase ELSE "Gone",
  copied <- 0 \in copied
KeepsPromise == Promise!Spec

\* Every Sync ends.  It keeps its last verdict, although an old verdict may be
\* written over a newer one for a while; or it is gone, and so are its pods, also
\* those that a reconcile created after the deletion.  This holds whatever the
\* pods do, if the Preparing phase has a deadline.
GoneWithPods == obj.phase = "Gone" /\ \A n \in Name : pod[n].phase = "none"
Settles == <>[](obj.phase \in Finished) \/ <>[]GoneWithPods

\* The workers of a finished Sync are deleted and are not created again: not by
\* a reconcile that has read it as Preparing, nor left behind by an error.
WorkersGo == <>[](obj.phase \in Finished \cup {"Gone"} => \A w \in Worker : pod[w].phase = "none")

\* The controller does not take workers from a manager that runs.  This is of a
\* Sync that is made once, has no deadline and does not lose its manager: the
\* verdict of a late, former or lost one lets the workers be deleted all the same.
Takes(w) == pod[w].phase = "ready" /\ pod'[w].phase = "none" /\ pc # "idle" /\ pc' # pc
WorkersOutliveManager == [][(\E w \in Worker : Takes(w)) => pod[Manager].phase # "ready"]_vars

\* The manager is started with the addresses of all the workers of its Sync, if no
\* Sync of this name elsewhere has workers.
ManagerHasItsWorkers ==
  [][pod[Manager].phase = "none" /\ pod'[Manager].phase = "starting"
       => hosts' = Addresses("own", Worker)]_vars
=============================================================================
