--------------------------- MODULE SyncJob_proofs ---------------------------
(* The Sync controller keeps the promise of a Sync, for any number of         *)
(* workers, faults and re-creations, unless the manager or its log is lost;   *)
(* and its manager has all its workers, as long as it runs.                   *)
EXTENDS SyncJob, TLAPS, FiniteSetTheorems

LEMMA InitType == Init => TypeOK
<1> SUFFICES ASSUME Init
             PROVE  TypeOK
  OBVIOUS
<1>1. 0 \in Gens /\ NewSync(0) \in SyncObj
  BY BoundsAssumption DEF Gens, NewSync, SyncObj, Unfinished
<1>2. NoPod \in Pod
  BY <1>1 DEF NoPod, Pod, PodPhases
<1>3. 0 \in 0 .. MaxFaults
  BY BoundsAssumption
<1> QED
  BY <1>1, <1>2, <1>3 DEF Init, TypeOK, Steps, PodPhases

\* What a reconcile keeps for itself, as it returns.
LEMMA ReturnType ==
  ASSUME TypeOK, NEW again \in BOOLEAN, Return(again)
  PROVE  /\ queued' \in BOOLEAN
         /\ pc' \in Steps
         /\ mine' \in SyncObj
         /\ ips' \subseteq Place
         /\ mgr' \in PodPhases
<1>1. NewSync(0) \in SyncObj
  BY BoundsAssumption DEF Gens, NewSync, SyncObj, Unfinished
<1> QED
  BY <1>1 DEF Return, TypeOK, Steps, PodPhases

LEMMA CreateType ==
  ASSUME TypeOK, NEW names, CreatePods(names)
  PROVE  pod' \in [Name -> Pod]
<1>1. StartingPod \in Pod
  BY DEF StartingPod, Pod, PodPhases, TypeOK, SyncObj
<1> QED
  BY <1>1 DEF CreatePods, TypeOK

LEMMA DeleteType ==
  ASSUME TypeOK, NEW names, DeleteWorkers(names)
  PROVE  pod' \in [Name -> Pod] /\ hosts' \subseteq Place
<1>1. NoPod \in Pod
  BY BoundsAssumption DEF NoPod, Pod, PodPhases, Gens
<1> QED
  BY <1>1 DEF DeleteWorkers, TypeOK

LEMMA WriteType == ASSUME TypeOK, WriteStatus PROVE obj' \in SyncObj
BY DEF WriteStatus, TypeOK, SyncObj

LEMMA TakeType ==
  ASSUME TypeOK, NEW phase \in Unfinished \cup Finished, NEW step \in Steps, Take(phase, step)
  PROVE  TypeOK'
BY DEF Take, TypeOK, SyncObj, world, cache

LEMMA TypeStep == TypeOK /\ [Next]_vars => TypeOK'
<1> SUFFICES ASSUME TypeOK, [Next]_vars
             PROVE  TypeOK'
  OBVIOUS
<1>1. /\ 0 \in Gens
      /\ TRUE \in BOOLEAN /\ FALSE \in BOOLEAN
      /\ NoPod \in Pod
  BY BoundsAssumption DEF Gens, NoPod, Pod, PodPhases
<1>2. ASSUME NEW kind, Occurs(kind)
      PROVE  faults' \in 0 .. MaxFaults
  BY <1>2, BoundsAssumption DEF Occurs, TypeOK
<1>3. ASSUME NEW n \in Name, NEW phase \in PodPhases, SetPod(n, phase)
      PROVE  pod' \in [Name -> Pod]
  BY <1>3 DEF SetPod, TypeOK, Pod
<1>4. ASSUME NEW n \in Name
      PROVE  [pod EXCEPT ![n] = NoPod] \in [Name -> Pod]
  BY <1>1, <1>4 DEF TypeOK
<1>5. Manager \in Name /\ Worker \subseteq Name
  BY DEF Name
<1>6. CASE ReadSync
  <2>1. CASE SyncNotFound
    BY <2>1 DEF SyncNotFound, TypeOK, world, cache
  <2>2. CASE RejectSpec
    BY <2>2, TakeType DEF RejectSpec, Finished, Steps
  <2>3. CASE BeginPreparing
    BY <2>3, TakeType DEF BeginPreparing, Unfinished, Steps
  <2>4. CASE TimeOutPreparing
    BY <2>4, TakeType DEF TimeOutPreparing, Finished, Steps
  <2>5. CASE ResumePreparing
    BY <2>5, TakeType DEF ResumePreparing, Unfinished, Steps
  <2>6. CASE ResumeProgressing
    BY <2>6, TakeType DEF ResumeProgressing, Unfinished, Steps
  <2>7. CASE ResumeFinished
    BY <2>7, TakeType DEF ResumeFinished, Steps
  <2> QED
    BY <1>6, <2>1, <2>2, <2>3, <2>4, <2>5, <2>6, <2>7 DEF ReadSync
<1>7. CASE Write
  <2>1. CASE WritePreparing
    BY <2>1, WriteType DEF WritePreparing, WriteStatus, Goto, TypeOK, Steps, cache
  <2>2. CASE WriteProgressing
    BY <2>2, WriteType DEF WriteProgressing, WriteStatus, Goto, TypeOK, Steps, cache
  <2>3. CASE WriteVerdict
    <3>1. WriteStatus /\ Return(FALSE)
      BY <2>3 DEF WriteVerdict
    <3> QED
      BY <3>1, WriteType, ReturnType DEF WriteStatus, TypeOK, cache
  <2>4. CASE WriteStats
    <3>1. WriteStatus /\ Return(TRUE)
      BY <2>4 DEF WriteStats
    <3> QED
      BY <3>1, WriteType, ReturnType DEF WriteStatus, TypeOK, cache
  <2>5. CASE WriteStatusFails
    <3>1. Return(TRUE) /\ UNCHANGED <<world, cache>>
      BY <2>5 DEF WriteStatusFails, ReturnError
    <3> QED
      BY <3>1, ReturnType DEF TypeOK, world, cache
  <2> QED
    BY <1>7, <2>1, <2>2, <2>3, <2>4, <2>5 DEF Write
<1>8. CASE Prepare
  <2>1. CASE CreateWorkers
    BY <2>1, CreateType DEF CreateWorkers, Goto, TypeOK, Steps, cache
  <2>2. CASE WorkersReady
    <3>1. Listed \subseteq Place
      BY NamesAssumption DEF Listed, Addresses, OwnListed, Place
    <3> QED
      BY <2>2, <3>1 DEF WorkersReady, Goto, TypeOK, Steps, world, cache
  <2>3. CASE WorkersNotReady
    BY <2>3 DEF WorkersNotReady, Goto, TypeOK, Steps, world, cache
  <2>4. CASE CreateManager
    BY <2>4, CreateType DEF CreateManager, Goto, TypeOK, Steps, cache
  <2>5. CASE CreateManagerFails
    <3>1. Return(TRUE) /\ UNCHANGED <<world, cache>>
      BY <2>5 DEF CreateManagerFails, ReturnError
    <3> QED
      BY <3>1, ReturnType DEF TypeOK, world, cache
  <2>6. CASE FindManager
    BY <2>6 DEF FindManager, Goto, TypeOK, Steps, world, cache
  <2>7. CASE ManagerReady
    BY <2>7 DEF ManagerReady, Goto, TypeOK, Steps, SyncObj, Unfinished, world, cache
  <2>8. CASE ManagerNotReady
    BY <2>8 DEF ManagerNotReady, Goto, TypeOK, Steps, world, cache
  <2>9. CASE WaitTimesOut
    <3>1. Return(TRUE) /\ UNCHANGED <<world, cache>>
      BY <2>9 DEF WaitTimesOut, ReturnError
    <3> QED
      BY <3>1, ReturnType DEF TypeOK, world, cache
  <2> QED
    BY <1>8, <2>1, <2>2, <2>3, <2>4, <2>5, <2>6, <2>7, <2>8, <2>9 DEF Prepare
<1>9. CASE Follow
  <2>1. CASE ManagerMissing
    BY <2>1 DEF ManagerMissing, Goto, TypeOK, Steps, SyncObj, Finished, world, cache
  <2>2. CASE CheckManager
    BY <2>2, <1>5 DEF CheckManager, Goto, TypeOK, Steps, Pod, world, cache
  <2>3. CASE DeleteSucceeded
    <3>1. /\ DeleteWorkers(SucceededWorkers)
          /\ UNCHANGED <<obj, late, copied, faults, cache>>
      BY <2>3 DEF DeleteSucceeded
    <3>2. /\ queued' \in BOOLEAN
          /\ pc' \in Steps
          /\ mine' \in SyncObj
          /\ ips' \subseteq Place
          /\ mgr' \in PodPhases
      <4>1. CASE Return(TRUE)
        BY <4>1, ReturnType
      <4>2. CASE ~Return(TRUE)
        BY <2>3, <4>2 DEF DeleteSucceeded, Goto, TypeOK, Steps
      <4> QED
        BY <4>1, <4>2
    <3> QED
      BY <3>1, <3>2, DeleteType DEF TypeOK, cache
  <2>4. ASSUME NEW verdict \in Finished, Judge(verdict)
        PROVE  mine' \in SyncObj /\ pc' \in Steps /\ queued' = queued
    BY <2>4 DEF Judge, Goto, TypeOK, SyncObj, Steps
  <2>5. LogVerdict \in Finished /\ ExitVerdict \in Finished
    BY DEF LogVerdict, ExitVerdict, Finished
  <2>6. CASE JudgeByLog
    BY <2>4, <2>5, <2>6 DEF JudgeByLog, TypeOK, world, cache
  <2>7. CASE JudgeWithoutManager
    BY <2>4, <2>5, <2>7 DEF JudgeWithoutManager, TypeOK, world, cache
  <2>8. CASE DeleteAllWorkers
    <3>1. /\ DeleteWorkers(Worker)
          /\ UNCHANGED <<obj, late, copied, faults, cache>>
      BY <2>8 DEF DeleteAllWorkers
    <3>2. /\ queued' \in BOOLEAN
          /\ pc' \in Steps
          /\ mine' \in SyncObj
          /\ ips' \subseteq Place
          /\ mgr' \in PodPhases
      <4>1. CASE Return(FALSE)
        BY <4>1, <1>1, ReturnType
      <4>2. CASE ~Return(FALSE)
        BY <2>8, <4>2 DEF DeleteAllWorkers, Goto, TypeOK, Steps
      <4> QED
        BY <4>1, <4>2
    <3> QED
      BY <3>1, <3>2, DeleteType DEF TypeOK, cache
  <2>9. CASE Expire
    <3>1. PICK again \in BOOLEAN : Return(again)
      BY <2>9 DEF Expire
    <3>2. obj' \in SyncObj
      BY <2>9 DEF Expire, TypeOK, SyncObj
    <3> QED
      BY <2>9, <3>1, <3>2, ReturnType DEF Expire, TypeOK, cache
  <2>10. CASE AwaitTTL
    <3>1. Return(TRUE) /\ UNCHANGED <<world, cache>>
      BY <2>10 DEF AwaitTTL
    <3> QED
      BY <3>1, ReturnType DEF TypeOK, world, cache
  <2> QED
    BY <1>9, <2>1, <2>2, <2>3, <2>6, <2>7, <2>8, <2>9, <2>10 DEF Follow
<1>10. CASE Fault
  <2>1. CASE CreateWorkersFails
    <3>1. pod' \in [Name -> Pod]
      BY <2>1, CreateType DEF CreateWorkersFails
    <3>2. /\ Return(TRUE)
          /\ faults' \in 0 .. MaxFaults
          /\ UNCHANGED <<obj, late, hosts, copied, cache>>
      BY <2>1, <1>2 DEF CreateWorkersFails, ReturnError
    <3> QED
      BY <3>1, <3>2, ReturnType DEF TypeOK, cache
  <2>2. CASE JudgeWithoutLog
    <3>1. mine' \in SyncObj /\ pc' \in Steps /\ queued' = queued
      BY <2>2 DEF JudgeWithoutLog, Judge, Goto, TypeOK, SyncObj, Steps, ExitVerdict, Finished
    <3> QED
      BY <2>2, <1>2, <3>1 DEF JudgeWithoutLog, TypeOK, cache
  <2>3. CASE CallFails
    <3>1. /\ Return(TRUE)
          /\ faults' \in 0 .. MaxFaults
          /\ UNCHANGED <<obj, late, pod, hosts, copied, cache>>
      BY <2>3, <1>2 DEF CallFails, ReturnError
    <3> QED
      BY <3>1, ReturnType DEF TypeOK, cache
  <2>4. CASE Crash
    <3>1. /\ Return(TRUE)
          /\ faults' \in 0 .. MaxFaults
          /\ seen' = obj /\ seenPod' = pod
          /\ UNCHANGED <<obj, late, pod, hosts, copied>>
      BY <2>4, <1>2 DEF Crash, ReturnError
    <3> QED
      BY <3>1, ReturnType DEF TypeOK
  <2>5. CASE \E n \in Name : LosePod(n)
    <3>1. PICK n \in Name : LosePod(n)
      BY <2>5
    <3>2. pod' \in [Name -> Pod]
      BY <3>1, <1>3, <1>4 DEF LosePod, PodPhases, Ended
    <3>3. hosts' \subseteq Place /\ faults' \in 0 .. MaxFaults
      BY <3>1, <1>2 DEF LosePod, TypeOK
    <3> QED
      BY <3>1, <3>2, <3>3 DEF LosePod, TypeOK, cache, reconcile
  <2> QED
    BY <1>10, <2>1, <2>2, <2>3, <2>4, <2>5 DEF Fault
<1>11. CASE User
  <2>1. CASE UserDeletes
    BY <2>1, <1>2 DEF UserDeletes, TypeOK, SyncObj, cache, reconcile
  <2>2. CASE UserRecreates
    <3>1. obj.gen + 1 \in Gens
      BY <2>2, BoundsAssumption DEF UserRecreates, TypeOK, SyncObj, Gens
    <3>2. NewSync(obj.gen + 1) \in SyncObj
      BY <3>1 DEF NewSync, SyncObj, Unfinished
    <3> QED
      BY <2>2, <3>2 DEF UserRecreates, TypeOK, cache, reconcile
  <2>3. CASE UserEdits
    BY <2>3, <1>2 DEF UserEdits, TypeOK, SyncObj, cache, reconcile
  <2> QED
    BY <1>11, <2>1, <2>2, <2>3 DEF User
<1>12. CASE Kubelet
  <2>1. ASSUME NEW n \in Name, PodStarts(n)
        PROVE  TypeOK'
    <3>1. pod' \in [Name -> Pod]
      BY <2>1, <1>3 DEF PodStarts, PodPhases
    <3> QED
      BY <2>1, <3>1 DEF PodStarts, TypeOK, cache, reconcile
  <2>2. ASSUME NEW w \in Worker, WorkerExits(w)
        PROVE  TypeOK'
    <3>1. pod' \in [Name -> Pod]
      BY <2>2, <1>3, <1>5 DEF WorkerExits, PodPhases, Ended
    <3> QED
      BY <2>2, <3>1 DEF WorkerExits, TypeOK, cache, reconcile
  <2>3. ASSUME NEW how \in Ended, ManagerEnds(how)
        PROVE  TypeOK'
    <3>1. pod' \in [Name -> Pod]
      BY <2>3, <1>3, <1>5 DEF ManagerEnds, PodPhases
    <3>2. copied' \subseteq Gens
      BY <2>3, <1>5 DEF ManagerEnds, TypeOK, Pod
    <3> QED
      BY <2>3, <3>1, <3>2 DEF ManagerEnds, TypeOK, cache, reconcile
  <2> QED
    BY <1>12, <2>1, <2>2, <2>3 DEF Kubelet
<1>13. CASE Cluster
  <2>1. CASE ObserveSync
    BY <2>1 DEF ObserveSync, TypeOK, world
  <2>2. ASSUME NEW n \in Name, ObservePod(n)
        PROVE  TypeOK'
    BY <2>2 DEF ObservePod, TypeOK, world
  <2>3. ASSUME NEW n \in Name, CollectPod(n)
        PROVE  TypeOK'
    <3>1. pod' \in [Name -> Pod] /\ hosts' \subseteq Place
      BY <2>3, <1>4 DEF CollectPod, TypeOK
    <3> QED
      BY <2>3, <3>1 DEF CollectPod, TypeOK, cache, reconcile
  <2>4. CASE DeadlinePasses
    BY <2>4 DEF DeadlinePasses, TypeOK, SyncObj, cache, reconcile
  <2> QED
    BY <1>13, <2>1, <2>2, <2>3, <2>4 DEF Cluster
<1>14. CASE UNCHANGED vars
  BY <1>14 DEF vars, world, cache, reconcile, TypeOK
<1> QED
  BY <1>6, <1>7, <1>8, <1>9, <1>10, <1>11, <1>12, <1>13, <1>14 DEF Next, Step

\* Every value the controller, the kubelet and the garbage collector reach has
\* its type, with no bound on the workers: the pods, the addresses handed to the
\* manager, and what a reconcile holds between its calls.
THEOREM TypeCorrect == Spec => []TypeOK
<1> QED
  BY InitType, TypeStep, PTL DEF Spec

-----------------------------------------------------------------------------
(* The promise *)

\* What is assumed: the time of the Preparing phase is not bounded, the user does
\* not edit the Sync, logs can be read, and no fault removes the manager.  Without
\* any one of the four the code breaks the promise, and TLC finds how.
Undisturbed ==
  /\ ~PreparingTimeout
  /\ "edit" \notin Kinds
  /\ "log" \notin Kinds
  /\ Manager \notin Losable

\* The promise is that of the first Sync, as long as it is there.
Live == obj.gen = 0 /\ obj.phase # "Gone"

Started == {"ready"} \cup Ended
Reached == {"Progressing"} \cup Finished
Verdict(phase) == IF phase = "succeeded" THEN "Completed" ELSE "Failed"

\* The Sync in the cache is at most one write of the controller old: the API
\* server accepts a write only if the cache had the version before it.
SeenInv ==
  /\ seen.gen = 0
  /\ seen.valid /\ obj.valid
  /\ obj.phase = "Pending" => seen.phase = "Pending"
  /\ obj.phase = "Preparing" => seen.phase \in {"Pending", "Preparing"}
  /\ obj.phase = "Progressing" => seen.phase \in {"Preparing", "Progressing"}
  /\ obj.phase \in Finished => seen.phase \in {"Progressing", obj.phase}

\* A manager that the cache shows as started is started, and one that it shows as
\* ended has ended in this way.
PodInv ==
  /\ pod[Manager].gen = 0
  /\ pod[Manager].phase # "none" => obj.phase # "Pending"
  /\ pod[Manager].phase = "succeeded" => 0 \in copied
  /\ seenPod[Manager].phase # "none" => pod[Manager].phase # "none"
  /\ seenPod[Manager].phase \in Started => pod[Manager].phase \in Started
  /\ seenPod[Manager].phase \in Ended => pod[Manager].phase = seenPod[Manager].phase

\* A phase is written after the cache has shown what it rests on.
ObjInv ==
  /\ obj.phase \in Reached => seenPod[Manager].phase \in Started
  /\ obj.phase \in Finished =>
       /\ seenPod[Manager].phase \in Ended
       /\ obj.phase = Verdict(seenPod[Manager].phase)

\* What the reconcile holds agrees with the Sync at the API server as far as the
\* step needs that is next.
MgrInv == mgr \in Ended => seenPod[Manager].phase = mgr
PreparingSteps ==
  {"listWorkers", "pollWorkers", "waitWorkers", "getManager", "pollManager", "waitManager"}
MineInv ==
  /\ mine.gen = 0
  /\ pc = "writePreparing" => mine.phase = "Preparing" /\ obj.phase \in {"Pending", "Preparing"}
  /\ pc \in PreparingSteps => obj.phase \in {"Preparing", "Progressing"}
  /\ pc = "writeProgressing" =>
       /\ mine.phase = "Progressing"
       /\ obj.phase \in {"Preparing", "Progressing"}
       /\ seenPod[Manager].phase \in Started
  /\ pc \in {"checkManager", "deleteSucceeded", "readLog"} =>
       mine.phase = "Progressing" /\ obj.phase \in Reached
  /\ pc \in {"deleteSucceeded", "readLog"} => (obj.phase \in Finished => mgr \in Ended)
  /\ pc = "readLog" => mgr \in Ended
  /\ pc # "writeVerdict"
  /\ pc = "writeStats" =>
       /\ obj.phase \in Reached
       /\ \/ mine.phase = "Progressing" /\ obj.phase = "Progressing"
          \/ /\ seenPod[Manager].phase \in Ended
             /\ mine.phase = Verdict(seenPod[Manager].phase)

IInv == Live => SeenInv /\ PodInv /\ ObjInv /\ MgrInv /\ MineInv

\* How a step changes the Sync.
LEMMA ObjSteps ==
  ASSUME TypeOK, [Next]_vars
  PROVE  \/ obj' = obj
         \/ (WritePreparing \/ WriteProgressing \/ WriteVerdict \/ WriteStats)
         \/ obj' = [obj EXCEPT !.phase = "Gone"] /\ copied' = copied
         \/ obj.phase = "Gone" /\ obj' = NewSync(obj.gen + 1) /\ copied' = copied
         \/ UserEdits
<1>1. CASE ReadSync
  BY <1>1 DEF ReadSync, SyncNotFound, RejectSpec, BeginPreparing, TimeOutPreparing,
    ResumePreparing, ResumeProgressing, ResumeFinished, Take, world
<1>2. CASE Write
  BY <1>2 DEF Write, WriteStatusFails, world
<1>3. CASE Prepare
  BY <1>3 DEF Prepare, CreateWorkers, WorkersReady, WorkersNotReady, CreateManager,
    CreateManagerFails, FindManager, ManagerReady, ManagerNotReady, WaitTimesOut, world
<1>4. CASE Follow
  BY <1>4 DEF Follow, ManagerMissing, CheckManager, DeleteSucceeded, JudgeByLog,
    JudgeWithoutManager, DeleteAllWorkers, Expire, AwaitTTL, world
<1>5. CASE Fault
  BY <1>5 DEF Fault, CreateWorkersFails, JudgeWithoutLog, CallFails, Crash, LosePod
<1>6. CASE User
  BY <1>6 DEF User, UserDeletes, UserRecreates
<1>7. CASE Kubelet
  BY <1>7 DEF Kubelet, PodStarts, WorkerExits, ManagerEnds
<1>8. CASE Cluster
  BY <1>8 DEF Cluster, ObserveSync, ObservePod, CollectPod, DeadlinePasses, world
<1>9. CASE UNCHANGED vars
  BY <1>9 DEF vars, world
<1> QED
  BY <1>1, <1>2, <1>3, <1>4, <1>5, <1>6, <1>7, <1>8, <1>9 DEF Next, Step

LEMMA WritesPhase ==
  ASSUME TypeOK, WriteStatus
  PROVE  /\ seen = obj /\ obj.phase # "Gone"
         /\ obj'.gen = obj.gen /\ obj'.valid = obj.valid /\ obj'.phase = mine.phase
         /\ UNCHANGED <<pod, seen, seenPod, copied>>
BY DEF WriteStatus, StatusAccepted, TypeOK, SyncObj, cache

\* A Sync that is gone, or another one, never becomes the first Sync again.
LEMMA LiveBefore == ASSUME TypeOK, [Next]_vars, Live' PROVE Live
<1>1. CASE obj' = obj
  BY <1>1 DEF Live
<1>2. CASE WritePreparing \/ WriteProgressing \/ WriteVerdict \/ WriteStats
  <2>1. WriteStatus
    BY <1>2 DEF WritePreparing, WriteProgressing, WriteVerdict, WriteStats
  <2> QED
    BY <2>1, WritesPhase DEF Live
<1>3. CASE obj' = [obj EXCEPT !.phase = "Gone"]
  BY <1>3 DEF Live, TypeOK, SyncObj
<1>4. CASE obj' = NewSync(obj.gen + 1)
  BY <1>4, BoundsAssumption DEF Live, NewSync, TypeOK, SyncObj, Gens
<1>5. CASE UserEdits
  BY <1>5 DEF UserEdits, Live, TypeOK, SyncObj
<1> QED
  BY <1>1, <1>2, <1>3, <1>4, <1>5, ObjSteps

LEMMA InitIInv == Init => IInv
<1> SUFFICES ASSUME Init
             PROVE  SeenInv /\ PodInv /\ ObjInv /\ MgrInv /\ MineInv
  BY DEF IInv
<1>1. /\ obj.gen = 0 /\ obj.phase = "Pending" /\ obj.valid
      /\ seen = obj /\ mine = obj /\ pc = "idle" /\ mgr = "none"
  BY DEF Init, NewSync
<1>2. pod[Manager] = NoPod /\ seenPod = pod
  BY DEF Init, Name
<1> QED
  BY <1>1, <1>2 DEF SeenInv, PodInv, ObjInv, MgrInv, MineInv, NoPod, Started, Ended,
    Reached, Finished, PreparingSteps

\* A step that leaves the Sync and its manager alone, in the cluster and the cache.
Alone == UNCHANGED <<obj, seen, seenPod, copied>> /\ pod'[Manager] = pod[Manager]

LEMMA AloneKeeps ==
  ASSUME SeenInv, PodInv, ObjInv, Alone
  PROVE  SeenInv' /\ PodInv' /\ ObjInv'
BY DEF Alone, SeenInv, PodInv, ObjInv, Verdict

LEMMA ReturnKeeps ==
  ASSUME NEW again, Return(again)
  PROVE  MgrInv' /\ MineInv'
BY DEF Return, MgrInv, MineInv, NewSync, Ended, PreparingSteps

\* What happens around a reconcile does not move it.
LEMMA ReconcileKeeps ==
  ASSUME MgrInv, MineInv, UNCHANGED <<obj, reconcile>>,
         seenPod[Manager].phase \in Started => seenPod'[Manager].phase \in Started,
         seenPod[Manager].phase \in Ended => seenPod'[Manager].phase = seenPod[Manager].phase
  PROVE  MgrInv' /\ MineInv'
<1>1. pc' = pc /\ mine' = mine /\ mgr' = mgr /\ obj' = obj
  BY DEF reconcile
<1>2. MgrInv'
  BY <1>1 DEF MgrInv
<1>3. MineInv'
  BY <1>1 DEF MineInv, Verdict
<1> QED
  BY <1>2, <1>3

LEMMA DeleteWorkersAlone ==
  ASSUME TypeOK, NEW names \in SUBSET Worker, DeleteWorkers(names)
  PROVE  pod'[Manager] = pod[Manager]
BY NamesAssumption DEF DeleteWorkers, Name

LEMMA CreateWorkersAlone ==
  ASSUME TypeOK, NEW names \in SUBSET Worker, CreatePods(names)
  PROVE  pod'[Manager] = pod[Manager]
BY NamesAssumption DEF CreatePods, Name

LEMMA ReadStep ==
  ASSUME Undisturbed, TypeOK, Live, IInv, ReadSync
  PROVE  SeenInv' /\ PodInv' /\ ObjInv' /\ MgrInv' /\ MineInv'
<1>1. SeenInv /\ PodInv /\ ObjInv /\ MgrInv /\ MineInv
  BY DEF IInv
<1>2. Alone
  BY DEF ReadSync, SyncNotFound, RejectSpec, BeginPreparing, TimeOutPreparing,
    ResumePreparing, ResumeProgressing, ResumeFinished, Take, world, cache, Alone
<1>3. mgr' = mgr /\ obj' = obj /\ seenPod' = seenPod
  BY DEF ReadSync, SyncNotFound, RejectSpec, BeginPreparing, TimeOutPreparing,
    ResumePreparing, ResumeProgressing, ResumeFinished, Take, world, cache
<1>4. MgrInv'
  BY <1>1, <1>3 DEF MgrInv
<1>5. ASSUME NEW phase, NEW step, Take(phase, step)
      PROVE  pc' = step /\ mine'.phase = phase /\ mine'.gen = 0
  BY <1>1, <1>5 DEF Take, TypeOK, SyncObj, SeenInv
<1>6. obj.phase \in Unfinished \cup Finished
  BY DEF Live, TypeOK, SyncObj
<1>7. MineInv'
  <2>1. CASE SyncNotFound
    BY <2>1, <1>1, <1>3 DEF SyncNotFound, MineInv, PreparingSteps
  <2>2. CASE RejectSpec
    BY <2>2, <1>1 DEF RejectSpec, SeenInv
  <2>3. CASE BeginPreparing
    BY <2>3, <1>1, <1>3, <1>5, <1>6
      DEF BeginPreparing, SeenInv, MineInv, PreparingSteps, Unfinished, Finished
  <2>4. CASE TimeOutPreparing
    BY <2>4 DEF TimeOutPreparing, TimedOut, Undisturbed
  <2>5. CASE ResumePreparing
    BY <2>5, <1>1, <1>3, <1>5, <1>6
      DEF ResumePreparing, SeenInv, MineInv, PreparingSteps, Unfinished, Finished
  <2>6. CASE ResumeProgressing
    BY <2>6, <1>1, <1>3, <1>5, <1>6
      DEF ResumeProgressing, SeenInv, MineInv, PreparingSteps, Unfinished, Finished, Reached
  <2>7. CASE ResumeFinished
    BY <2>7, <1>1, <1>3, <1>5 DEF ResumeFinished, MineInv, PreparingSteps
  <2> QED
    BY <2>1, <2>2, <2>3, <2>4, <2>5, <2>6, <2>7 DEF ReadSync
<1> QED
  BY <1>1, <1>2, <1>4, <1>7, AloneKeeps

LEMMA WriteStep ==
  ASSUME TypeOK, Live, IInv, Write
  PROVE  SeenInv' /\ PodInv' /\ ObjInv' /\ MgrInv' /\ MineInv'
<1>1. SeenInv /\ PodInv /\ ObjInv /\ MgrInv /\ MineInv
  BY DEF IInv
<1>2. CASE WritePreparing
  <2>1. WriteStatus /\ mine.phase = "Preparing" /\ obj.phase \in {"Pending", "Preparing"}
    BY <1>1, <1>2 DEF WritePreparing, MineInv
  <2>2. SeenInv' /\ PodInv' /\ ObjInv'
    BY <1>1, <2>1, WritesPhase DEF SeenInv, PodInv, ObjInv, Reached, Finished
  <2>3. pc' = "listWorkers" /\ mine' = mine /\ mgr' = mgr
    BY <1>2 DEF WritePreparing, Goto
  <2>4. MgrInv' /\ MineInv'
    BY <1>1, <2>1, <2>3, WritesPhase DEF MgrInv, MineInv, PreparingSteps
  <2> QED
    BY <2>2, <2>4
<1>3. CASE WriteProgressing
  <2>1. /\ WriteStatus /\ mine.phase = "Progressing"
        /\ obj.phase \in {"Preparing", "Progressing"}
        /\ seenPod[Manager].phase \in Started
    BY <1>1, <1>3 DEF WriteProgressing, MineInv
  <2>2. SeenInv' /\ PodInv' /\ ObjInv'
    BY <1>1, <2>1, WritesPhase DEF SeenInv, PodInv, ObjInv, Reached, Finished
  <2>3. pc' = "checkManager" /\ mine' = mine /\ mgr' = mgr
    BY <1>3 DEF WriteProgressing, Goto
  <2>4. MgrInv' /\ MineInv'
    BY <1>1, <2>1, <2>3, WritesPhase DEF MgrInv, MineInv, PreparingSteps, Reached
  <2> QED
    BY <2>2, <2>4
<1>4. CASE WriteVerdict
  BY <1>1, <1>4 DEF WriteVerdict, MineInv
<1>5. CASE WriteStats
  <2>1. /\ WriteStatus
        /\ obj.phase \in Reached
        /\ \/ mine.phase = "Progressing" /\ obj.phase = "Progressing"
           \/ /\ seenPod[Manager].phase \in Ended
              /\ mine.phase = Verdict(seenPod[Manager].phase)
    BY <1>1, <1>5 DEF WriteStats, MineInv
  <2>2. SeenInv'
    BY <1>1, <2>1, WritesPhase DEF SeenInv, ObjInv, Reached, Finished, Verdict
  <2>3. PodInv' /\ ObjInv'
    BY <1>1, <2>1, WritesPhase DEF PodInv, ObjInv, Reached, Finished, Verdict, Started
  <2>4. Return(TRUE)
    BY <1>5 DEF WriteStats
  <2> QED
    BY <2>2, <2>3, <2>4, ReturnKeeps
<1>6. CASE WriteStatusFails
  <2>1. Alone /\ Return(TRUE)
    BY <1>6 DEF WriteStatusFails, ReturnError, Alone, world, cache
  <2> QED
    BY <1>1, <2>1, AloneKeeps, ReturnKeeps
<1> QED
  BY <1>2, <1>3, <1>4, <1>5, <1>6 DEF Write

LEMMA PrepareStep ==
  ASSUME TypeOK, Live, IInv, Prepare
  PROVE  SeenInv' /\ PodInv' /\ ObjInv' /\ MgrInv' /\ MineInv'
<1>1. SeenInv /\ PodInv /\ ObjInv /\ MgrInv /\ MineInv
  BY DEF IInv
<1>2. ASSUME pc \in PreparingSteps, pc' \in PreparingSteps,
             UNCHANGED <<obj, seenPod, mine, mgr>>
      PROVE  MgrInv' /\ MineInv'
  BY <1>1, <1>2 DEF MgrInv, MineInv, PreparingSteps
<1>3. CASE CreateWorkers
  <2>1. Missing \in SUBSET Worker
    BY DEF Missing
  <2>2. Alone
    BY <1>3, <2>1, CreateWorkersAlone DEF CreateWorkers, Alone, cache
  <2> QED
    BY <1>1, <1>2, <1>3, <2>2, AloneKeeps DEF CreateWorkers, Goto, cache, PreparingSteps
<1>4. CASE WorkersReady \/ WorkersNotReady \/ FindManager \/ ManagerNotReady
  <2>1. Alone
    BY <1>4 DEF WorkersReady, WorkersNotReady, FindManager, ManagerNotReady, Alone, world, cache
  <2>2. pc \in PreparingSteps /\ pc' \in PreparingSteps /\ UNCHANGED <<obj, seenPod, mine, mgr>>
    BY <1>4 DEF WorkersReady, WorkersNotReady, FindManager, ManagerNotReady, Goto,
      PreparingSteps, world, cache
  <2> QED
    BY <1>1, <1>2, <2>1, <2>2, AloneKeeps
<1>5. CASE CreateManager
  <2>1. pod[Manager].phase = "none" /\ pod'[Manager] = StartingPod
    BY <1>5 DEF CreateManager, CreatePods, Name
  <2>2. StartingPod.phase = "starting" /\ StartingPod.gen = 0
    BY <1>1 DEF StartingPod, MineInv
  <2>3. pc = "getManager" /\ pc' = "pollManager" /\ UNCHANGED <<obj, seen, seenPod, copied, mine, mgr>>
    BY <1>5 DEF CreateManager, Goto, cache
  <2>4. obj.phase # "Pending"
    BY <1>1, <2>3 DEF MineInv, PreparingSteps
  <2>5. seenPod[Manager].phase \notin Started
    BY <1>1, <2>1 DEF PodInv, Started, Ended
  <2>6. SeenInv' /\ PodInv' /\ ObjInv'
    BY <1>1, <2>1, <2>2, <2>3, <2>4, <2>5 DEF SeenInv, PodInv, ObjInv, Started, Ended
  <2> QED
    BY <1>2, <2>3, <2>6 DEF PreparingSteps
<1>6. CASE CreateManagerFails \/ WaitTimesOut
  <2>1. Alone /\ Return(TRUE)
    BY <1>6 DEF CreateManagerFails, WaitTimesOut, ReturnError, Alone, world, cache
  <2> QED
    BY <1>1, <2>1, AloneKeeps, ReturnKeeps
<1>7. CASE ManagerReady
  <2>1. Alone
    BY <1>7 DEF ManagerReady, Alone, world, cache
  <2>2. /\ pc' = "writeProgressing" /\ mine'.phase = "Progressing" /\ mine'.gen = mine.gen
        /\ seenPod[Manager].phase \in Started
        /\ obj.phase \in {"Preparing", "Progressing"}
    BY <1>1, <1>7 DEF ManagerReady, ManagerStarted, Goto, MineInv, PreparingSteps, Started,
      TypeOK, SyncObj
  <2>3. UNCHANGED <<obj, seenPod, mgr>>
    BY <1>7 DEF ManagerReady, world, cache
  <2>4. MgrInv' /\ MineInv'
    BY <1>1, <2>2, <2>3 DEF MgrInv, MineInv, PreparingSteps
  <2> QED
    BY <1>1, <2>1, <2>4, AloneKeeps
<1> QED
  BY <1>3, <1>4, <1>5, <1>6, <1>7 DEF Prepare

LEMMA FollowStep ==
  ASSUME TypeOK, Live, IInv, Follow, Live'
  PROVE  SeenInv' /\ PodInv' /\ ObjInv' /\ MgrInv' /\ MineInv'
<1>1. SeenInv /\ PodInv /\ ObjInv /\ MgrInv /\ MineInv
  BY DEF IInv
<1>2. CASE ManagerMissing
  BY <1>1, <1>2 DEF ManagerMissing, Exists, MineInv, ObjInv, Started, Ended
<1>3. CASE CheckManager
  <2>1. Alone
    BY <1>3 DEF CheckManager, Alone, world, cache
  <2>2. /\ pc = "checkManager" /\ pc' = "deleteSucceeded" /\ mgr' = seenPod[Manager].phase
        /\ UNCHANGED <<obj, seenPod, mine>>
    BY <1>3 DEF CheckManager, Goto, world, cache
  <2>3. MgrInv' /\ MineInv'
    BY <1>1, <2>2 DEF MgrInv, MineInv, ObjInv, PreparingSteps
  <2> QED
    BY <1>1, <2>1, <2>3, AloneKeeps
<1>4. CASE DeleteSucceeded
  <2>1. SucceededWorkers \in SUBSET Worker
    BY DEF SucceededWorkers
  <2>2. Alone
    BY <1>4, <2>1, DeleteWorkersAlone DEF DeleteSucceeded, Alone, cache
  <2>3. /\ pc = "deleteSucceeded" /\ mine.phase = "Progressing" /\ obj.phase \in Reached
        /\ obj.phase \in Finished => mgr \in Ended
    BY <1>1, <1>4 DEF DeleteSucceeded, MineInv
  <2>4. obj' = obj /\ seenPod' = seenPod
    BY <1>4 DEF DeleteSucceeded, cache
  <2>5. CASE Return(TRUE)
    BY <1>1, <2>2, <2>5, AloneKeeps, ReturnKeeps
  <2>6. CASE mgr \in Ended /\ Goto("readLog") /\ UNCHANGED <<mine, ips, mgr>>
    <3>1. MgrInv' /\ MineInv'
      BY <1>1, <2>3, <2>4, <2>6 DEF MgrInv, MineInv, PreparingSteps, Goto
    <3> QED
      BY <1>1, <2>2, <3>1, AloneKeeps
  <2>7. CASE mgr = "ready" /\ Goto("writeStats") /\ UNCHANGED <<mine, ips, mgr>>
    <3>1. obj.phase = "Progressing"
      BY <2>3, <2>7 DEF Reached, Ended
    <3>2. MgrInv' /\ MineInv'
      BY <1>1, <2>3, <2>4, <2>7, <3>1 DEF MgrInv, MineInv, PreparingSteps, Goto
    <3> QED
      BY <1>1, <2>2, <3>2, AloneKeeps
  <2> QED
    BY <1>4, <2>5, <2>6, <2>7 DEF DeleteSucceeded
<1>5. CASE JudgeByLog
  <2>1. Alone
    BY <1>5 DEF JudgeByLog, Alone, world, cache
  <2>2. pc = "readLog" /\ UNCHANGED <<obj, seenPod, mgr>>
    BY <1>5 DEF JudgeByLog, Judge, world, cache
  <2>3. obj.phase \in Reached /\ mgr \in Ended /\ seenPod[Manager].phase = mgr /\ pod[Manager].phase = mgr
    BY <1>1, <2>2 DEF MineInv, MgrInv, PodInv
  <2>4. pc' = "writeStats" /\ mine'.phase = Verdict(mgr) /\ mine'.gen = mine.gen
    BY <1>5, <2>3 DEF JudgeByLog, Judge, LogVerdict, ExitVerdict, Verdict, Goto, TypeOK, SyncObj, Ended
  <2>5. MgrInv' /\ MineInv'
    BY <1>1, <2>2, <2>3, <2>4 DEF MgrInv, MineInv, PreparingSteps, Verdict
  <2> QED
    BY <1>1, <2>1, <2>5, AloneKeeps
<1>6. CASE JudgeWithoutManager
  BY <1>1, <1>6 DEF JudgeWithoutManager, Judge, MineInv, MgrInv, PodInv
<1>7. CASE DeleteAllWorkers
  <2>1. Alone
    BY <1>7, DeleteWorkersAlone DEF DeleteAllWorkers, Alone, cache
  <2>2. CASE Return(FALSE)
    BY <1>1, <2>1, <2>2, AloneKeeps, ReturnKeeps
  <2>3. CASE pc' = "checkTTL" /\ mine' = mine /\ mgr' = mgr
    <3>1. MgrInv' /\ MineInv'
      BY <1>1, <1>7, <2>3 DEF DeleteAllWorkers, MgrInv, MineInv, PreparingSteps, cache
    <3> QED
      BY <1>1, <2>1, <3>1, AloneKeeps
  <2> QED
    BY <1>7, <2>2, <2>3 DEF DeleteAllWorkers, Goto
<1>8. CASE Expire
  BY <1>8 DEF Expire, Live, TypeOK, SyncObj
<1>9. CASE AwaitTTL
  <2>1. Alone /\ Return(TRUE)
    BY <1>9 DEF AwaitTTL, Alone, world, cache
  <2> QED
    BY <1>1, <2>1, AloneKeeps, ReturnKeeps
<1> QED
  BY <1>2, <1>3, <1>4, <1>5, <1>6, <1>7, <1>8, <1>9 DEF Follow

LEMMA FaultStep ==
  ASSUME Undisturbed, TypeOK, Live, IInv, Fault
  PROVE  SeenInv' /\ PodInv' /\ ObjInv' /\ MgrInv' /\ MineInv'
<1>1. SeenInv /\ PodInv /\ ObjInv /\ MgrInv /\ MineInv
  BY DEF IInv
<1>2. CASE CreateWorkersFails
  <2>1. PICK done \in SUBSET Missing : CreatePods(done)
    BY <1>2 DEF CreateWorkersFails
  <2>2. done \in SUBSET Worker
    BY <2>1 DEF Missing
  <2>3. pod'[Manager] = pod[Manager]
    BY <2>1, <2>2, CreateWorkersAlone
  <2>4. Alone /\ Return(TRUE)
    BY <1>2, <2>3 DEF CreateWorkersFails, ReturnError, Alone, cache
  <2> QED
    BY <1>1, <2>4, AloneKeeps, ReturnKeeps
<1>3. CASE JudgeWithoutLog
  BY <1>3 DEF JudgeWithoutLog, Occurs, Undisturbed
<1>4. CASE CallFails
  <2>1. Alone /\ Return(TRUE)
    BY <1>4 DEF CallFails, ReturnError, Alone, cache
  <2> QED
    BY <1>1, <2>1, AloneKeeps, ReturnKeeps
<1>5. CASE Crash
  <2>1. /\ Return(TRUE)
        /\ seen' = obj /\ seenPod' = pod
        /\ UNCHANGED <<obj, pod, copied>>
    BY <1>5 DEF Crash, ReturnError
  <2>2. SeenInv'
    BY <1>1, <2>1 DEF SeenInv, Live
  <2>3. PodInv' /\ ObjInv'
    BY <1>1, <2>1 DEF PodInv, ObjInv, Verdict
  <2> QED
    BY <2>1, <2>2, <2>3, ReturnKeeps
<1>6. CASE \E n \in Name : LosePod(n)
  <2>1. PICK n \in Name : LosePod(n)
    BY <1>6
  <2>2. n # Manager
    BY <2>1 DEF LosePod, Undisturbed
  <2>3. pod'[Manager] = pod[Manager]
    BY <2>1, <2>2 DEF LosePod, SetPod, TypeOK, Name
  <2>4. Alone
    BY <2>1, <2>3 DEF LosePod, Alone, cache
  <2>5. MgrInv' /\ MineInv'
    BY <1>1, <2>1, ReconcileKeeps DEF LosePod, cache
  <2> QED
    BY <1>1, <2>4, <2>5, AloneKeeps
<1> QED
  BY <1>2, <1>3, <1>4, <1>5, <1>6 DEF Fault

LEMMA UserStep ==
  ASSUME Undisturbed, TypeOK, Live, User, Live'
  PROVE  FALSE
<1>1. ~UserDeletes
  BY DEF UserDeletes, Live, TypeOK, SyncObj
<1>2. ~UserRecreates
  BY DEF UserRecreates, Live
<1>3. ~UserEdits
  BY DEF UserEdits, Occurs, Undisturbed
<1> QED
  BY <1>1, <1>2, <1>3 DEF User

\* A step that changes the pod of the manager, or what the cache shows of it.
LEMMA PodsStep ==
  ASSUME TypeOK, Live, IInv, Kubelet \/ Cluster
  PROVE  SeenInv' /\ PodInv' /\ ObjInv' /\ MgrInv' /\ MineInv'
<1>1. SeenInv /\ PodInv /\ ObjInv /\ MgrInv /\ MineInv
  BY DEF IInv
<1>2. ASSUME Alone, UNCHANGED reconcile
      PROVE  SeenInv' /\ PodInv' /\ ObjInv' /\ MgrInv' /\ MineInv'
  BY <1>1, <1>2, AloneKeeps, ReconcileKeeps DEF Alone
<1>3. ASSUME NEW n \in Name, PodStarts(n)
      PROVE  SeenInv' /\ PodInv' /\ ObjInv' /\ MgrInv' /\ MineInv'
  <2>1. CASE n # Manager
    BY <1>2, <1>3, <2>1 DEF PodStarts, SetPod, Alone, TypeOK, Name, cache
  <2>2. CASE n = Manager
    <3>1. /\ pod[Manager].phase = "starting"
          /\ pod'[Manager].phase = "ready" /\ pod'[Manager].gen = pod[Manager].gen
      BY <1>3, <2>2 DEF PodStarts, SetPod, TypeOK, Pod, Name
    <3>2. UNCHANGED <<obj, seen, seenPod, copied, reconcile>>
      BY <1>3 DEF PodStarts, cache
    <3>3. SeenInv' /\ PodInv' /\ ObjInv'
      BY <1>1, <3>1, <3>2 DEF SeenInv, PodInv, ObjInv, Started, Ended, Verdict
    <3> QED
      BY <1>1, <3>2, <3>3, ReconcileKeeps
  <2> QED
    BY <2>1, <2>2
<1>4. ASSUME NEW w \in Worker, WorkerExits(w)
      PROVE  SeenInv' /\ PodInv' /\ ObjInv' /\ MgrInv' /\ MineInv'
  BY <1>2, <1>4, NamesAssumption DEF WorkerExits, SetPod, Alone, TypeOK, Name, cache
<1>5. ASSUME NEW how \in Ended, ManagerEnds(how)
      PROVE  SeenInv' /\ PodInv' /\ ObjInv' /\ MgrInv' /\ MineInv'
  <2>1. /\ pod[Manager].phase = "ready"
        /\ pod'[Manager].phase = how /\ pod'[Manager].gen = pod[Manager].gen
    BY <1>5 DEF ManagerEnds, SetPod, TypeOK, Pod, Name
  <2>2. UNCHANGED <<obj, seen, seenPod, reconcile>>
    BY <1>5 DEF ManagerEnds, cache
  <2>3. how = "succeeded" => 0 \in copied'
    BY <1>1, <1>5 DEF ManagerEnds, PodInv
  <2>4. seenPod[Manager].phase \notin Ended
    BY <1>1, <2>1 DEF PodInv, Ended
  <2>5. SeenInv' /\ PodInv' /\ ObjInv'
    BY <1>1, <2>1, <2>2, <2>3, <2>4 DEF SeenInv, PodInv, ObjInv, Started, Ended, Verdict
  <2> QED
    BY <1>1, <2>2, <2>5, ReconcileKeeps
<1>6. CASE ObserveSync
  <2>1. seen' = obj /\ UNCHANGED <<obj, pod, seenPod, copied, pc, mine, mgr>>
    BY <1>6 DEF ObserveSync, world
  <2>2. SeenInv' /\ PodInv' /\ ObjInv'
    BY <1>1, <2>1 DEF SeenInv, PodInv, ObjInv, Verdict, Live
  <2>3. MgrInv' /\ MineInv'
    BY <1>1, <2>1 DEF MgrInv, MineInv, Verdict
  <2> QED
    BY <2>2, <2>3
<1>7. ASSUME NEW n \in Name, ObservePod(n)
      PROVE  SeenInv' /\ PodInv' /\ ObjInv' /\ MgrInv' /\ MineInv'
  <2>1. seenPod'[Manager] \in {seenPod[Manager], pod[Manager]}
    BY <1>7 DEF ObservePod, TypeOK, Name
  <2>2. UNCHANGED <<obj, seen, pod, copied, pc, mine, mgr>>
    BY <1>7 DEF ObservePod, world
  <2>3. SeenInv' /\ PodInv' /\ ObjInv'
    BY <1>1, <2>1, <2>2 DEF SeenInv, PodInv, ObjInv, Verdict
  <2>4. MgrInv' /\ MineInv'
    BY <1>1, <2>1, <2>2 DEF MgrInv, MineInv, PodInv, Verdict
  <2> QED
    BY <2>3, <2>4
<1>8. ASSUME NEW n \in Name, CollectPod(n)
      PROVE  SeenInv' /\ PodInv' /\ ObjInv' /\ MgrInv' /\ MineInv'
  <2>1. n # Manager
    BY <1>1, <1>8 DEF CollectPod, Orphan, PodInv, Live
  <2> QED
    BY <1>2, <1>8, <2>1 DEF CollectPod, Alone, TypeOK, Name, cache
<1>9. CASE DeadlinePasses
  BY <1>2, <1>9 DEF DeadlinePasses, Alone, cache
<1> QED
  BY <1>3, <1>4, <1>5, <1>6, <1>7, <1>8, <1>9 DEF Kubelet, Cluster

LEMMA StepIInv == Undisturbed /\ TypeOK /\ IInv /\ [Next]_vars => IInv'
<1> SUFFICES ASSUME Undisturbed, TypeOK, IInv, [Next]_vars, Live'
             PROVE  SeenInv' /\ PodInv' /\ ObjInv' /\ MgrInv' /\ MineInv'
  BY DEF IInv
<1>1. Live
  BY LiveBefore
<1>2. CASE UNCHANGED vars
  <2>1. Alone /\ UNCHANGED reconcile
    BY <1>2 DEF vars, world, cache, Alone
  <2>2. SeenInv /\ PodInv /\ ObjInv /\ MgrInv /\ MineInv
    BY <1>1 DEF IInv
  <2> QED
    BY <2>1, <2>2, AloneKeeps, ReconcileKeeps DEF Alone
<1> QED
  BY <1>1, <1>2, ReadStep, WriteStep, PrepareStep, FollowStep, FaultStep, UserStep, PodsStep
    DEF Next, Step

-----------------------------------------------------------------------------
(* The refinement *)

PhaseBar == IF obj.gen = 0 THEN obj.phase ELSE "Gone"

\* copied only grows, and only by what a manager has copied.
LEMMA CopiedSteps ==
  ASSUME [Next]_vars
  PROVE  copied' = copied \/ \E how \in Ended : ManagerEnds(how)
<1>1. CASE ReadSync
  BY <1>1 DEF ReadSync, SyncNotFound, RejectSpec, BeginPreparing, TimeOutPreparing,
    ResumePreparing, ResumeProgressing, ResumeFinished, Take, world
<1>2. CASE Write
  BY <1>2 DEF Write, WritePreparing, WriteProgressing, WriteVerdict, WriteStats, WriteStatus,
    WriteStatusFails, world
<1>3. CASE Prepare
  BY <1>3 DEF Prepare, CreateWorkers, WorkersReady, WorkersNotReady, CreateManager,
    CreateManagerFails, FindManager, ManagerReady, ManagerNotReady, WaitTimesOut, world
<1>4. CASE Follow
  BY <1>4 DEF Follow, ManagerMissing, CheckManager, DeleteSucceeded, JudgeByLog,
    JudgeWithoutManager, DeleteAllWorkers, Expire, AwaitTTL, world
<1>5. CASE Fault
  BY <1>5 DEF Fault, CreateWorkersFails, JudgeWithoutLog, CallFails, Crash, LosePod
<1>6. CASE User
  BY <1>6 DEF User, UserDeletes, UserRecreates, UserEdits
<1>7. CASE Kubelet
  BY <1>7 DEF Kubelet, PodStarts, WorkerExits
<1>8. CASE Cluster
  BY <1>8 DEF Cluster, ObserveSync, ObservePod, CollectPod, DeadlinePasses, world
<1>9. CASE UNCHANGED vars
  BY <1>9 DEF vars, world
<1> QED
  BY <1>1, <1>2, <1>3, <1>4, <1>5, <1>6, <1>7, <1>8, <1>9 DEF Next, Step

LEMMA RefineInit == Init => Promise!Init
BY DEF Init, Promise!Init, NewSync

LEMMA RefineWrite ==
  ASSUME TypeOK, IInv, WritePreparing \/ WriteProgressing \/ WriteVerdict \/ WriteStats
  PROVE  [Promise!Next]_(Promise!vars)
<1>1. WriteStatus
  BY DEF WritePreparing, WriteProgressing, WriteVerdict, WriteStats
<1>2. /\ seen = obj /\ obj.phase # "Gone"
      /\ obj'.gen = obj.gen /\ obj'.phase = mine.phase /\ copied' = copied
  BY <1>1, WritesPhase
<1>3. (0 \in copied') <=> (0 \in copied)
  BY <1>2
<1>4. CASE obj.gen # 0
  <2>1. UNCHANGED Promise!vars
    BY <1>2, <1>4 DEF Promise!vars
  <2> QED
    BY <2>1
<1>5. CASE obj.gen = 0
  <2>1. PodInv /\ ObjInv /\ MineInv
    BY <1>2, <1>5 DEF IInv, Live
  <2>2. ASSUME obj.phase = mine.phase
        PROVE  UNCHANGED Promise!vars
    BY <1>2, <2>2 DEF Promise!vars
  <2>3. CASE WritePreparing
    <3>1. mine.phase = "Preparing" /\ obj.phase \in {"Pending", "Preparing"}
      BY <2>1, <2>3 DEF WritePreparing, MineInv
    <3>2. CASE obj.phase = "Pending"
      <4>1. Promise!Prepare
        BY <1>2, <1>5, <3>1, <3>2 DEF Promise!Prepare
      <4> QED
        BY <4>1 DEF Promise!Next
    <3> QED
      BY <2>2, <3>1, <3>2
  <2>4. CASE WriteProgressing
    <3>1. mine.phase = "Progressing" /\ obj.phase \in {"Preparing", "Progressing"}
      BY <2>1, <2>4 DEF WriteProgressing, MineInv
    <3>2. CASE obj.phase = "Preparing"
      <4>1. Promise!Progress
        BY <1>2, <1>5, <3>1, <3>2 DEF Promise!Progress
      <4> QED
        BY <4>1 DEF Promise!Next
    <3> QED
      BY <2>2, <3>1, <3>2
  <2>5. CASE WriteVerdict
    BY <2>1, <2>5 DEF WriteVerdict, MineInv
  <2>6. CASE WriteStats
    <3>1. /\ obj.phase \in Reached
          /\ \/ mine.phase = "Progressing" /\ obj.phase = "Progressing"
             \/ /\ seenPod[Manager].phase \in Ended
                /\ mine.phase = Verdict(seenPod[Manager].phase)
      BY <2>1, <2>6 DEF WriteStats, MineInv
    <3>2. CASE obj.phase = mine.phase
      BY <2>2, <3>2
    <3>3. CASE obj.phase # mine.phase
      <4>1. /\ obj.phase = "Progressing"
            /\ seenPod[Manager].phase \in Ended
            /\ mine.phase = Verdict(seenPod[Manager].phase)
        BY <2>1, <3>1, <3>3 DEF ObjInv, Reached
      <4>2. CASE seenPod[Manager].phase = "succeeded"
        <5>1. 0 \in copied
          BY <2>1, <4>2 DEF PodInv, Ended
        <5>2. Promise!Complete
          BY <1>2, <1>5, <4>1, <4>2, <5>1 DEF Promise!Complete, Verdict
        <5> QED
          BY <5>2 DEF Promise!Next
      <4>3. CASE seenPod[Manager].phase # "succeeded"
        <5>1. Promise!Fail
          BY <1>2, <1>5, <4>1, <4>3 DEF Promise!Fail, Promise!Unfinished, Verdict
        <5> QED
          BY <5>1 DEF Promise!Next
      <4> QED
        BY <4>2, <4>3
    <3> QED
      BY <3>2, <3>3
  <2> QED
    BY <2>3, <2>4, <2>5, <2>6
<1> QED
  BY <1>4, <1>5

LEMMA RefineCopy ==
  ASSUME TypeOK, IInv, NEW how \in Ended, ManagerEnds(how)
  PROVE  [Promise!Next]_(Promise!vars)
<1>1. obj' = obj /\ pod[Manager].phase = "ready"
  BY DEF ManagerEnds
<1>2. 0 \in copied => 0 \in copied'
  BY DEF ManagerEnds
<1>3. CASE (0 \in copied) <=> (0 \in copied')
  <2>1. UNCHANGED Promise!vars
    BY <1>1, <1>3 DEF Promise!vars
  <2> QED
    BY <2>1
<1>4. CASE 0 \notin copied /\ 0 \in copied'
  <2>1. PhaseBar # "Pending"
    BY <1>1 DEF PhaseBar, IInv, Live, PodInv
  <2>2. Promise!Copy
    BY <1>1, <1>4, <2>1 DEF Promise!Copy, PhaseBar
  <2> QED
    BY <2>2 DEF Promise!Next
<1> QED
  BY <1>2, <1>3, <1>4

LEMMA RefineNext ==
  Undisturbed /\ TypeOK /\ IInv /\ [Next]_vars => [Promise!Next]_(Promise!vars)
<1> SUFFICES ASSUME Undisturbed, TypeOK, IInv, [Next]_vars
             PROVE  [Promise!Next]_(Promise!vars)
  OBVIOUS
<1>1. CASE \E how \in Ended : ManagerEnds(how)
  BY <1>1, RefineCopy
<1>2. CASE WritePreparing \/ WriteProgressing \/ WriteVerdict \/ WriteStats
  BY <1>2, RefineWrite
<1>3. CASE obj' = obj /\ copied' = copied
  <2>1. UNCHANGED Promise!vars
    BY <1>3 DEF Promise!vars
  <2> QED
    BY <2>1
<1>4. CASE obj' = [obj EXCEPT !.phase = "Gone"] /\ copied' = copied
  <2>1. obj'.phase = "Gone" /\ obj'.gen = obj.gen
    BY <1>4 DEF TypeOK, SyncObj
  <2>2. CASE PhaseBar = "Gone"
    <3>1. UNCHANGED Promise!vars
      BY <1>4, <2>1, <2>2 DEF Promise!vars, PhaseBar
    <3> QED
      BY <3>1
  <2>3. CASE PhaseBar # "Gone"
    <3>1. Promise!Delete
      BY <1>4, <2>1, <2>3 DEF Promise!Delete, PhaseBar
    <3> QED
      BY <3>1 DEF Promise!Next
  <2> QED
    BY <2>2, <2>3
<1>5. CASE obj.phase = "Gone" /\ obj' = NewSync(obj.gen + 1) /\ copied' = copied
  <2>1. obj'.gen # 0
    BY <1>5, BoundsAssumption DEF NewSync, TypeOK, SyncObj, Gens
  <2>2. UNCHANGED Promise!vars
    BY <1>5, <2>1 DEF Promise!vars
  <2> QED
    BY <2>2
<1>6. CASE UserEdits
  BY <1>6 DEF UserEdits, Occurs, Undisturbed
<1> QED
  BY <1>1, <1>2, <1>3, <1>4, <1>5, <1>6, ObjSteps, CopiedSteps

\* The Sync controller keeps the promise of a Sync with any number of workers, API
\* errors, crashes, deletions and re-creations, and whatever happens to the workers:
\* phases of old reads and repeated reconciles never move a Sync back, a verdict is
\* not changed, and Completed is written for a manager only that copied everything.
THEOREM PromiseKept == ASSUME Undisturbed PROVE Spec => KeepsPromise
<1>1. Spec => [](TypeOK /\ IInv)
  <2>1. Init => TypeOK /\ IInv
    BY InitType, InitIInv
  <2>2. TypeOK /\ IInv /\ [Next]_vars => TypeOK' /\ IInv'
    BY TypeStep, StepIInv
  <2> QED
    BY <2>1, <2>2, PTL DEF Spec
<1>2. TypeOK /\ IInv /\ [Next]_vars => [Promise!Next]_(Promise!vars)
  BY RefineNext
<1> QED
  BY <1>1, <1>2, RefineInit, PTL DEF Spec, KeepsPromise, Promise!Spec
-----------------------------------------------------------------------------
(* The workers of a manager *)

\* The addresses a reconcile has found when it turns to the manager.
AddressInv ==
  /\ pc \in {"idle", "writePreparing", "listWorkers"} => ips = {}
  /\ pc = "getManager" => ips = Addresses("own", Worker)

LEMMA AllListed ==
  ASSUME Namesakes = {}, AllWorkersReady
  PROVE  Listed = Addresses("own", Worker)
<1>1. OwnListed \in SUBSET Worker /\ IsFiniteSet(Worker) /\ IsFiniteSet(OwnListed)
  BY NamesAssumption, FS_Subset DEF OwnListed
<1>2. Listed = Addresses("own", OwnListed) /\ Listed = {"own"} \X OwnListed
  BY DEF Listed, Addresses
<1>3. Cardinality({"own"} \X OwnListed) = Cardinality({"own"}) * Cardinality(OwnListed)
  <2>1. IsFiniteSet({"own"})
    BY FS_Singleton
  <2> QED BY <1>1, <2>1, FS_Product
<1>4. Cardinality({"own"}) = 1 /\ Cardinality(OwnListed) \in Nat
  BY <1>1, FS_Singleton, FS_CardinalityType
<1>5. Cardinality(OwnListed) = Cardinality(Worker)
  <2>1. Cardinality({"own"} \X OwnListed) = Cardinality(OwnListed)
    BY <1>3, <1>4
  <2>2. Cardinality(Listed) = Cardinality(Worker)
    BY DEF AllWorkersReady
  <2> QED BY <1>2, <2>1, <2>2
<1>6. OwnListed = Worker
  BY <1>1, <1>5, FS_Subset
<1> QED BY <1>2, <1>6

LEMMA AddressStep == Namesakes = {} /\ AddressInv /\ [Next]_vars => AddressInv'
<1> SUFFICES ASSUME Namesakes = {}, AddressInv, [Next]_vars
             PROVE  AddressInv'
  OBVIOUS
<1> USE DEF AddressInv
<1>1. ASSUME NEW again, Return(again) PROVE AddressInv'
  BY <1>1 DEF Return
<1>2. CASE ReadSync
  BY <1>2 DEF ReadSync, SyncNotFound, RejectSpec, BeginPreparing, TimeOutPreparing,
    ResumePreparing, ResumeProgressing, ResumeFinished, Take
<1>3. CASE Write
  BY <1>1, <1>3 DEF Write, WritePreparing, WriteProgressing, WriteVerdict, WriteStats,
    WriteStatusFails, ReturnError, Goto
<1>4. CASE Prepare
  <2>1. CASE CreateWorkers
    BY <2>1 DEF CreateWorkers, Goto, Addresses
  <2>2. CASE WorkersReady
    BY <2>2, AllListed DEF WorkersReady, Goto
  <2>3. CASE ~CreateWorkers /\ ~WorkersReady
    BY <1>1, <1>4, <2>3 DEF Prepare, WorkersNotReady, CreateManager, CreateManagerFails,
      FindManager, ManagerReady, ManagerNotReady, WaitTimesOut, ReturnError, Goto
  <2> QED BY <2>1, <2>2, <2>3
<1>5. CASE Follow
  BY <1>1, <1>5 DEF Follow, ManagerMissing, CheckManager, DeleteSucceeded, JudgeByLog,
    JudgeWithoutManager, Judge, DeleteAllWorkers, Expire, AwaitTTL, Goto
<1>6. CASE Fault
  BY <1>1, <1>6 DEF Fault, CreateWorkersFails, JudgeWithoutLog, Judge, CallFails, Crash,
    LosePod, ReturnError, Goto, reconcile
<1>7. CASE User \/ Kubelet \/ Cluster \/ UNCHANGED vars
  BY <1>7 DEF User, UserDeletes, UserRecreates, UserEdits, Kubelet, PodStarts, WorkerExits,
    ManagerEnds, Cluster, ObserveSync, ObservePod, CollectPod, DeadlinePasses, reconcile, vars
<1> QED
  BY <1>2, <1>3, <1>4, <1>5, <1>6, <1>7 DEF Next, Step

\* What a step may do to the manager.
LEMMA ManagerSteps ==
  ASSUME TypeOK, [Next]_vars
  PROVE  \/ pod'[Manager].phase = pod[Manager].phase
         \/ CreateManager
         \/ pod[Manager].phase = "starting" /\ pod'[Manager].phase = "ready"
         \/ pod'[Manager].phase \in {"none"} \cup Ended
<1> DEFINE Goal == \/ pod'[Manager].phase = pod[Manager].phase
                   \/ CreateManager
                   \/ pod[Manager].phase = "starting" /\ pod'[Manager].phase = "ready"
                   \/ pod'[Manager].phase \in {"none"} \cup Ended
<1>1. Missing \in SUBSET Worker /\ SucceededWorkers \in SUBSET Worker /\ Worker \in SUBSET Worker
  BY DEF Missing, SucceededWorkers
<1>2. Manager \in Name /\ pod \in [Name -> Pod]
  BY DEF Name, TypeOK
<1>3. CASE ReadSync \/ Write
  BY <1>3 DEF ReadSync, SyncNotFound, RejectSpec, BeginPreparing, TimeOutPreparing,
    ResumePreparing, ResumeProgressing, ResumeFinished, Take, Write, WritePreparing,
    WriteProgressing, WriteVerdict, WriteStats, WriteStatus, WriteStatusFails, world
<1>4. CASE Prepare
  <2>1. CASE CreateWorkers
    BY <1>1, <2>1, CreateWorkersAlone DEF CreateWorkers
  <2> QED
    BY <1>4, <2>1 DEF Prepare, WorkersReady, WorkersNotReady, CreateManagerFails, FindManager,
      ManagerReady, ManagerNotReady, WaitTimesOut, world
<1>5. CASE Follow
  BY <1>1, <1>5, DeleteWorkersAlone DEF Follow, ManagerMissing, CheckManager, DeleteSucceeded,
    JudgeByLog, JudgeWithoutManager, DeleteAllWorkers, Expire, AwaitTTL, world
<1>6. ASSUME NEW n \in Name, NEW phase, SetPod(n, phase)
      PROVE  pod'[Manager].phase = IF n = Manager THEN phase ELSE pod[Manager].phase
  BY <1>2, <1>6 DEF SetPod, Pod
<1>7. ASSUME NEW n \in Name, pod' = [pod EXCEPT ![n] = NoPod]
      PROVE  pod'[Manager].phase \in {"none", pod[Manager].phase}
  BY <1>2, <1>7 DEF NoPod
<1>8. CASE Fault
  <2>1. CASE CreateWorkersFails
    <3>1. PICK done \in SUBSET Missing : CreatePods(done)
      BY <2>1 DEF CreateWorkersFails
    <3> QED BY <1>1, <3>1, CreateWorkersAlone
  <2>2. ASSUME NEW n \in Name, LosePod(n) PROVE Goal
    BY <1>6, <1>7, <2>2 DEF LosePod, Ended
  <2> QED
    BY <1>8, <2>1, <2>2 DEF Fault, JudgeWithoutLog, CallFails, Crash
<1>9. CASE Kubelet
  <2>1. ASSUME NEW n \in Name, PodStarts(n) PROVE Goal
    BY <1>6, <2>1 DEF PodStarts
  <2>2. ASSUME NEW w \in Worker, WorkerExits(w) PROVE Goal
    BY <1>6, <2>2, NamesAssumption DEF WorkerExits, Name
  <2>3. ASSUME NEW how \in Ended, ManagerEnds(how) PROVE Goal
    BY <1>2, <1>6, <2>3 DEF ManagerEnds
  <2> QED BY <1>9, <2>1, <2>2, <2>3 DEF Kubelet
<1>10. CASE Cluster
  BY <1>7, <1>10 DEF Cluster, ObserveSync, ObservePod, CollectPod, DeadlinePasses, world
<1>11. CASE User \/ UNCHANGED vars
  BY <1>11 DEF User, UserDeletes, UserRecreates, UserEdits, vars, world
<1> QED
  BY <1>3, <1>4, <1>5, <1>8, <1>9, <1>10, <1>11 DEF Next, Step

\* The manager is started with the addresses of all its workers, if no other Sync
\* of this name has workers: what the list has too many of, it may have too few of
\* the Sync's own.
THEOREM ManagerKnowsItsWorkers == ASSUME Namesakes = {} PROVE Spec => ManagerHasItsWorkers
<1>1. Init => AddressInv
  BY DEF Init, AddressInv
<1>2. TypeOK /\ AddressInv /\ [Next]_vars =>
        [pod[Manager].phase = "none" /\ pod'[Manager].phase = "starting"
           => hosts' = Addresses("own", Worker)]_vars
  BY ManagerSteps DEF CreateManager, AddressInv, Ended
<1> QED
  BY <1>1, <1>2, AddressStep, TypeCorrect, PTL DEF Spec, ManagerHasItsWorkers

-----------------------------------------------------------------------------
(* The workers outlive the manager *)

Cleaning == {"deleteAll", "checkTTL"}
Runs(n) == pod[n].phase \in {"starting", "ready"}

\* A reconcile that cleans up works for a finished Sync, and where that is known
\* nobody makes a manager any more, not even after the Sync is gone.
DoneInv ==
  /\ Live /\ pc \in Cleaning => obj.phase \in Finished
  /\ seen.phase \in Finished \/ pc \in Cleaning =>
       ~Runs(Manager) /\ pc \notin PreparingSteps \cup {"writePreparing"}

LEMMA CleaningSteps ==
  ASSUME TypeOK, [Next]_vars
  PROVE  /\ pc' \in Cleaning => pc \in Cleaning \/ (pc = "idle" /\ seen.phase \in Finished)
         /\ pc' \in PreparingSteps \cup {"writePreparing"} =>
              \/ pc \in PreparingSteps \cup {"writePreparing"}
              \/ pc = "idle" /\ seen.phase \notin Finished
         /\ seen' = seen \/ (seen' = obj /\ obj' = obj)
<1> USE DEF Cleaning, PreparingSteps, Goto, cache, reconcile
<1>1. CASE ReadSync
  BY <1>1 DEF ReadSync, SyncNotFound, RejectSpec, BeginPreparing, TimeOutPreparing,
    ResumePreparing, ResumeProgressing, ResumeFinished, Take, Finished
<1>2. CASE Write
  BY <1>2 DEF Write, WritePreparing, WriteProgressing, WriteVerdict, WriteStats, WriteStatus,
    WriteStatusFails, ReturnError, Return
<1>3. CASE Prepare
  BY <1>3 DEF Prepare, CreateWorkers, WorkersReady, WorkersNotReady, CreateManager,
    CreateManagerFails, FindManager, ManagerReady, ManagerNotReady, WaitTimesOut, ReturnError, Return
<1>4. CASE Follow
  BY <1>4 DEF Follow, ManagerMissing, CheckManager, DeleteSucceeded, JudgeByLog,
    JudgeWithoutManager, Judge, DeleteAllWorkers, Expire, AwaitTTL, Return
<1>5. CASE Fault
  BY <1>5 DEF Fault, CreateWorkersFails, JudgeWithoutLog, Judge, CallFails, Crash,
    LosePod, ReturnError, Return
<1>6. CASE User \/ Kubelet \/ Cluster \/ UNCHANGED vars
  BY <1>6 DEF User, UserDeletes, UserRecreates, UserEdits, Kubelet, PodStarts, WorkerExits,
    ManagerEnds, Cluster, ObserveSync, ObservePod, CollectPod, DeadlinePasses, vars, world
<1> QED
  BY <1>1, <1>2, <1>3, <1>4, <1>5, <1>6 DEF Next, Step

LEMMA DoneStep ==
  ASSUME Undisturbed, MaxGen = 0, TypeOK, TypeOK', IInv, IInv', DoneInv, [Next]_vars
  PROVE  DoneInv'
<1>1. obj.gen = 0 /\ obj'.gen = 0 /\ (Live \/ obj.phase = "Gone") /\ (Live' \/ obj'.phase = "Gone")
  BY DEF TypeOK, SyncObj, Gens, Live
<1>2. ASSUME Live', pc' \in Cleaning PROVE obj'.phase \in Finished
  <2>1. Live /\ SeenInv
    BY <1>2, LiveBefore DEF IInv
  <2>2. obj.phase \in Finished
    <3>1. CASE pc \in Cleaning
      BY <2>1, <3>1 DEF DoneInv
    <3>2. CASE pc = "idle" /\ seen.phase \in Finished
      BY <2>1, <3>2 DEF SeenInv, TypeOK, SyncObj, Live, Unfinished, Finished
    <3> QED BY <1>2, <3>1, <3>2, CleaningSteps
  <2>3. ~UserEdits /\ obj'.phase # "Gone"
    BY <1>2 DEF UserEdits, Occurs, Undisturbed, Live
  <2>4. pc \in Cleaning \cup {"idle"}
    BY <1>2, CleaningSteps
  <2>5. obj' = obj
    BY <2>1, <2>3, <2>4, ObjSteps DEF WritePreparing, WriteProgressing, WriteVerdict, WriteStats,
      Cleaning, Live, TypeOK, SyncObj
  <2> QED BY <2>2, <2>5
<1>3. ASSUME Live', seen'.phase \in Finished \/ pc' \in Cleaning
      PROVE  ~Runs(Manager)' /\ pc' \notin PreparingSteps \cup {"writePreparing"}
  <2>1. SeenInv' /\ PodInv' /\ ObjInv' /\ MineInv'
    BY <1>3 DEF IInv
  <2>2. obj'.phase \in Finished
    BY <1>2, <1>3, <2>1 DEF SeenInv, TypeOK, SyncObj, Live, Unfinished, Finished
  <2> QED BY <2>1, <2>2 DEF PodInv, ObjInv, MineInv, Runs, Ended, Finished
<1>4. ASSUME obj'.phase = "Gone", seen'.phase \in Finished \/ pc' \in Cleaning
      PROVE  ~Runs(Manager)' /\ pc' \notin PreparingSteps \cup {"writePreparing"}
  <2>1. seen.phase \in Finished \/ pc \in Cleaning
    BY <1>4, CleaningSteps DEF Finished
  <2>2. ~Runs(Manager) /\ pc \notin PreparingSteps \cup {"writePreparing"}
    BY <2>1 DEF DoneInv
  <2>3. pc' \notin PreparingSteps \cup {"writePreparing"}
    BY <2>1, <2>2, CleaningSteps DEF Cleaning
  <2>4. ~CreateManager
    BY <2>2 DEF CreateManager, PreparingSteps
  <2> QED BY <2>2, <2>3, <2>4, ManagerSteps DEF Runs, Ended
<1> QED BY <1>1, <1>2, <1>3, <1>4 DEF DoneInv

\* A worker that is ready is deleted by a reconcile that cleans up only.
LEMMA TakesCleaning ==
  ASSUME TypeOK, [Next]_vars, NEW w \in Worker, Takes(w)
  PROVE  pc = "deleteAll" /\ pod'[Manager] = pod[Manager]
<1>1. pod[w].phase = "ready" /\ pod'[w].phase = "none" /\ pc # "idle" /\ pc' # pc
  BY DEF Takes
<1>2. pod \in [Name -> Pod] /\ w \in Name
  BY DEF TypeOK, Name
<1>3. ASSUME NEW names, CreatePods(names) PROVE FALSE
  BY <1>1, <1>2, <1>3 DEF CreatePods
<1>4. ~DeleteSucceeded
  BY <1>1, <1>2 DEF DeleteSucceeded, DeleteWorkers, SucceededWorkers
<1>5. pod' # pod
  BY <1>1
<1>6. CASE Step
  BY <1>3, <1>4, <1>5, <1>6, DeleteWorkersAlone DEF Step, ReadSync, SyncNotFound, RejectSpec,
    BeginPreparing, TimeOutPreparing, ResumePreparing, ResumeProgressing, ResumeFinished, Take,
    Write, WritePreparing, WriteProgressing, WriteVerdict, WriteStats, WriteStatus,
    WriteStatusFails, Prepare, CreateWorkers, WorkersReady, WorkersNotReady, CreateManager,
    CreateManagerFails, FindManager, ManagerReady, ManagerNotReady, WaitTimesOut, Follow,
    ManagerMissing, CheckManager, JudgeByLog, JudgeWithoutManager, DeleteAllWorkers, Expire, AwaitTTL, world
<1>7. CASE Fault
  BY <1>1, <1>3, <1>5, <1>7 DEF Fault, CreateWorkersFails, JudgeWithoutLog, CallFails, Crash,
    LosePod, reconcile
<1>8. CASE User \/ Kubelet \/ Cluster \/ UNCHANGED vars
  BY <1>1, <1>8 DEF User, UserDeletes, UserRecreates, UserEdits, Kubelet, PodStarts, WorkerExits,
    ManagerEnds, Cluster, ObserveSync, ObservePod, CollectPod, DeadlinePasses, vars, reconcile
<1> QED BY <1>6, <1>7, <1>8 DEF Next

\* The controller does not take ready workers from a manager that runs, whatever
\* old Syncs it reads and wherever it is interrupted, if the Sync is not made anew.
THEOREM WorkersStay ==
  ASSUME Undisturbed, MaxGen = 0
  PROVE  Spec => WorkersOutliveManager
<1>1. Init => DoneInv
  BY DEF Init, DoneInv, NewSync, Cleaning, Finished
<1>2. TypeOK /\ IInv /\ [Next]_vars => TypeOK' /\ IInv'
  BY TypeStep, StepIInv
<1>3. TypeOK /\ TypeOK' /\ IInv /\ IInv' /\ DoneInv /\ [Next]_vars => DoneInv'
  BY DoneStep
<1>4. TypeOK /\ DoneInv /\ [Next]_vars =>
        [(\E w \in Worker : Takes(w)) => pod[Manager].phase # "ready"]_vars
  BY TakesCleaning DEF DoneInv, Cleaning, Runs
<1> QED
  BY <1>1, <1>2, <1>3, <1>4, InitType, InitIInv, PTL DEF Spec, WorkersOutliveManager

-----------------------------------------------------------------------------
(* What follows from the promise alone, whatever keeps it. *)

LEMMA PromiseInvariant == Promise!Spec => [](Promise!TypeOK /\ Promise!CompletedIsCopied)
<1> USE DEF Promise!TypeOK, Promise!CompletedIsCopied, Promise!Unfinished, Promise!Finished
<1>1. Promise!Init => Promise!TypeOK /\ Promise!CompletedIsCopied
  BY DEF Promise!Init
<1>2. Promise!TypeOK /\ Promise!CompletedIsCopied /\ [Promise!Next]_(Promise!vars)
        => Promise!TypeOK' /\ Promise!CompletedIsCopied'
  BY DEF Promise!Next, Promise!vars, Promise!Prepare, Promise!Progress, Promise!Copy,
         Promise!Complete, Promise!Fail, Promise!Delete
<1> QED
  BY <1>1, <1>2, PTL DEF Promise!Spec

\* The creator of a Sync that reads Completed knows that its manager has copied
\* everything: setStatus of calculateSyncStats writes it for such a manager only.
COROLLARY CompletedMeansCopied == ASSUME Undisturbed PROVE Spec => []Promise!CompletedIsCopied
BY PromiseKept, PromiseInvariant, PTL DEF KeepsPromise

\* A verdict is the last phase of its Sync until it is deleted: a CronSync may
\* count a Sync as finished once and for all.
COROLLARY VerdictIsFinal == ASSUME Undisturbed PROVE Spec => Promise!FinishedIsFinal
<1>1. [Promise!Next]_(Promise!vars) =>
        [(PhaseBar \in Promise!Finished) => (PhaseBar' \in {PhaseBar, "Gone"})]_(Promise!vars)
  BY DEF Promise!Next, Promise!vars, Promise!Finished, Promise!Unfinished, Promise!Prepare, Promise!Progress,
         Promise!Copy, Promise!Complete, Promise!Fail, Promise!Delete, PhaseBar
<1>2. Promise!Spec => Promise!FinishedIsFinal
  BY <1>1, PTL DEF Promise!Spec, Promise!FinishedIsFinal, PhaseBar
<1> QED
  BY <1>2, PromiseKept, PTL DEF KeepsPromise
=============================================================================
