------------------------ MODULE GroupLifetime_proofs ------------------------
(* Workers and claims come into being under the finalizer only, and a worker  *)
(* with the name of a node runs there; for any nodes, specs, interventions    *)
(* and faults.                                                                *)
EXTENDS GroupLifetime, SequenceTheorems, Induction, TLAPS

\* What the proof needs of the types.
IsFunction(f) == f = [w \in Names |-> f[w]]
Types ==
  /\ cg \in Group \cup {None}
  /\ seenCg \in Group \cup {None}
  /\ IsFunction(pods) /\ IsFunction(claims) /\ IsFunction(task)
  /\ pc \in Steps
  /\ pc = "addFinalizer" => run.cg \in Group

\* Deletion is for good, and the finalizer is there until the reconcile that has
\* seen the deletion removes it.  Only within sync are workers created.
Protected1 == seenCg # None /\ seenCg.finalizer /\ ~seenCg.deleting => cg # None /\ cg.finalizer
Deleted1 == seenCg # None /\ seenCg.deleting => cg = None \/ cg.deleting
Finalizing ==
  pc \in {"cleanAll", "removeFinalizer"} =>
    /\ cg = None \/ cg.deleting
    /\ seenCg = None \/ seenCg.deleting
Syncing == pc = "sync" => cg # None /\ cg.finalizer
OnlySyncCreates == pc # "sync" => \A w \in Names : task[w] \in {<< >>, <<"visit">>, <<"clean">>}

Inv == Types /\ Protected1 /\ Deleted1 /\ Finalizing /\ Syncing /\ OnlySyncCreates

LEMMA InitInv == Init => Inv
<1> SUFFICES ASSUME Init PROVE Inv
  OBVIOUS
<1>1. cg \in Group /\ ~cg.finalizer /\ ~cg.deleting /\ seenCg = cg
  BY DEF Init, Group
<1>2. IsFunction(pods) /\ IsFunction(claims) /\ IsFunction(task)
  BY DEF Init, IsFunction, NoWorkers, NoTask
<1>3. pc = "idle" /\ task = NoTask
  BY DEF Init
<1> QED
  BY <1>1, <1>2, <1>3 DEF Inv, Types, Protected1, Deleted1, Finalizing, Syncing, OnlySyncCreates, NoTask, Steps

\* A step of the reconcile, or of what surrounds it, that leaves the group alone.
LEMMA SameGroup ==
  ASSUME Inv, UNCHANGED <<cg, seenCg, pc, run>>, IsFunction(pods)', IsFunction(claims)', IsFunction(task)',
         pc # "sync" => OnlySyncCreates'
  PROVE  Inv'
BY DEF Inv, Types, Protected1, Deleted1, Finalizing, Syncing, OnlySyncCreates

LEMMA CallType ==
  ASSUME Inv, NEW w \in Names, NEW call, Call(w, call)
  PROVE  IsFunction(task)' /\ (pc # "sync" /\ pc' = pc => OnlySyncCreates')
<1>1. IsFunction(task)'
  BY DEF Inv, Types, Call, IsFunction
<1>2. ASSUME pc # "sync", pc' = pc, NEW v \in Names PROVE task'[v] \in {<< >>, <<"visit">>, <<"clean">>}
  <2>1. CASE v = w
    BY <1>2, <2>1 DEF Inv, Types, Call, IsFunction, OnlySyncCreates
  <2>2. CASE v # w
    BY <1>2, <2>2 DEF Inv, Types, Call, IsFunction, OnlySyncCreates
  <2> QED
    BY <2>1, <2>2
<1> QED
  BY <1>1, <1>2 DEF OnlySyncCreates

LEMMA CallsInv == ASSUME Inv, NEW w \in Names, WorkerCall(w) PROVE Inv'
<1>1. UNCHANGED <<cg, seenCg, pc, run>>
  BY DEF WorkerCall, EnsureClaims, CreateWorker, RestartWorker, BeginsLeaving, DeleteWorker, CleanWorkerCache, cache
<1>2. IsFunction(pods)' /\ IsFunction(claims)'
  BY DEF WorkerCall, EnsureClaims, CreateWorker, RestartWorker, BeginsLeaving, DeleteWorker, CleanWorkerCache,
         Inv, Types, IsFunction
<1>3. IsFunction(task)' /\ (pc # "sync" => OnlySyncCreates')
  <2>1. CASE DeleteWorker(w)
    BY <1>1, <2>1 DEF DeleteWorker, Inv, Types, IsFunction, OnlySyncCreates
  <2>2. CASE \E call : Call(w, call)
    BY <1>1, <2>2, CallType
  <2> QED
    BY <2>1, <2>2 DEF WorkerCall, EnsureClaims, CreateWorker, RestartWorker, BeginsLeaving, CleanWorkerCache
<1> QED
  BY <1>1, <1>2, <1>3, SameGroup

LEMMA ReconcileInv ==
  ASSUME Inv, Step, ~ \E w \in Names : WorkerCall(w)
  PROVE  Inv'
<1> USE DEF Inv, Protected1, Deleted1, Finalizing, Syncing, OnlySyncCreates
<1>1. CASE ReconcileGone \/ ReconcileFails
  <2>1. UNCHANGED <<cg, seenCg, pods, claims, pc, run, task>>
    BY <1>1 DEF ReconcileGone, ReconcileFails, vars, cache, reconcile
  <2> QED
    BY <2>1 DEF Types, IsFunction
<1>2. CASE ReconcileNew
  <2>1. Begin("addFinalizer", {}, NoTask) /\ seenCg # None
    BY <1>2 DEF ReconcileNew
  <2>2. UNCHANGED <<cg, seenCg>> /\ pc' = "addFinalizer" /\ run'.cg = seenCg /\ task' = [w \in Names |-> << >>]
        /\ UNCHANGED <<pods, claims>>
    BY <2>1 DEF Begin, cache
  <2> QED
    BY <2>1, <2>2 DEF Types, IsFunction, Steps
<1>3. CASE ReconcileSync
  <2>1. seenCg # None /\ ~seenCg.deleting /\ seenCg.finalizer
    BY <1>3 DEF ReconcileSync, ContainsFinalizer
  <2>2. UNCHANGED <<cg, seenCg, pods, claims>> /\ pc' = "sync" /\ IsFunction(task)'
    BY <1>3 DEF ReconcileSync, Begin, cache, IsFunction
  <2> QED
    BY <2>1, <2>2 DEF Types, IsFunction, Steps
<1>4. CASE ReconcileDeleted
  <2>1. seenCg # None /\ seenCg.deleting
    BY <1>4 DEF ReconcileDeleted
  <2>2. UNCHANGED <<cg, seenCg, pods, claims>> /\ pc' \in {"cleanAll", "removeFinalizer"}
        /\ IsFunction(task)' /\ \A w \in Names : task'[w] \in {<< >>, <<"clean">>}
    BY <1>4 DEF ReconcileDeleted, Begin, cache, IsFunction, NoTask
  <2> QED
    BY <2>1, <2>2 DEF Types, IsFunction, Steps
<1>5. CASE AddFinalizer
  <2>1. pc = "addFinalizer" /\ pc' = "idle" /\ task' = NoTask /\ UNCHANGED <<seenCg, pods, claims>>
        /\ (cg' = cg \/ (cg = run.cg /\ cg' = [run.cg EXCEPT !.finalizer = TRUE]))
    BY <1>5 DEF AddFinalizer, UpdateFinalizer, Return, ReturnError, Forget, cache
  <2>2. run.cg \in Group
    BY <2>1 DEF Types
  <2>3. cg' = cg \/ (cg' \in Group /\ cg' # None /\ cg'.finalizer /\ cg'.deleting = cg.deleting)
    BY <2>1, <2>2, NoneAssumption DEF Group
  <2> QED
    BY <2>1, <2>2, <2>3, NoneAssumption DEF Types, IsFunction, Steps, NoTask
<1>6. CASE RemoveFinalizer
  <2>1. pc = "removeFinalizer" /\ pc' = "idle" /\ task' = NoTask /\ UNCHANGED <<seenCg, pods, claims>>
        /\ (cg' = cg \/ cg' = None)
    BY <1>6 DEF RemoveFinalizer, UpdateFinalizer, Return, ReturnError, Forget, cache
  <2> QED
    BY <2>1 DEF Types, IsFunction, Steps, NoTask
<1>7. CASE CleanAllDone
  <2>1. UNCHANGED <<cg, seenCg, pods, claims, task>> /\ pc = "cleanAll" /\ pc' = "removeFinalizer"
    BY <1>7 DEF CleanAllDone, cache
  <2> QED
    BY <2>1 DEF Types, IsFunction, Steps
<1>8. CASE StartRemoval
  <2>1. UNCHANGED <<cg, seenCg, pods, claims>> /\ pc' = "remove"
        /\ task' = [w \in Names |-> IF Exists(run.redundant, w) THEN <<"visit">> ELSE << >>]
    BY <1>8 DEF StartRemoval, cache
  <2>2. IsFunction(task)' /\ \A w \in Names : task'[w] \in {<< >>, <<"visit">>}
    BY <2>1 DEF IsFunction
  <2>3. Types'
    BY <2>1, <2>2 DEF Types, IsFunction, Steps
  <2> QED
    BY <2>1, <2>2, <2>3
<1>9. CASE WriteStatus
  <2>1. pc = "remove" /\ pc' = "idle" /\ task' = NoTask /\ UNCHANGED <<seenCg, pods, claims>>
        /\ cg' = IF cg = None THEN None ELSE [cg EXCEPT !.known = TRUE]
    BY <1>9 DEF WriteStatus, Forget, cache
  <2>2. cg' = cg \/ (cg # None /\ cg' \in Group /\ cg' # None /\ cg'.finalizer = cg.finalizer /\ cg'.deleting = cg.deleting)
    BY <2>1, NoneAssumption DEF Types, Group
  <2>3. Types'
    BY <2>1, <2>2 DEF Types, IsFunction, Steps, NoTask
  <2>4. (Protected1 /\ Deleted1 /\ Finalizing /\ Syncing)'
    <3>1. CASE cg' = cg
      BY <2>1, <3>1
    <3>2. CASE cg # None /\ cg' # None /\ cg'.finalizer = cg.finalizer /\ cg'.deleting = cg.deleting
      BY <2>1, <3>2
    <3> QED
      BY <2>2, <3>1, <3>2
  <2>5. OnlySyncCreates'
    BY <2>1 DEF NoTask
  <2> QED
    BY <2>3, <2>4, <2>5
<1> QED
  BY <1>1, <1>2, <1>3, <1>4, <1>5, <1>6, <1>7, <1>8, <1>9 DEF Step

LEMMA SurroundInv ==
  ASSUME Inv, Observe \/ Kubelet \/ Jobs \/ CallFails \/ Crash \/ Collect \/ \E w \in Names : WorkerPlaced(w)
  PROVE  Inv'
<1> USE DEF Inv, Protected1, Deleted1, Finalizing, Syncing, OnlySyncCreates, Types
<1>1. CASE ObserveGroup
  BY <1>1 DEF ObserveGroup, IsFunction, reconcile
<1>2. CASE ObserveWorkers \/ \E n \in Nodes : ObserveNode(n)
  BY <1>2 DEF ObserveWorkers, ObserveNode, IsFunction, reconcile
<1>3. CASE Jobs
  BY <1>3 DEF Jobs, JobRuns, JobFails, JobExpires, Outside, cache, reconcile, IsFunction
<1>4. CASE Kubelet \/ Collect \/ \E w \in Names : WorkerPlaced(w)
  <2>1. UNCHANGED <<cg, seenCg, pc, run, task>> /\ IsFunction(pods)' /\ IsFunction(claims)'
    BY <1>4 DEF Kubelet, Collect, WorkerPlaced, WorkerStarts, WorkerStops, ClaimGoes, Outside, cache, reconcile, IsFunction
  <2> QED
    BY <2>1 DEF IsFunction
<1>5. CASE Crash
  <2>1. UNCHANGED <<cg, pods, claims>> /\ seenCg' = cg /\ pc' = "idle" /\ task' = NoTask
    BY <1>5 DEF Crash, Forget
  <2> QED
    BY <2>1 DEF IsFunction, NoTask, Steps
<1>6. CASE CallFails
  <2>1. UNCHANGED <<cg, seenCg, pods, claims>>
    BY <1>6 DEF CallFails, cache
  <2>2. CASE pc' \in {"idle", "remove"} /\ task' = NoTask
    BY <2>1, <2>2 DEF IsFunction, NoTask, Steps
  <2>3. CASE pc = "cleanAll" /\ UNCHANGED <<pc, run>> /\ \E w \in Names : Call(w, "clean")
    BY <2>1, <2>3, CallType, SameGroup
  <2> QED
    BY <1>6, <2>2, <2>3 DEF CallFails, ReturnError, Forget
<1> QED
  BY <1>1, <1>2, <1>3, <1>4, <1>5, <1>6 DEF Observe

LEMMA UserInv == ASSUME Inv, User PROVE Inv'
<1>1. UNCHANGED <<seenCg, pods, claims, pc, run, task>>
  BY DEF User, UserScales, UserExpands, UserDeletesGroup, UserDeletesSecret, UserEditsNode, cache, reconcile
<1>2. \/ cg' = cg
      \/ /\ cg # None /\ cg' \in Group /\ cg' # None /\ cg'.finalizer = cg.finalizer
         /\ cg.deleting => cg'.deleting
      \/ cg # None /\ ~cg.finalizer /\ cg' = None
  BY NoneAssumption DEF User, UserScales, UserExpands, UserDeletesGroup, UserDeletesSecret, UserEditsNode, Inv, Types, Group
<1> QED
  BY <1>1, <1>2 DEF Inv, Protected1, Deleted1, Finalizing, Syncing, OnlySyncCreates, Types, IsFunction

LEMMA InvStep == Inv /\ [Next]_vars => Inv'
<1>1. Inv /\ UNCHANGED vars => Inv'
  BY DEF Inv, Types, Protected1, Deleted1, Finalizing, Syncing, OnlySyncCreates, IsFunction, vars, cache, reconcile
<1> QED
  BY <1>1, CallsInv, ReconcileInv, SurroundInv, UserInv DEF Next, Step

\* Of all the steps only two make a worker or a claim, and they are of sync.
LEMMA Creations ==
  ASSUME Inv, [Next]_vars, NEW w \in Names,
         (pods[w] = None /\ pods'[w] # None) \/ (claims[w] = None /\ claims'[w] # None)
  PROVE  cg # None /\ cg.finalizer
<1>1. \E v \in Names : EnsureClaims(v) \/ CreateWorker(v)
  <2>1. CASE \E v \in Names : WorkerCall(v)
    <3> SUFFICES ASSUME NEW v \in Names, RestartWorker(v) \/ BeginsLeaving(v) \/ DeleteWorker(v) \/ CleanWorkerCache(v)
                 PROVE  FALSE
      BY <2>1 DEF WorkerCall
    <3>1. pods[w] = None => pods'[w] = None
      BY DEF RestartWorker, BeginsLeaving, DeleteWorker, CleanWorkerCache, Exists, Inv, Types, IsFunction
    <3>2. claims[w] = None => claims'[w] = None
      <4>1. claims' = claims \/ (claims[v] # None /\ claims' = [claims EXCEPT ![v].deleting = TRUE])
        BY DEF RestartWorker, BeginsLeaving, DeleteWorker, CleanWorkerCache
      <4>2. CASE v = w
        BY <4>1, <4>2, NoneAssumption
      <4>3. CASE v # w
        BY <4>1, <4>3 DEF Inv, Types, IsFunction
      <4> QED
        BY <4>2, <4>3
    <3> QED
      BY <3>1, <3>2
  <2>2. CASE Step /\ ~ \E v \in Names : WorkerCall(v)
    BY <2>2 DEF Step, ReconcileGone, ReconcileNew, AddFinalizer, UpdateFinalizer, ReconcileDeleted, CleanAllDone,
       RemoveFinalizer, ReconcileFails, ReconcileSync, StartRemoval, WriteStatus, Begin, vars
  <2>3. CASE Kubelet \/ Collect \/ \E v \in Names : WorkerPlaced(v)
    <3>1. CASE Collect
      BY <3>1, NoneAssumption DEF Collect, Exists, Outside
    <3>2. CASE \E v \in Names : WorkerPlaced(v) \/ WorkerStarts(v)
      BY <3>2 DEF WorkerPlaced, WorkerStarts, Exists, Outside, Inv, Types, IsFunction
    <3>3. CASE \E v \in Names : WorkerStops(v) \/ ClaimGoes(v)
      BY <3>3 DEF WorkerStops, ClaimGoes, Outside, Inv, Types, IsFunction
    <3> QED
      BY <2>3, <3>1, <3>2, <3>3 DEF Kubelet
  <2>4. CASE Observe \/ Jobs \/ User \/ CallFails \/ Crash \/ UNCHANGED vars
    BY <2>4 DEF Observe, ObserveGroup, ObserveWorkers, ObserveNode, Jobs, JobRuns, JobFails, JobExpires,
       User, UserScales, UserExpands, UserDeletesGroup, UserDeletesSecret, UserEditsNode, CallFails, Crash, Outside, vars
  <2> QED
    BY <2>1, <2>2, <2>3, <2>4 DEF Next, Step
<1>2. pc = "sync"
  <2> SUFFICES ASSUME pc # "sync" PROVE FALSE
    OBVIOUS
  <2>1. \E v \in Names : task[v] # << >> /\ Head(task[v]) \in {"ensure", "create"}
    BY <1>1 DEF EnsureClaims, CreateWorker, Call
  <2> QED
    BY <2>1 DEF Inv, OnlySyncCreates
<1> QED
  BY <1>2 DEF Inv, Syncing

(***************************************************************************)
(* No worker and no claim is made for a group that the finalizer does not  *)
(* hold: Reconcile creates none before it has added the finalizer, and a   *)
(* copy of the group that does not show its deletion yet implies that the  *)
(* finalizer is still there.  For any nodes, specs, faults and crashes.    *)
(***************************************************************************)
THEOREM UnderFinalizer == Spec => CreatesUnderFinalizer
<1>1. Inv /\ [Next]_vars =>
        [\A w \in Names :
           \/ pods[w] = None /\ pods'[w] # None
           \/ claims[w] = None /\ claims'[w] # None
           => cg # None /\ cg.finalizer]_vars
  BY Creations
<1> QED
  BY <1>1, InitInv, InvStep, PTL DEF Spec, CreatesUnderFinalizer

-----------------------------------------------------------------------------
(* What is expected *)

\* The simulated scheduler expects nodes only.
LEMMA SchedulerExpectsNodes ==
  ASSUME NodesByName \in Seq(Nodes), NEW spec, NEW ns, NEW list
  PROVE  ParseExpectStateByScheduler(spec, ns, list) \subseteq Nodes
<1> DEFINE N == Len(NodesByName)
           P == {WorkerPod(spec, n, n) : n \in Nodes}
           D == [pending : SUBSET P, rejected : SUBSET Nodes]
           listed == [n \in ListNodes(ns, spec.template.nodeSelector) |-> ns[n]]
           Fits(i, d) == CanSchedulePodOnNode(TemplateOf(spec, ns, NodesByName[i]), ns[NodesByName[i]],
                                              NodesByName[i], listed, list, d)
           After(i, d) == IF NodesByName[i] \notin DOMAIN listed THEN d
                          ELSE IF Fits(i, d)
                          THEN AppendPendingPod(d, WorkerPod(spec, NodesByName[i], NodesByName[i]))
                          ELSE AppendToBeDeletedPod(d, WorkerPod(spec, NodesByName[i], None))
           nobody == [pending |-> {}, rejected |-> {}]
           step == [i \in 1 .. N |-> [d \in D |-> After(i, d)]]
<1>1. N \in Nat /\ \A i \in 1 .. N : NodesByName[i] \in Nodes
  BY LenProperties, ElementOfSeq
<1>2. nobody \in D
  OBVIOUS
<1>3. ASSUME NEW i \in 1 .. N, NEW d \in D PROVE After(i, d) \in D
  <2>1. d.pending \in SUBSET P /\ d.rejected \in SUBSET Nodes
    OBVIOUS
  <2>2. WorkerPod(spec, NodesByName[i], NodesByName[i]) \in P
    BY <1>1
  <2>3. WorkerPod(spec, NodesByName[i], None).name \in Nodes
    BY <1>1 DEF WorkerPod
  <2> HIDE DEF Fits, P, listed
  <2> QED BY <2>1, <2>2, <2>3 DEF AppendPendingPod, AppendToBeDeletedPod
<1>4. step \in [1 .. N -> [D -> D]]
  <2> HIDE DEF D, After, N
  <2> QED BY <1>3
<1>5. \E f : f = [i \in 0 .. N |-> IF i = 0 THEN nobody ELSE After(i, f[i - 1])]
  <2>1. PICK f \in [0 .. N -> D] : f[0] = nobody /\ \A i \in 1 .. N : f[i] = step[i][f[i - 1]]
    <3> HIDE DEF step, D, N, nobody
    <3>1. Defines(N, D, nobody, step)
      BY <1>1, <1>2, <1>4, RecursionExists
    <3> QED BY <3>1 DEF Defines
  <2> HIDE DEF D, N, nobody, After
  <2>2. \A i \in 1 .. N : i - 1 \in 0 .. N
    BY <1>1
  <2>3. \A i \in 1 .. N : f[i] = After(i, f[i - 1])
    BY <2>1, <2>2
  <2> DEFINE g == [i \in 0 .. N |-> IF i = 0 THEN nobody ELSE After(i, f[i - 1])]
  <2>4. \A i \in 0 .. N : i = 0 \/ i \in 1 .. N
    BY <1>1
  <2>5. \A i \in 0 .. N : g[i] = f[i]
    <3> HIDE DEF step
    <3> QED BY <2>1, <2>3, <2>4
  <2>6. g = f
    <3>1. g = [i \in 0 .. N |-> g[i]] /\ f = [i \in 0 .. N |-> f[i]]
      BY <2>1
    <3> HIDE DEF g
    <3> QED BY <2>5, <3>1
  <2> QED BY <2>6
<1> HIDE DEF D
<1>6. PICK f : /\ f = [i \in 0 .. N |-> IF i = 0 THEN nobody ELSE After(i, f[i - 1])]
               /\ ParseExpectStateByScheduler(spec, ns, list) = {p.name : p \in f[N].pending}
  BY <1>5 DEF ParseExpectStateByScheduler
<1> HIDE DEF After, nobody
<1>7. \A i \in 0 .. N : f[i] = IF i = 0 THEN nobody ELSE After(i, f[i - 1])
  BY <1>6
<1> DEFINE S == {i \in 0 .. N : f[i] \in D}
<1> HIDE DEF N
<1>8. 0 \in S
  BY <1>1, <1>2, <1>7
<1>9. ASSUME NEW i \in 0 .. N - 1, i \in S PROVE i + 1 \in S
  <2>1. i + 1 \in 1 .. N /\ f[i + 1] = After(i + 1, f[i])
    BY <1>1, <1>7
  <2> QED BY <1>1, <1>3, <1>9, <2>1
<1>10. 0 .. N \subseteq S
  <2> HIDE DEF S
  <2> QED BY <1>1, <1>8, <1>9, UptoInduction
<1>11. f[N].pending \subseteq P
  BY <1>1, <1>10 DEF D
<1> QED BY <1>6, <1>11 DEF WorkerPod

\* The names that may be expected of a group.
ExpectedNames(spec) == IF spec.replicas = None THEN Nodes ELSE Replicas

LEMMA ExpectedType ==
  ASSUME NEW s \in Specs, NEW ns, NEW list
  PROVE  ParseExpectState(SpecOf(s), ns, list) \subseteq ExpectedNames(SpecOf(s))
<1> DEFINE spec == SpecOf(s)
<1>1. spec.replicas # None => ParseExpectStateByReplicas(spec) \subseteq Replicas
  <2> SUFFICES ASSUME spec.replicas # None, NEW i \in 1 .. spec.replicas PROVE ReplicaNames[i] \in Replicas
    BY DEF ParseExpectStateByReplicas
  <2>1. spec.replicas \in 0 .. Len(ReplicaNames) /\ ReplicaNames \in Seq(Replicas)
    BY SpecAssumption DEF SpecAssumption
  <2>2. Len(ReplicaNames) \in Nat
    BY <2>1, LenProperties
  <2>3. i \in 1 .. Len(ReplicaNames)
    BY <2>1, <2>2
  <2> QED BY <2>1, <2>3, ElementOfSeq
<1>2. ParseExpectStateByScheduler(spec, ns, list) \subseteq Nodes
  BY SpecAssumption, SchedulerExpectsNodes DEF SpecAssumption
<1>3. ParseExpectStateByNodeSelector(spec, ns) \subseteq Nodes
  BY DEF ParseExpectStateByNodeSelector, ListNodes
<1> QED BY <1>1, <1>2, <1>3 DEF ParseExpectState, ExpectedNames

-----------------------------------------------------------------------------
(* Types *)

\* A task consists of the calls that its step makes.
CallsOf(step) ==
  CASE step = "sync" -> {"ensure", "create", "serve"}
    [] step = "cleanAll" -> {"clean"}
    [] step = "remove" -> {"visit", "clean"}
    [] OTHER -> {}

TaskType == \A w \in Names : task[w] \in Seq(CallsOf(pc)) /\ Len(task[w]) <= 2
\* A worker for which there is something to do is expected, or redundant.
TasksAreOfRun ==
  \A w \in Names : task[w] # << >> =>
    /\ pc \in {"sync", "cleanAll"} => w \in run.expect
    /\ pc = "remove" => run.redundant[w] # None
RunType ==
  pc # "idle" => run.cg \in Group /\ run.expect \subseteq ExpectedNames(RunSpec)

TypeInv == TypeOK /\ TaskType /\ TasksAreOfRun /\ RunType

LEMMA TaskIsSeq ==
  ASSUME NEW t
  PROVE  t \in Tasks <=> t \in Seq(Calls) /\ Len(t) <= 2
<1>1. ASSUME t \in Tasks PROVE t \in Seq(Calls) /\ Len(t) <= 2
  <2>1. PICK n \in 0 .. 2 : t \in [1 .. n -> Calls]
    BY <1>1 DEF Tasks
  <2>2. t \in Seq(Calls)
    BY <2>1, SeqDef
  <2>3. 1 .. Len(t) = 1 .. n /\ Len(t) \in Nat
    BY <2>1, <2>2, LenProperties
  <2> QED BY <2>2, <2>3
<1>2. ASSUME t \in Seq(Calls), Len(t) <= 2 PROVE t \in Tasks
  <2>1. Len(t) \in Nat /\ t \in [1 .. Len(t) -> Calls]
    BY <1>2, LenProperties
  <2>2. Len(t) \in 0 .. 2
    BY <1>2, <2>1
  <2> QED BY <2>1, <2>2 DEF Tasks
<1> QED BY <1>1, <1>2

LEMMA NoCalls ==
  /\ << >> \in Tasks
  /\ \A step \in Steps : << >> \in Seq(CallsOf(step)) /\ Len(<< >>) <= 2
<1>1. \A S : << >> \in Seq(S) /\ Len(<< >>) <= 2
  BY EmptySeq
<1>2. << >> \in Tasks
  BY <1>1, TaskIsSeq
<1> QED BY <1>1, <1>2

LEMMA InitTypeInv == Init => TypeInv
<1> SUFFICES ASSUME Init PROVE TypeInv
  OBVIOUS
<1> USE DEF Init
<1>1. cg \in Group /\ seenCg = cg /\ cg.spec \in Specs
  BY DEF Group
<1>2. nodes \in [Nodes -> (UNION {NodeObjects(s) : s \in Specs}) \cup {None}] /\ seenNodes = nodes
  <2>1. nodes \in [Nodes -> NodeObjects(cg.spec)]
    BY <1>1, LifetimeAssumption DEF LifetimeAssumption
  <2> QED BY <1>1, <2>1
<1>3. NoWorkers \in [Names -> Worker \cup {None}] /\ run = NoRun /\ pods = NoWorkers /\ seenPods = NoWorkers
  BY DEF NoWorkers
<1>4. pc = "idle" /\ \A w \in Names : task[w] = << >>
  BY DEF NoTask
<1>5. task \in [Names -> Tasks] /\ TaskType /\ TasksAreOfRun
  <2>1. task \in [Names -> Tasks]
    BY NoCalls DEF NoTask
  <2> QED BY <1>4, <2>1, NoCalls DEF TaskType, TasksAreOfRun, Steps
<1>6. jobs \in [JobNames -> {None, "created", "finished"}] /\ claims \in [Names -> Claim \cup {None}]
  OBVIOUS
<1>7. secret \in BOOLEAN /\ queued \in BOOLEAN /\ excused \in BOOLEAN /\ events \in Nat /\ dirty \subseteq Nodes
  OBVIOUS
<1>8. TypeOK
  BY <1>1, <1>2, <1>3, <1>4, <1>5, <1>6, <1>7 DEF TypeOK, NoRun, Steps
<1> QED BY <1>4, <1>5, <1>8 DEF TypeInv, RunType

\* What a reconcile leaves when it has ended.
LEMMA ForgetType ==
  ASSUME Forget
  PROVE  /\ pc' \in Steps
         /\ run'.cg \in Group \cup {None} /\ run'.expect \subseteq Names /\ run'.redundant \in [Names -> Worker \cup {None}]
         /\ task' \in [Names -> Tasks]
         /\ TaskType' /\ TasksAreOfRun' /\ RunType'
<1>1. << >> \in Tasks
  BY NoCalls
<1>2. task' = [w \in Names |-> << >>] /\ pc' = "idle" /\ run' = NoRun
  BY DEF Forget, NoTask
<1>3. TaskType' /\ TasksAreOfRun'
  BY <1>2, NoCalls DEF TaskType, TasksAreOfRun, Steps
<1> QED BY <1>1, <1>2, <1>3 DEF NoRun, NoWorkers, Steps, RunType

\* What a call leaves of the tasks.
LEMMA CallTasks ==
  ASSUME TypeInv, NEW w \in Names, NEW call, Call(w, call), UNCHANGED <<pc, run>>
  PROVE  /\ task' \in [Names -> Tasks]
         /\ TaskType' /\ TasksAreOfRun' /\ RunType'
         /\ call \in CallsOf(pc) /\ task[w] # << >>
<1>1. task \in [Names -> Tasks] /\ task' = [task EXCEPT ![w] = Tail(@)] /\ task[w] # << >> /\ Head(task[w]) = call
  BY DEF TypeInv, TypeOK, Call
<1>2. task[w] \in Seq(CallsOf(pc)) /\ task[w] \in Seq(Calls) /\ Len(task[w]) <= 2
  BY <1>1, TaskIsSeq DEF TypeInv, TaskType
<1>3. Tail(task[w]) \in Seq(CallsOf(pc)) /\ Tail(task[w]) \in Seq(Calls) /\ Len(Tail(task[w])) <= 2 /\ call \in CallsOf(pc)
  BY <1>1, <1>2, HeadTailProperties, LenProperties
<1>4. task' \in [Names -> Tasks]
  BY <1>1, <1>3, TaskIsSeq
<1>5. TaskType'
  BY <1>1, <1>3 DEF TypeInv, TaskType
<1>6. TasksAreOfRun' /\ RunType'
  BY <1>1 DEF TypeInv, TasksAreOfRun, RunType, RunSpec, CgSpec
<1> QED BY <1>1, <1>3, <1>4, <1>5, <1>6

LEMMA SpecTypes ==
  ASSUME NEW g \in Group
  PROVE  /\ g.spec \in Specs /\ g # None /\ g.finalizer \in BOOLEAN /\ g.deleting \in BOOLEAN
         /\ Requested(g) \in Nat
         /\ \A w \in ExpectedNames(CgSpec(g)) : NodeName(CgSpec(g), w) \in Nodes \cup {None}
<1>1. g.spec \in Specs /\ g # None /\ g.finalizer \in BOOLEAN /\ g.deleting \in BOOLEAN
  BY NoneAssumption DEF Group
<1>2. Requested(g) \in Nat
  BY <1>1, SpecAssumption DEF SpecAssumption, Requested, CgSpec
<1>3. \A w \in ExpectedNames(CgSpec(g)) : NodeName(CgSpec(g), w) \in Nodes \cup {None}
  BY DEF ExpectedNames, NodeName
<1> QED BY <1>1, <1>2, <1>3

LEMMA CallsType == ASSUME TypeInv, NEW w \in Names, WorkerCall(w) PROVE TypeInv'
<1> USE DEF TypeInv
<1>1. UNCHANGED <<nodes, seenNodes, cg, seenCg, secret, seenPods, dirty, pc, run, events>>
  BY DEF WorkerCall, EnsureClaims, CreateWorker, RestartWorker, BeginsLeaving, DeleteWorker, CleanWorkerCache,
         cluster, cache
<1>2. ASSUME NEW call, Call(w, call)
      PROVE  /\ task' \in [Names -> Tasks] /\ TaskType' /\ TasksAreOfRun' /\ RunType'
             /\ call \in CallsOf(pc) /\ task[w] # << >>
  BY <1>1, <1>2, CallTasks
<1>3. ASSUME task' \in [Names -> Tasks], pods' \in [Names -> Worker \cup {None}],
             claims' \in [Names -> Claim \cup {None}], jobs' \in [JobNames -> {None, "created", "finished"}],
             queued' \in BOOLEAN, excused' \in BOOLEAN
      PROVE  TypeOK'
  BY <1>1, <1>3 DEF TypeOK
<1>4. /\ pods \in [Names -> Worker \cup {None}] /\ claims \in [Names -> Claim \cup {None}]
      /\ jobs \in [JobNames -> {None, "created", "finished"}]
      /\ queued \in BOOLEAN /\ excused \in BOOLEAN /\ task \in [Names -> Tasks]
      /\ run.redundant \in [Names -> Worker \cup {None}]
  BY DEF TypeOK
<1>5. CASE EnsureClaims(w)
  <2>1. Call(w, "ensure")
    BY <1>5 DEF EnsureClaims
  <2>2. pc = "sync" /\ run.cg \in Group
    BY <1>2, <2>1 DEF CallsOf, RunType
  <2>3. Requested(run.cg) \in Nat
    BY <2>2, SpecTypes
  <2>4. claims' \in [Names -> Claim \cup {None}]
    BY <1>4, <1>5, <2>3 DEF EnsureClaims, Claim
  <2>5. UNCHANGED <<pods, jobs, excused>> /\ queued' \in BOOLEAN
    BY <1>4, <1>5 DEF EnsureClaims, cluster
  <2> QED BY <1>2, <1>3, <1>4, <2>1, <2>4, <2>5
<1>6. CASE CreateWorker(w)
  <2>1. Call(w, "create")
    BY <1>6 DEF CreateWorker
  <2>2. pc = "sync" /\ run.cg \in Group /\ w \in ExpectedNames(RunSpec)
    BY <1>2, <2>1 DEF CallsOf, RunType, TasksAreOfRun
  <2>3. NodeName(RunSpec, w) \in Nodes \cup {None}
    BY <2>2, SpecTypes DEF RunSpec
  <2>4. pods' \in [Names -> Worker \cup {None}]
    BY <1>4, <1>6, <2>3 DEF CreateWorker, Worker
  <2>5. UNCHANGED <<claims, jobs, excused, queued>>
    BY <1>6 DEF CreateWorker, cluster
  <2> QED BY <1>2, <1>3, <1>4, <2>1, <2>4, <2>5
<1>7. CASE RestartWorker(w) \/ BeginsLeaving(w)
  <2>1. Call(w, "serve") \/ Call(w, "visit")
    BY <1>7 DEF RestartWorker, BeginsLeaving
  <2>2. pods' \in [Names -> Worker \cup {None}]
    <3>1. \A b \in BOOLEAN : pods[w] # None => [pods EXCEPT ![w].leaving = b] \in [Names -> Worker \cup {None}]
      BY <1>4 DEF Worker
    <3>2. CASE pods' = pods
      BY <1>4, <3>2
    <3>3. CASE pods[w] # None /\ \E b \in BOOLEAN : pods' = [pods EXCEPT ![w].leaving = b]
      BY <3>1, <3>3
    <3> QED BY <1>7, <3>2, <3>3 DEF RestartWorker, BeginsLeaving, Exists
  <2>3. UNCHANGED <<claims, jobs, excused, queued>>
    BY <1>7 DEF RestartWorker, BeginsLeaving, cluster
  <2> QED BY <1>2, <1>3, <1>4, <2>1, <2>2, <2>3
<1>8. CASE DeleteWorker(w)
  <2>1. task[w] = <<"visit">> /\ task' = [task EXCEPT ![w] = <<"clean">>]
    BY <1>8 DEF DeleteWorker
  <2>2. pc = "remove"
    <3>1. task[w] \in Seq(CallsOf(pc)) /\ Head(task[w]) = "visit" /\ task[w] # << >>
      BY <2>1 DEF TaskType
    <3>2. "visit" \in CallsOf(pc)
      BY <3>1, HeadTailProperties
    <3> QED BY <3>2 DEF CallsOf
  <2>3. <<"clean">> \in Seq(CallsOf(pc)) /\ <<"clean">> \in Tasks /\ Len(<<"clean">>) <= 2
    <3>1. <<"clean">> \in Seq(CallsOf(pc)) /\ <<"clean">> \in Seq(Calls) /\ Len(<<"clean">>) <= 2
      BY <2>2 DEF CallsOf, Calls
    <3> QED BY <3>1, TaskIsSeq
  <2>4. task' \in [Names -> Tasks] /\ TaskType'
    BY <1>1, <1>4, <2>1, <2>3 DEF TaskType
  <2>5. TasksAreOfRun' /\ RunType'
    <3>1. task[w] # << >>
      BY <2>1
    <3> QED BY <1>1, <1>4, <2>1, <3>1 DEF TasksAreOfRun, RunType, RunSpec, CgSpec
  <2>6. pods' \in [Names -> Worker \cup {None}]
    BY <1>4, <1>8 DEF DeleteWorker, Exists, Worker
  <2>7. UNCHANGED <<claims, jobs, excused, queued>>
    BY <1>8 DEF DeleteWorker, cluster
  <2> QED BY <1>3, <1>4, <2>4, <2>5, <2>6, <2>7
<1>9. CASE CleanWorkerCache(w)
  <2>1. Call(w, "clean")
    BY <1>9 DEF CleanWorkerCache
  <2>2. pc \in {"cleanAll", "remove"} /\ run.cg \in Group
    BY <1>2, <2>1 DEF CallsOf, RunType, TypeOK, Steps
  <2>3. CleanedNode(w) \in Nodes \cup {None}
    <3>1. CASE pc = "cleanAll"
      BY <1>2, <2>1, <2>2, <3>1, SpecTypes DEF CleanedNode, RunType, TasksAreOfRun, RunSpec
    <3>2. CASE pc = "remove"
      <4>1. run.redundant[w] \in Worker
        BY <1>2, <1>4, <2>1, <3>2 DEF TasksAreOfRun
      <4> QED BY <3>2, <4>1 DEF CleanedNode, Worker
    <3> QED BY <2>2, <3>1, <3>2
  <2>4. CleanCacheJobName(CleanedNode(w)) \in JobNames
    BY <2>3 DEF JobNames
  <2>5. jobs' \in [JobNames -> {None, "created", "finished"}]
    BY <1>4, <1>9, <2>4 DEF CleanWorkerCache
  <2>6. claims' \in [Names -> Claim \cup {None}]
    BY <1>4, <1>9 DEF CleanWorkerCache, Claim
  <2>7. UNCHANGED pods /\ queued' \in BOOLEAN /\ excused' \in BOOLEAN
    BY <1>4, <1>9 DEF CleanWorkerCache
  <2> QED BY <1>2, <1>3, <2>1, <1>4, <2>5, <2>6, <2>7
<1> QED BY <1>5, <1>6, <1>7, <1>8, <1>9 DEF WorkerCall

LEMMA BeginType ==
  ASSUME TypeInv, seenCg # None, NEW step \in Steps \ {"idle", "remove"}, NEW expect, NEW calls,
         expect \subseteq ExpectedNames(CgSpec(seenCg)),
         \A w \in expect : calls[w] \in Seq(CallsOf(step)) /\ calls[w] \in Tasks,
         Begin(step, expect, calls)
  PROVE  TypeInv'
<1> DEFINE redundant == [w \in Names |-> IF IsRedundant(CgSpec(seenCg), w, seenPods[w], expect)
                                        THEN seenPods[w] ELSE None]
<1>1. /\ UNCHANGED <<nodes, seenNodes, cg, seenCg, secret, pods, seenPods, claims, jobs, dirty, events, excused>>
      /\ pc' = step /\ queued' = FALSE
      /\ run'.cg = seenCg /\ run'.expect = expect
      /\ task' = [w \in Names |-> IF w \in expect THEN calls[w] ELSE << >>]
  BY DEF Begin, cluster, cache
<1>2. seenCg \in Group /\ expect \subseteq Names
  BY DEF TypeInv, TypeOK, ExpectedNames, Names
<1>3. run'.redundant \in [Names -> Worker \cup {None}]
  <2>1. redundant \in [Names -> Worker \cup {None}] /\ NoWorkers \in [Names -> Worker \cup {None}]
    BY DEF TypeInv, TypeOK, NoWorkers
  <2>2. run'.redundant \in {redundant, NoWorkers}
    BY DEF Begin
  <2> QED BY <2>1, <2>2
<1>4. task' \in [Names -> Tasks]
  BY <1>1, NoCalls
<1>5. TaskType'
  <2> SUFFICES ASSUME NEW w \in Names PROVE task'[w] \in Seq(CallsOf(pc')) /\ Len(task'[w]) <= 2
    BY DEF TaskType
  <2>1. CASE w \in expect
    BY <1>1, <2>1, TaskIsSeq
  <2>2. CASE w \notin expect
    BY <1>1, <2>2, NoCalls
  <2> QED BY <2>1, <2>2
<1>6. TasksAreOfRun' /\ RunType'
  BY <1>1, <1>2 DEF TasksAreOfRun, RunType, RunSpec, CgSpec
<1>7. TypeOK'
  BY <1>1, <1>2, <1>3, <1>4 DEF TypeInv, TypeOK
<1> QED BY <1>5, <1>6, <1>7 DEF TypeInv

LEMMA CallsForType ==
  ASSUME NEW w
  PROVE  CallsFor(w) \in Seq(CallsOf("sync")) /\ CallsFor(w) \in Tasks
<1> DEFINE C == {"ensure", "create", "serve"}
           first == IF HasClaims(seenCg) THEN <<"ensure">> ELSE << >>
           second == CASE ~Exists(seenPods, w) -> <<"create">>
                       [] Exists(seenPods, w) /\ seenPods[w].leaving -> <<"serve">>
                       [] OTHER -> << >>
<1>1. first \in Seq(C) /\ Len(first) \in 0 .. 1 /\ second \in Seq(C) /\ Len(second) \in 0 .. 1
  <2>1. /\ <<"ensure">> \in Seq(C) /\ Len(<<"ensure">>) = 1
        /\ <<"create">> \in Seq(C) /\ Len(<<"create">>) = 1
        /\ <<"serve">> \in Seq(C) /\ Len(<<"serve">>) = 1
    OBVIOUS
  <2>2. << >> \in Seq(C) /\ Len(<< >>) = 0
    BY EmptySeq
  <2>3. first = <<"ensure">> \/ first = << >>
    OBVIOUS
  <2>4. second = <<"create">> \/ second = <<"serve">> \/ second = << >>
    OBVIOUS
  <2> HIDE DEF first, second, C
  <2>5. first \in Seq(C) /\ (Len(first) = 0 \/ Len(first) = 1)
    BY <2>1, <2>2, <2>3, Zenon
  <2>6. second \in Seq(C) /\ (Len(second) = 0 \/ Len(second) = 1)
    BY <2>1, <2>2, <2>4, Zenon
  <2> QED BY <2>5, <2>6
<1>2. CallsFor(w) = first \o second
  BY DEF CallsFor
<1> HIDE DEF first, second, C
<1>3. first \o second \in Seq(C) /\ Len(first \o second) <= 2
  BY <1>1, ConcatProperties
<1>4. C \subseteq Calls /\ C = CallsOf("sync")
  BY DEF C, Calls, CallsOf
<1>5. first \o second \in Seq(Calls)
  BY <1>3, <1>4, SeqMonotonic
<1> QED BY <1>2, <1>3, <1>4, <1>5, TaskIsSeq

LEMMA ReconcileType ==
  ASSUME TypeInv, Step, ~ \E w \in Names : WorkerCall(w)
  PROVE  TypeInv'
<1>1. UNCHANGED vars => TypeInv'
  BY DEF vars, cluster, cache, reconcile, TypeInv, TypeOK, TaskType, TasksAreOfRun, RunType, RunSpec, CgSpec
<1>2. seenCg # None =>
        /\ seenCg.spec \in Specs
        /\ Expects(seenCg, seenNodes, seenPods) \subseteq ExpectedNames(CgSpec(seenCg))
  BY SpecTypes, ExpectedType DEF TypeInv, TypeOK, Expects, CgSpec
<1>3. CASE ReconcileGone \/ ReconcileFails
  <2>1. UNCHANGED <<cluster, cg, pods, claims, cache, reconcile, events, excused>> /\ queued' \in BOOLEAN
    BY <1>3 DEF ReconcileGone, ReconcileFails, vars, TypeInv, TypeOK
  <2> QED BY <2>1 DEF cluster, cache, reconcile, TypeInv, TypeOK, TaskType, TasksAreOfRun, RunType, RunSpec, CgSpec
<1>4. CASE ReconcileNew
  <2>1. seenCg # None /\ Begin("addFinalizer", {}, NoTask)
    BY <1>4 DEF ReconcileNew
  <2> QED BY <2>1, BeginType DEF Steps
<1>5. CASE ReconcileSync
  <2>1. seenCg # None /\ Begin("sync", Expects(seenCg, seenNodes, seenPods), [w \in Names |-> CallsFor(w)])
    BY <1>5 DEF ReconcileSync
  <2>2. Expects(seenCg, seenNodes, seenPods) \subseteq Names
    BY <1>2, <2>1 DEF ExpectedNames, Names
  <2>3. \A w \in Expects(seenCg, seenNodes, seenPods) :
          LET calls == [v \in Names |-> CallsFor(v)] IN
          calls[w] \in Seq(CallsOf("sync")) /\ calls[w] \in Tasks
    BY <2>2, CallsForType
  <2> QED BY <1>2, <2>1, <2>3, BeginType DEF Steps
<1>6. CASE ReconcileDeleted
  <2>1. seenCg # None
        /\ \/ Begin("cleanAll", Expects(seenCg, seenNodes, seenPods), [w \in Names |-> <<"clean">>])
           \/ Begin("removeFinalizer", {}, NoTask)
    BY <1>6 DEF ReconcileDeleted
  <2>2. Expects(seenCg, seenNodes, seenPods) \subseteq Names
    BY <1>2, <2>1 DEF ExpectedNames, Names
  <2>3. <<"clean">> \in Seq(CallsOf("cleanAll")) /\ <<"clean">> \in Tasks
    <3>1. <<"clean">> \in Seq(CallsOf("cleanAll")) /\ <<"clean">> \in Seq(Calls) /\ Len(<<"clean">>) <= 2
      BY DEF CallsOf, Calls
    <3> QED BY <3>1, TaskIsSeq
  <2>4. CASE Begin("cleanAll", Expects(seenCg, seenNodes, seenPods), [w \in Names |-> <<"clean">>])
    <3>1. \A w \in Expects(seenCg, seenNodes, seenPods) :
            LET calls == [v \in Names |-> <<"clean">>] IN
            calls[w] \in Seq(CallsOf("cleanAll")) /\ calls[w] \in Tasks
      BY <2>2, <2>3
    <3> QED BY <1>2, <2>1, <2>4, <3>1, BeginType DEF Steps
  <2>5. CASE Begin("removeFinalizer", {}, NoTask)
    BY <2>1, <2>5, BeginType DEF Steps
  <2> QED BY <2>1, <2>4, <2>5
<1>7. ASSUME Forget, UNCHANGED <<nodes, seenNodes, seenCg, secret, pods, seenPods, claims, jobs, dirty, events>>,
             cg' \in Group \cup {None}, queued' \in BOOLEAN, excused' \in BOOLEAN
      PROVE  TypeInv'
  BY <1>7, ForgetType DEF TypeInv, TypeOK
<1>8. queued \in BOOLEAN /\ excused \in BOOLEAN /\ cg \in Group \cup {None}
  BY DEF TypeInv, TypeOK
<1>9. CASE AddFinalizer \/ RemoveFinalizer
  <2>1. Forget /\ UNCHANGED <<nodes, seenNodes, seenCg, secret, pods, seenPods, claims, jobs, dirty, events>>
    BY <1>9 DEF AddFinalizer, RemoveFinalizer, UpdateFinalizer, Return, ReturnError, cluster, cache
  <2>2. cg' \in Group \cup {None}
    <3>1. CASE AddFinalizer
      <4>1. run.cg \in Group
        BY <3>1 DEF AddFinalizer, UpdateFinalizer, TypeInv, RunType
      <4>2. [run.cg EXCEPT !.finalizer = TRUE] \in Group
        BY <4>1 DEF Group
      <4> QED BY <1>8, <3>1, <4>2 DEF AddFinalizer, UpdateFinalizer
    <3>2. CASE RemoveFinalizer
      BY <1>8, <3>2 DEF RemoveFinalizer, UpdateFinalizer
    <3> QED BY <1>9, <3>1, <3>2
  <2>3. queued' \in BOOLEAN /\ excused' \in BOOLEAN
    BY <1>8, <1>9 DEF AddFinalizer, RemoveFinalizer, UpdateFinalizer, Return, ReturnError
  <2> QED BY <1>7, <2>1, <2>2, <2>3
<1>10. CASE WriteStatus
  <2>1. Forget /\ UNCHANGED <<nodes, seenNodes, seenCg, secret, pods, seenPods, claims, jobs, dirty, events, excused>>
    BY <1>10 DEF WriteStatus, cluster, cache
  <2>2. cg' \in Group \cup {None}
    BY <1>8, <1>10 DEF WriteStatus, Group
  <2>3. queued' \in BOOLEAN
    BY <1>8, <1>10 DEF WriteStatus
  <2> QED BY <1>7, <1>8, <2>1, <2>2, <2>3
<1>11. CASE CleanAllDone
  <2>1. UNCHANGED <<cluster, cg, pods, claims, cache, queued, run, task, events, excused>>
        /\ pc = "cleanAll" /\ pc' = "removeFinalizer" /\ \A w \in Names : task[w] = << >>
    BY <1>11 DEF CleanAllDone, AllDone, NoTask
  <2>2. TypeOK'
    BY <2>1 DEF TypeInv, TypeOK, Steps, cluster, cache
  <2>3. TaskType' /\ TasksAreOfRun'
    BY <2>1, NoCalls DEF TaskType, TasksAreOfRun, Steps
  <2>4. RunType'
    BY <2>1 DEF TypeInv, RunType, RunSpec, CgSpec
  <2> QED BY <2>2, <2>3, <2>4 DEF TypeInv
<1>12. CASE StartRemoval
  <2>1. UNCHANGED <<cluster, cg, pods, claims, cache, queued, run, events, excused>> /\ pc = "sync" /\ pc' = "remove"
        /\ task' = [w \in Names |-> IF Exists(run.redundant, w) THEN <<"visit">> ELSE << >>]
    BY <1>12 DEF StartRemoval
  <2>2. <<"visit">> \in Seq(CallsOf("remove")) /\ <<"visit">> \in Tasks /\ Len(<<"visit">>) <= 2
    <3>1. <<"visit">> \in Seq(CallsOf("remove")) /\ <<"visit">> \in Seq(Calls) /\ Len(<<"visit">>) <= 2
      BY DEF CallsOf, Calls
    <3> QED BY <3>1, TaskIsSeq
  <2>3. TypeOK'
    BY <2>1, <2>2, NoCalls DEF TypeInv, TypeOK, Steps, cluster, cache
  <2>4. TaskType'
    BY <2>1, <2>2, NoCalls DEF TaskType, Steps
  <2>5. TasksAreOfRun' /\ RunType'
    BY <2>1 DEF TypeInv, TasksAreOfRun, RunType, RunSpec, CgSpec, Exists
  <2> QED BY <2>3, <2>4, <2>5 DEF TypeInv
<1> QED BY <1>3, <1>4, <1>5, <1>6, <1>9, <1>10, <1>11, <1>12 DEF Step

LEMMA FaultType == ASSUME TypeInv, CallFails \/ Crash PROVE TypeInv'
<1> USE DEF TypeInv
<1>1. ASSUME NEW kind, NEW g \in Group \cup {None}, Happens(kind, g) PROVE events' \in Nat
  BY <1>1 DEF Happens, TypeOK
<1>2. events' \in Nat
  BY <1>1 DEF CallFails, Crash, TypeOK
<1>3. queued \in BOOLEAN /\ excused \in BOOLEAN
  BY DEF TypeOK
<1>4. CASE Crash
  <2>1. Forget /\ queued' = TRUE /\ seenNodes' = nodes /\ seenCg' = cg /\ seenPods' = pods
        /\ UNCHANGED <<cluster, cg, pods, claims>> /\ excused' \in BOOLEAN
    BY <1>3, <1>4 DEF Crash
  <2> QED BY <1>2, <2>1, ForgetType DEF TypeOK, cluster
<1>5. CASE CallFails
  <2>1. UNCHANGED <<cluster, cg, pods, claims, cache>>
    BY <1>5 DEF CallFails
  <2>2. CASE ReturnError /\ UNCHANGED excused
    <3>1. Forget /\ queued' = TRUE
      BY <2>2 DEF ReturnError
    <3> QED BY <1>2, <2>1, <2>2, <3>1, ForgetType DEF TypeOK, cluster, cache
  <2>3. CASE UNCHANGED <<queued, pc, run>> /\ excused' = TRUE /\ \E w \in Names : Call(w, "clean")
    <3>1. task' \in [Names -> Tasks] /\ TaskType' /\ TasksAreOfRun' /\ RunType'
      BY <2>3, CallTasks
    <3> QED BY <1>2, <2>1, <2>3, <3>1 DEF TypeOK, cluster, cache
  <2>4. CASE pc \in {"sync", "remove"} /\ pc' = "remove" /\ task' = NoTask /\ queued' = TRUE /\ UNCHANGED run
             /\ excused' \in BOOLEAN
    <3>1. task' = [w \in Names |-> << >>]
      BY <2>4 DEF NoTask
    <3>2. task' \in [Names -> Tasks] /\ TaskType' /\ TasksAreOfRun'
      BY <2>4, <3>1, NoCalls DEF TaskType, TasksAreOfRun, Steps
    <3>3. RunType'
      BY <2>4 DEF RunType, RunSpec, CgSpec
    <3> QED BY <1>2, <2>1, <2>4, <3>2, <3>3 DEF TypeOK, Steps, cluster, cache
  <2> QED BY <1>3, <1>5, <2>2, <2>3, <2>4 DEF CallFails
<1> QED BY <1>4, <1>5

\* A step outside the reconcile leaves it alone.
LEMMA OutsideType ==
  ASSUME TypeInv, UNCHANGED reconcile, TypeOK'
  PROVE  TypeInv'
BY DEF reconcile, TypeInv, TaskType, TasksAreOfRun, RunType, RunSpec, CgSpec

LEMMA ClusterType ==
  ASSUME TypeInv, Observe \/ Kubelet \/ Jobs \/ Collect \/ \E w \in Names : WorkerPlaced(w)
  PROVE  TypeInv'
<1> USE DEF TypeInv
<1>1. UNCHANGED reconcile
  BY DEF Observe, ObserveGroup, ObserveWorkers, ObserveNode, Kubelet, WorkerStarts, WorkerStops, ClaimGoes,
         Jobs, JobRuns, JobFails, JobExpires, Collect, WorkerPlaced, Outside
<1>2. CASE Observe
  <2>1. ASSUME ObserveGroup \/ ObserveWorkers PROVE TypeOK'
    BY <2>1 DEF ObserveGroup, ObserveWorkers, TypeOK, cluster, reconcile
  <2>2. ASSUME NEW n \in Nodes, ObserveNode(n) PROVE TypeOK'
    BY <2>2 DEF ObserveNode, TypeOK, cluster, reconcile
  <2> QED BY <1>1, <1>2, <2>1, <2>2, OutsideType DEF Observe
<1>3. pods \in [Names -> Worker \cup {None}] /\ claims \in [Names -> Claim \cup {None}]
  BY DEF TypeOK
<1>4. ASSUME UNCHANGED Outside, UNCHANGED nodes, pods' \in [Names -> Worker \cup {None}],
             claims' \in [Names -> Claim \cup {None}], jobs' \in [JobNames -> {None, "created", "finished"}],
             dirty' \subseteq Nodes
      PROVE  TypeOK'
  BY <1>4 DEF Outside, cache, reconcile, TypeOK
<1>5. jobs \in [JobNames -> {None, "created", "finished"}] /\ dirty \subseteq Nodes
  BY DEF TypeOK
<1>6. CASE Kubelet
  <2>1. ASSUME NEW w \in Names, WorkerStarts(w) PROVE TypeOK'
    <3>1. pods[w] \in Worker /\ pods[w].node \in Nodes
      BY <1>3, <2>1 DEF WorkerStarts, Exists, Worker
    <3>2. pods' \in [Names -> Worker \cup {None}] /\ dirty' \subseteq Nodes
      BY <1>3, <1>5, <2>1, <3>1 DEF WorkerStarts, Worker
    <3> QED BY <1>3, <1>4, <1>5, <2>1, <3>2 DEF WorkerStarts
  <2>2. ASSUME NEW w \in Names, WorkerStops(w) PROVE TypeOK'
    BY <1>3, <1>4, <1>5, <2>2 DEF WorkerStops
  <2>3. ASSUME NEW w \in Names, ClaimGoes(w) PROVE TypeOK'
    BY <2>3 DEF ClaimGoes, TypeOK, cache, reconcile
  <2> QED BY <1>1, <1>6, <2>1, <2>2, <2>3, OutsideType DEF Kubelet
<1>7. CASE Jobs
  <2>1. ASSUME NEW j \in JobNames, JobRuns(j) \/ JobFails(j) \/ JobExpires(j) PROVE TypeOK'
    <3>1. jobs' \in [JobNames -> {None, "created", "finished"}] /\ dirty' \subseteq Nodes
      BY <1>5, <2>1 DEF JobRuns, JobFails, JobExpires
    <3> QED BY <1>3, <1>4, <2>1, <3>1 DEF JobRuns, JobFails, JobExpires
  <2> QED BY <1>1, <1>7, <2>1, OutsideType DEF Jobs
<1>8. CASE Collect
  <2>1. pods' \in [Names -> Worker \cup {None}]
    BY <1>3, <1>8 DEF Collect, Exists, Worker
  <2>2. claims' \in [Names -> Claim \cup {None}]
    BY <1>3, <1>8 DEF Collect, Claim
  <2> QED BY <1>1, <1>4, <1>5, <1>8, <2>1, <2>2, OutsideType DEF Collect
<1>9. ASSUME NEW w \in Names, WorkerPlaced(w) PROVE TypeOK'
  <2>1. PICK n \in Nodes : pods' = [pods EXCEPT ![w].node = n]
    BY <1>9 DEF WorkerPlaced, Places, ListNodes
  <2>2. pods[w] \in Worker
    BY <1>3, <1>9 DEF WorkerPlaced, Exists
  <2>3. pods' \in [Names -> Worker \cup {None}]
    BY <1>3, <2>1, <2>2 DEF Worker
  <2> QED BY <1>3, <1>4, <1>5, <1>9, <2>3 DEF WorkerPlaced
<1> QED BY <1>1, <1>2, <1>6, <1>7, <1>8, <1>9, OutsideType

LEMMA UserType == ASSUME TypeInv, User PROVE TypeInv'
<1> USE DEF TypeInv
<1>1. UNCHANGED reconcile /\ UNCHANGED <<pods, claims, cache, queued, excused, jobs>> /\ events' = events + 1
  BY DEF User, UserScales, UserExpands, UserDeletesGroup, UserDeletesSecret, UserEditsNode, Happens, cluster
<1>2. cg' \in Group \cup {None}
  <2>1. cg \in Group \cup {None}
    BY DEF TypeOK
  <2> QED BY <2>1 DEF User, UserScales, UserExpands, UserDeletesGroup, UserDeletesSecret, UserEditsNode, Group
<1>3. secret' \in BOOLEAN
  BY DEF User, UserScales, UserExpands, UserDeletesGroup, UserDeletesSecret, UserEditsNode, cluster, TypeOK
<1>4. nodes' \in [Nodes -> (UNION {NodeObjects(s) : s \in Specs}) \cup {None}] /\ dirty' \subseteq Nodes
  <2>1. nodes \in [Nodes -> (UNION {NodeObjects(s) : s \in Specs}) \cup {None}] /\ dirty \subseteq Nodes
    BY DEF TypeOK
  <2>2. CASE UNCHANGED <<nodes, dirty>>
    BY <2>1, <2>2
  <2>3. ASSUME NEW n \in Nodes, UserEditsNode(n) PROVE <1>4!:
    <3>1. cg.spec \in Specs
      BY <2>3 DEF UserEditsNode, Happens, TypeOK, Group
    <3> QED BY <2>1, <2>3, <3>1 DEF UserEditsNode
  <2> QED BY <2>2, <2>3 DEF User, UserScales, UserExpands, UserDeletesGroup, UserDeletesSecret, cluster
<1>5. TypeOK'
  BY <1>1, <1>2, <1>3, <1>4 DEF TypeOK, cache, reconcile
<1> QED BY <1>1, <1>5, OutsideType

LEMMA TypeStep == TypeInv /\ [Next]_vars => TypeInv'
<1>1. TypeInv /\ UNCHANGED vars => TypeInv'
  BY DEF vars, cluster, cache, reconcile, TypeInv, TypeOK, TaskType, TasksAreOfRun, RunType, RunSpec, CgSpec
<1> QED BY <1>1, CallsType, ReconcileType, FaultType, ClusterType, UserType DEF Next, Step

\* Every reachable state is well typed: what is expected are names of the group's own
\* kind, also by the simulated scheduler, a redundant worker is one that was listed,
\* and the job that cleans a cache is one of a node, or of none.
THEOREM TypeCorrect == Spec => []TypeOK
BY InitTypeInv, TypeStep, PTL DEF Spec, TypeInv

-----------------------------------------------------------------------------
(* Where the workers run *)

\* An overwrite that goes by the labels of the nodes does not set the affinity.
LabelsLeaveAffinity ==
  \A s \in Specs : LET overwrite == SpecOf(s).overwrite IN
    \A i \in DOMAIN overwrite : overwrite[i].selector = None \/ "affinity" \notin DOMAIN overwrite[i].set

\* The template of a worker, overwrite by overwrite.
Merged(spec, ns, w, f) ==
  /\ f[0] = spec.template
  /\ \A i \in 0 .. Len(spec.overwrite) : "affinity" \in DOMAIN f[i]
  /\ \A i \in 1 .. Len(spec.overwrite) :
       f[i] = IF Overwrites(spec.overwrite[i], ns, w)
              THEN MergeCacheGroupWorkerTemplate(f[i - 1], spec.overwrite[i]) ELSE f[i - 1]
  /\ TemplateOf(spec, ns, w) = f[Len(spec.overwrite)]

LEMMA TemplateExists ==
  ASSUME NEW s \in Specs, NEW ns, NEW w
  PROVE  \E f : Merged(SpecOf(s), ns, w, f)
<1> DEFINE spec == SpecOf(s)
           template == spec.template
           overwrite == spec.overwrite
           N == Len(overwrite)
           F == DOMAIN template
           V == {template[x] : x \in F}
                \cup UNION {{overwrite[i].set[x] : x \in DOMAIN overwrite[i].set} : i \in 1 .. N}
           D == [F -> V]
           After(i, t) == IF Overwrites(overwrite[i], ns, w)
                          THEN MergeCacheGroupWorkerTemplate(t, overwrite[i]) ELSE t
           step == [i \in 1 .. N |-> [t \in D |-> After(i, t)]]
<1>1. N \in Nat
  <2>1. overwrite \in Seq({overwrite[i] : i \in DOMAIN overwrite})
    BY SpecAssumption DEF SpecAssumption
  <2> HIDE DEF overwrite
  <2> QED BY <2>1, LenProperties
<1>2. template \in D /\ "affinity" \in F
  <2>1. template = [x \in DOMAIN template |-> template[x]] /\ "affinity" \in F
    BY SpecAssumption DEF SpecAssumption
  <2> HIDE DEF template
  <2> QED BY <2>1
<1>3. ASSUME NEW i \in 1 .. N, NEW t \in D PROVE After(i, t) \in D
  <2>1. ASSUME NEW x \in F, x \in DOMAIN overwrite[i].set PROVE overwrite[i].set[x] \in V
    BY <2>1
  <2>2. DOMAIN t = F /\ \A x \in F : t[x] \in V
    OBVIOUS
  <2>3. MergeCacheGroupWorkerTemplate(t, overwrite[i]) \in D
    <3> HIDE DEF V, F, overwrite
    <3> QED BY <2>1, <2>2 DEF MergeCacheGroupWorkerTemplate
  <2> HIDE DEF D, overwrite
  <2> QED BY <2>3
<1>4. step \in [1 .. N -> [D -> D]]
  <2> HIDE DEF D, After, N
  <2> QED BY <1>3
<1>5. \E f : f = [i \in 0 .. N |-> IF i = 0 THEN template ELSE After(i, f[i - 1])]
  <2>1. PICK f \in [0 .. N -> D] : f[0] = template /\ \A i \in 1 .. N : f[i] = step[i][f[i - 1]]
    <3> HIDE DEF step, D, N, template
    <3>1. Defines(N, D, template, step)
      BY <1>1, <1>2, <1>4, RecursionExists
    <3> QED BY <3>1 DEF Defines
  <2> HIDE DEF D, N, template, After
  <2>2. \A i \in 1 .. N : i - 1 \in 0 .. N
    BY <1>1
  <2>3. \A i \in 1 .. N : f[i] = After(i, f[i - 1])
    BY <2>1, <2>2
  <2> DEFINE g == [i \in 0 .. N |-> IF i = 0 THEN template ELSE After(i, f[i - 1])]
  <2>4. \A i \in 0 .. N : i = 0 \/ i \in 1 .. N
    BY <1>1
  <2>5. \A i \in 0 .. N : g[i] = f[i]
    <3> HIDE DEF step
    <3> QED BY <2>1, <2>3, <2>4
  <2>6. g = f
    <3>1. g = [i \in 0 .. N |-> g[i]] /\ f = [i \in 0 .. N |-> f[i]]
      BY <2>1
    <3> HIDE DEF g
    <3> QED BY <2>5, <3>1
  <2> QED BY <2>6
<1>6. PICK f : /\ f = [i \in 0 .. N |-> IF i = 0 THEN template ELSE After(i, f[i - 1])]
               /\ TemplateOf(spec, ns, w) = f[N]
  BY <1>5 DEF TemplateOf
<1> HIDE DEF D
<1>7. /\ f[0] = template
      /\ \A i \in 1 .. N : f[i] = After(i, f[i - 1])
  <2> HIDE DEF After, template, N
  <2> QED BY <1>1, <1>6
<1> DEFINE S == {i \in 0 .. N : f[i] \in D}
<1>8. 0 .. N \subseteq S
  <2> HIDE DEF After, template, N
  <2>1. 0 \in S
    BY <1>1, <1>2, <1>7
  <2>2. ASSUME NEW i \in 0 .. N - 1, i \in S PROVE i + 1 \in S
    <3>1. i + 1 \in 1 .. N /\ f[i + 1] = After(i + 1, f[i])
      BY <1>1, <1>7
    <3> QED BY <1>1, <1>3, <2>2, <3>1
  <2> HIDE DEF S
  <2> QED BY <1>1, <2>1, <2>2, UptoInduction
<1>9. \A i \in 0 .. N : "affinity" \in DOMAIN f[i]
  <2>1. \A i \in 0 .. N : f[i] \in [F -> V]
    BY <1>8 DEF D
  <2> HIDE DEF F, V, N
  <2> QED BY <1>2, <2>1
<1> QED BY <1>6, <1>7, <1>9 DEF Merged

\* Then the affinity of a worker does not depend on the labels of the nodes.
LEMMA SameAffinity ==
  ASSUME LabelsLeaveAffinity, NEW s \in Specs, NEW t \in Specs, NEW ns, NEW ms, NEW w,
         SpecOf(s).overwrite = SpecOf(t).overwrite, SpecOf(s).template.affinity = SpecOf(t).template.affinity
  PROVE  TemplateOf(SpecOf(s), ns, w).affinity = TemplateOf(SpecOf(t), ms, w).affinity
<1> DEFINE overwrite == SpecOf(s).overwrite
           N == Len(overwrite)
<1>1. PICK f : Merged(SpecOf(s), ns, w, f)
  BY TemplateExists
<1>2. PICK g : Merged(SpecOf(t), ms, w, g)
  BY TemplateExists
<1>3. N \in Nat /\ DOMAIN overwrite = 1 .. N
  <2>1. overwrite \in Seq({overwrite[i] : i \in DOMAIN overwrite})
    BY SpecAssumption DEF SpecAssumption
  <2> HIDE DEF overwrite
  <2> QED BY <2>1, LenProperties
<1> DEFINE S == {i \in 0 .. N : f[i].affinity = g[i].affinity}
<1>4. 0 \in S
  BY <1>1, <1>2, <1>3 DEF Merged
<1>5. ASSUME NEW i \in 0 .. N - 1, i \in S PROVE i + 1 \in S
  <2> DEFINE o == overwrite[i + 1]
  <2>1. i + 1 \in 1 .. N /\ i \in 0 .. N /\ i + 1 \in 0 .. N /\ i + 1 - 1 = i
    BY <1>3
  <2>2. /\ f[i + 1] = IF Overwrites(o, ns, w) THEN MergeCacheGroupWorkerTemplate(f[i], o) ELSE f[i]
        /\ g[i + 1] = IF Overwrites(o, ms, w) THEN MergeCacheGroupWorkerTemplate(g[i], o) ELSE g[i]
        /\ "affinity" \in DOMAIN f[i] /\ "affinity" \in DOMAIN g[i] /\ f[i].affinity = g[i].affinity
    BY <1>1, <1>2, <1>5, <2>1 DEF Merged
  <2>3. o.selector = None \/ "affinity" \notin DOMAIN o.set
    BY <1>3, <2>1 DEF LabelsLeaveAffinity
  <2> HIDE DEF o
  <2>4. CASE "affinity" \notin DOMAIN o.set
    <3>1. /\ MergeCacheGroupWorkerTemplate(f[i], o).affinity = f[i].affinity
          /\ MergeCacheGroupWorkerTemplate(g[i], o).affinity = g[i].affinity
      BY <2>2, <2>4 DEF MergeCacheGroupWorkerTemplate
    <3>2. f[i + 1].affinity = g[i + 1].affinity
      BY <2>2, <3>1
    <3> QED BY <2>1, <3>2
  <2>5. CASE o.selector = None
    <3>1. Overwrites(o, ns, w) <=> Overwrites(o, ms, w)
      BY <2>5 DEF Overwrites
    <3>2. MergeCacheGroupWorkerTemplate(f[i], o).affinity = MergeCacheGroupWorkerTemplate(g[i], o).affinity
      BY <2>2 DEF MergeCacheGroupWorkerTemplate
    <3>3. f[i + 1].affinity = g[i + 1].affinity
      BY <2>2, <3>1, <3>2
    <3> QED BY <2>1, <3>3
  <2> QED BY <2>3, <2>4, <2>5
<1>6. 0 .. N \subseteq S
  <2> HIDE DEF S, N
  <2> QED BY <1>3, <1>4, <1>5, UptoInduction
<1>7. f[N].affinity = g[N].affinity
  BY <1>3, <1>6
<1> QED BY <1>1, <1>2, <1>7 DEF Merged

\* A group without replicas stays one; its workers have the names of nodes.
NonReplica(g) == CgSpec(g).replicas = None
OwnAffinity(g, ns, w) == TemplateOf(CgSpec(g), ns, w).affinity.node # None

CopiesAgree ==
  cg # None =>
    /\ seenCg # None /\ NonReplica(seenCg) => NonReplica(cg)
    /\ pc # "idle" /\ NonReplica(run.cg) => NonReplica(cg)
AtHomeUnlessSentAway ==
  cg # None =>
    \A w \in Nodes : Exists(pods, w) =>
      NonReplica(cg) /\ (pods[w].node \in {None, w} \/ OwnAffinity(cg, nodes, w))

HomeInv == CopiesAgree /\ AtHomeUnlessSentAway

\* What may happen to the spec of a group.
LEMMA SpecSteps ==
  ASSUME TypeInv, [Next]_vars, cg' # None
  PROVE  /\ cg # None /\ cg.spec \in Specs /\ cg'.spec \in Specs
         /\ NonReplica(cg) => NonReplica(cg)'
         /\ CgSpec(cg)'.overwrite = CgSpec(cg).overwrite
         /\ CgSpec(cg)'.template.affinity = CgSpec(cg).template.affinity
<1> USE DEF TypeInv, TypeOK
<1>1. ASSUME NEW g \in Group, cg' = g, cg # None, cg.spec = g.spec
      PROVE  /\ cg # None /\ cg.spec \in Specs /\ cg'.spec \in Specs
             /\ NonReplica(cg) => NonReplica(cg)'
             /\ CgSpec(cg)'.overwrite = CgSpec(cg).overwrite
             /\ CgSpec(cg)'.template.affinity = CgSpec(cg).template.affinity
  BY <1>1 DEF NonReplica, CgSpec, Group
<1>2. cg \in Group \cup {None}
  OBVIOUS
<1>3. CASE cg' = cg
  BY <1>1, <1>2, <1>3
<1>4. CASE AddFinalizer
  <2>1. run.cg \in Group /\ pc = "addFinalizer"
    BY <1>4 DEF AddFinalizer, UpdateFinalizer, RunType
  <2>2. cg' = cg \/ (cg = run.cg /\ cg' = [run.cg EXCEPT !.finalizer = TRUE])
    BY <1>4 DEF AddFinalizer, UpdateFinalizer
  <2>3. [run.cg EXCEPT !.finalizer = TRUE] \in Group /\ [run.cg EXCEPT !.finalizer = TRUE].spec = run.cg.spec
    BY <2>1 DEF Group
  <2> QED BY <1>1, <1>3, <2>1, <2>2, <2>3, NoneAssumption
<1>5. CASE RemoveFinalizer
  BY <1>3, <1>5 DEF RemoveFinalizer, UpdateFinalizer
<1>6. CASE WriteStatus
  <2>1. cg # None /\ cg' = [cg EXCEPT !.known = TRUE]
    BY <1>6 DEF WriteStatus
  <2>2. cg' \in Group /\ cg'.spec = cg.spec
    BY <1>2, <2>1 DEF Group
  <2> QED BY <1>1, <2>1, <2>2
<1>7. CASE UserDeletesGroup
  <2>1. cg # None /\ cg' = [cg EXCEPT !.deleting = TRUE]
    BY <1>7 DEF UserDeletesGroup
  <2>2. cg' \in Group /\ cg'.spec = cg.spec
    BY <1>2, <2>1 DEF Group
  <2> QED BY <1>1, <2>1, <2>2
<1>8. CASE UserScales \/ UserExpands
  <2>1. PICK s \in Specs : cg # None /\ cg' = [cg EXCEPT !.spec = s]
          /\ \/ CgSpec(cg).replicas # None /\ SpecOf(s) = [CgSpec(cg) EXCEPT !.replicas = SpecOf(s).replicas]
             \/ SpecOf(s) = [CgSpec(cg) EXCEPT !.template.storage = SpecOf(s).template.storage]
    BY <1>8 DEF UserScales, UserExpands
  <2>2. cg.spec \in Specs /\ cg'.spec = s
    BY <1>2, <2>1 DEF Group
  <2> DEFINE old == SpecOf(cg.spec)
  <2>3. /\ old = [x \in DOMAIN old |-> old[x]] /\ {"replicas", "template", "overwrite"} \subseteq DOMAIN old
        /\ old.template = [x \in DOMAIN old.template |-> old.template[x]] /\ "affinity" \in DOMAIN old.template
    BY <2>2, SpecAssumption DEF SpecAssumption
  <2>4. CgSpec(cg) = old /\ CgSpec(cg)' = SpecOf(s)
    BY <2>2 DEF CgSpec
  <2> HIDE DEF old
  <2>5. CASE old.replicas # None /\ SpecOf(s) = [old EXCEPT !.replicas = SpecOf(s).replicas]
    <3>1. SpecOf(s).overwrite = old.overwrite /\ SpecOf(s).template = old.template
      BY <2>3, <2>5
    <3> QED BY <2>1, <2>2, <2>4, <2>5, <3>1 DEF NonReplica
  <2>6. CASE SpecOf(s) = [old EXCEPT !.template.storage = SpecOf(s).template.storage]
    <3>1. /\ SpecOf(s).overwrite = old.overwrite /\ SpecOf(s).replicas = old.replicas
          /\ SpecOf(s).template = [old.template EXCEPT !.storage = SpecOf(s).template.storage]
      BY <2>3, <2>6
    <3>2. SpecOf(s).template.affinity = old.template.affinity
      BY <2>3, <3>1
    <3> QED BY <2>1, <2>2, <2>4, <3>1, <3>2 DEF NonReplica
  <2> QED BY <2>1, <2>4, <2>5, <2>6
<1>9. cg' = cg \/ AddFinalizer \/ RemoveFinalizer \/ WriteStatus \/ UserDeletesGroup \/ UserScales \/ UserExpands
  <2>1. CASE Step
    BY <2>1 DEF Step, ReconcileGone, ReconcileNew, ReconcileDeleted, CleanAllDone, ReconcileFails, ReconcileSync,
       StartRemoval, WorkerCall, EnsureClaims, CreateWorker, RestartWorker, BeginsLeaving, DeleteWorker,
       CleanWorkerCache, Begin, vars
  <2>2. CASE User
    BY <2>2 DEF User, UserDeletesSecret, UserEditsNode
  <2>3. CASE Observe \/ Kubelet \/ Jobs \/ CallFails \/ Crash \/ Collect \/ UNCHANGED vars \/ \E w \in Names : WorkerPlaced(w)
    BY <2>3 DEF Observe, ObserveGroup, ObserveWorkers, ObserveNode, Kubelet, WorkerStarts, WorkerStops, ClaimGoes,
       Jobs, JobRuns, JobFails, JobExpires, CallFails, Crash, Collect, WorkerPlaced, Outside, vars
  <2> QED BY <2>1, <2>2, <2>3 DEF Next
<1> QED BY <1>3, <1>4, <1>5, <1>6, <1>7, <1>8, <1>9

\* What the cache and the reconcile have is the group as it was.
LEMMA CopySteps ==
  ASSUME TypeInv, [Next]_vars
  PROVE  /\ seenCg' \in {seenCg, cg}
         /\ pc' # "idle" => \/ pc # "idle" /\ run'.cg = run.cg
                            \/ seenCg # None /\ run'.cg = seenCg
<1>1. CASE Step /\ ~ \E w \in Names : WorkerCall(w)
  BY <1>1 DEF Step, ReconcileGone, ReconcileNew, AddFinalizer, RemoveFinalizer, UpdateFinalizer, Return, ReturnError, Forget,
     ReconcileDeleted, CleanAllDone, ReconcileFails, ReconcileSync, StartRemoval, WriteStatus, Begin, vars, cache, reconcile
<1>2. CASE \E w \in Names : WorkerCall(w)
  BY <1>2 DEF WorkerCall, EnsureClaims, CreateWorker, RestartWorker, BeginsLeaving, DeleteWorker, CleanWorkerCache, cache
<1>3. CASE Observe \/ Kubelet \/ Jobs \/ Collect \/ \E w \in Names : WorkerPlaced(w)
  BY <1>3 DEF Observe, ObserveGroup, ObserveWorkers, ObserveNode, Kubelet, WorkerStarts, WorkerStops, ClaimGoes,
     Jobs, JobRuns, JobFails, JobExpires, Collect, WorkerPlaced, Outside, cache, reconcile
<1>4. CASE User \/ UNCHANGED vars
  BY <1>4 DEF User, UserScales, UserExpands, UserDeletesGroup, UserDeletesSecret, UserEditsNode, vars, cache, reconcile
<1>5. CASE CallFails
  BY <1>5 DEF CallFails, ReturnError, Forget, cache
<1>6. CASE Crash
  BY <1>6 DEF Crash, Forget
<1> QED BY <1>1, <1>2, <1>3, <1>4, <1>5, <1>6 DEF Next, Step

\* Who gives a worker its node.
LEMMA NodeSteps ==
  ASSUME TypeInv, [Next]_vars, NEW w \in Names, Exists(pods, w)'
  PROVE  \/ Exists(pods, w) /\ pods'[w].node = pods[w].node
         \/ CreateWorker(w) /\ pods'[w].node = NodeName(RunSpec, w)
         \/ WorkerPlaced(w)
<1> USE DEF Exists
<1>1. pods \in [Names -> Worker \cup {None}]
  BY DEF TypeInv, TypeOK
<1>2. CASE pods' = pods
  BY <1>2
<1>3. ASSUME NEW v \in Names, NEW worker, pods' = [pods EXCEPT ![v] = worker], pods[v] # None => worker.node = pods[v].node,
             v = w => pods[v] # None
      PROVE  Exists(pods, w) /\ pods'[w].node = pods[w].node
  BY <1>1, <1>3
<1>4. ASSUME NEW v \in Names, pods[v] # None,
             \/ \E b \in BOOLEAN : pods' = [pods EXCEPT ![v].leaving = b]
             \/ pods' = [pods EXCEPT ![v].deleting = TRUE]
             \/ pods' = [pods EXCEPT ![v].up = TRUE]
      PROVE  Exists(pods, w) /\ pods'[w].node = pods[w].node
  <2>1. pods[v] \in Worker
    BY <1>1, <1>4
  <2> QED BY <1>1, <1>4, <2>1 DEF Worker
<1>5. CASE \E v \in Names : WorkerCall(v)
  <2> SUFFICES ASSUME NEW v \in Names, WorkerCall(v)
               PROVE  \/ Exists(pods, w) /\ pods'[w].node = pods[w].node
                      \/ CreateWorker(w) /\ pods'[w].node = NodeName(RunSpec, w)
    BY <1>5
  <2>1. CASE CreateWorker(v)
    <3>1. CASE v = w /\ pods[w] = None
      BY <1>1, <2>1, <3>1 DEF CreateWorker
    <3>2. CASE v # w \/ pods[w] # None
      BY <1>1, <2>1, <3>2 DEF CreateWorker
    <3> QED BY <3>1, <3>2
  <2>2. CASE ~CreateWorker(v)
    <3>1. \/ pods' = pods
          \/ pods[v] # None /\ \/ \E b \in BOOLEAN : pods' = [pods EXCEPT ![v].leaving = b]
                               \/ pods' = [pods EXCEPT ![v].deleting = TRUE]
      BY <2>2 DEF WorkerCall, EnsureClaims, RestartWorker, BeginsLeaving, DeleteWorker, CleanWorkerCache
    <3> QED BY <1>2, <1>4, <3>1
  <2> QED BY <2>1, <2>2
<1>6. CASE Kubelet
  <2> SUFFICES ASSUME NEW v \in Names, WorkerStarts(v) \/ WorkerStops(v) \/ ClaimGoes(v)
               PROVE  Exists(pods, w) /\ pods'[w].node = pods[w].node
    BY <1>6 DEF Kubelet
  <2>1. \/ pods' = pods
        \/ pods[v] # None /\ pods' = [pods EXCEPT ![v].up = TRUE]
        \/ pods' = [pods EXCEPT ![v] = None]
    BY DEF WorkerStarts, WorkerStops, ClaimGoes
  <2>2. CASE pods' = [pods EXCEPT ![v] = None]
    BY <1>1, <2>2
  <2> QED BY <1>2, <1>4, <2>1, <2>2
<1>7. CASE \E v \in Names : WorkerPlaced(v)
  <2> SUFFICES ASSUME NEW v \in Names, WorkerPlaced(v), v # w
               PROVE  Exists(pods, w) /\ pods'[w].node = pods[w].node
    BY <1>7
  <2> QED BY <1>1 DEF WorkerPlaced
<1>8. CASE Collect
  <2>1. pods'[w] = [pods[w] EXCEPT !.deleting = TRUE] /\ pods[w] # None
    BY <1>8 DEF Collect
  <2>2. pods[w] \in Worker
    BY <1>1, <2>1
  <2> QED BY <2>1, <2>2 DEF Worker
<1>9. CASE Step /\ ~ \E v \in Names : WorkerCall(v)
  BY <1>2, <1>9 DEF Step, ReconcileGone, ReconcileNew, AddFinalizer, RemoveFinalizer, UpdateFinalizer,
     ReconcileDeleted, CleanAllDone, ReconcileFails, ReconcileSync, StartRemoval, WriteStatus, Begin, vars
<1>10. CASE Observe \/ Jobs \/ User \/ CallFails \/ Crash \/ UNCHANGED vars
  BY <1>2, <1>10 DEF Observe, ObserveGroup, ObserveWorkers, ObserveNode, Jobs, JobRuns, JobFails, JobExpires,
     User, UserScales, UserExpands, UserDeletesGroup, UserDeletesSecret, UserEditsNode, CallFails, Crash, Outside, vars
<1> QED BY <1>5, <1>6, <1>7, <1>8, <1>9, <1>10 DEF Next, Step

LEMMA InitHomeInv == Init => HomeInv
BY DEF Init, HomeInv, CopiesAgree, AtHomeUnlessSentAway, NoWorkers, Exists, Names

LEMMA HomeStep == LabelsLeaveAffinity /\ TypeInv /\ HomeInv /\ [Next]_vars => HomeInv'
<1> SUFFICES ASSUME LabelsLeaveAffinity, TypeInv, HomeInv, [Next]_vars, cg' # None
             PROVE  HomeInv'
  BY DEF HomeInv, CopiesAgree, AtHomeUnlessSentAway
<1> USE DEF HomeInv
<1>1. /\ cg # None /\ cg.spec \in Specs /\ cg'.spec \in Specs
      /\ NonReplica(cg) => NonReplica(cg)'
      /\ CgSpec(cg)'.overwrite = CgSpec(cg).overwrite
      /\ CgSpec(cg)'.template.affinity = CgSpec(cg).template.affinity
  BY SpecSteps
<1>2. CopiesAgree'
  <2>1. /\ seenCg' \in {seenCg, cg}
        /\ pc' # "idle" => \/ pc # "idle" /\ run'.cg = run.cg
                           \/ seenCg # None /\ run'.cg = seenCg
    BY CopySteps
  <2>2. seenCg # None /\ NonReplica(seenCg) => NonReplica(cg)'
    BY <1>1 DEF CopiesAgree
  <2>3. pc # "idle" /\ NonReplica(run.cg) => NonReplica(cg)'
    BY <1>1 DEF CopiesAgree
  <2> QED BY <1>1, <2>1, <2>2, <2>3 DEF CopiesAgree, NonReplica, CgSpec
<1>3. AtHomeUnlessSentAway'
  <2> SUFFICES ASSUME NEW w \in Nodes, Exists(pods, w)'
               PROVE  NonReplica(cg)' /\ (pods'[w].node \in {None, w} \/ OwnAffinity(cg, nodes, w)')
    BY DEF AtHomeUnlessSentAway
  <2>1. w \in Names
    BY DEF Names
  <2>2. OwnAffinity(cg, nodes, w) => OwnAffinity(cg, nodes, w)'
    <3>1. TemplateOf(SpecOf(cg.spec), nodes, w).affinity = TemplateOf(SpecOf(cg'.spec), nodes', w).affinity
      BY <1>1, SameAffinity DEF CgSpec
    <3> QED BY <3>1 DEF OwnAffinity, CgSpec
  <2>3. CASE Exists(pods, w) /\ pods'[w].node = pods[w].node
    BY <1>1, <2>2, <2>3 DEF AtHomeUnlessSentAway
  <2>4. CASE CreateWorker(w) /\ pods'[w].node = NodeName(RunSpec, w)
    <3>1. pc = "sync" /\ w \in ExpectedNames(RunSpec)
      <4>1. Call(w, "create") /\ UNCHANGED <<pc, run>>
        BY <2>4 DEF CreateWorker
      <4>2. "create" \in CallsOf(pc) /\ task[w] # << >>
        BY <2>1, <4>1, CallTasks
      <4> QED BY <2>1, <4>2 DEF TypeInv, RunType, TasksAreOfRun, CallsOf
    <3>2. NonReplica(run.cg)
      <4>1. w \notin Replicas
        BY LifetimeAssumption DEF LifetimeAssumption
      <4> QED BY <3>1, <4>1 DEF ExpectedNames, NonReplica, RunSpec
    <3>3. NodeName(RunSpec, w) \in {None, w}
      BY DEF NodeName
    <3> QED BY <1>1, <2>4, <3>1, <3>2, <3>3 DEF CopiesAgree
  <2>5. CASE WorkerPlaced(w)
    <3>1. Exists(pods, w) /\ cg' = cg
      BY <2>5 DEF WorkerPlaced, Outside
    <3>2. NonReplica(cg)
      BY <1>1, <3>1 DEF AtHomeUnlessSentAway
    <3>3. PICK n \in Places(CgSpec(cg), nodes, PodList(CgSpec(cg), pods), w) : pods' = [pods EXCEPT ![w].node = n]
      BY <2>5 DEF WorkerPlaced
    <3>4. n = w \/ OwnAffinity(cg, nodes, w)
      <4> DEFINE template == TemplateOf(CgSpec(cg), nodes, w)
                 affinity == AddNodeNameNodeAffinity(template, w)
      <4>1. n \in affinity.names \/ \E term \in affinity.terms : Selects(term, nodes[n].labels)
        BY <3>2, <3>3 DEF Places, NonReplica
      <4>2. affinity.names = {w} /\ (template.affinity.node = None => affinity.terms = {})
        BY DEF AddNodeNameNodeAffinity
      <4> QED BY <4>1, <4>2 DEF OwnAffinity
    <3>5. pods'[w].node = n
      <4>1. pods \in [Names -> Worker \cup {None}] /\ pods[w] \in Worker
        BY <2>1, <3>1 DEF TypeInv, TypeOK, Exists
      <4> QED BY <2>1, <3>3, <4>1 DEF Worker
    <3> QED BY <1>1, <2>2, <3>2, <3>4, <3>5
  <2> QED BY <2>1, <2>3, <2>4, <2>5, NodeSteps
<1> QED BY <1>2, <1>3

\* A worker with the name of a node never runs on another one, bound to it or sent
\* there by the scheduler, unless its template has an affinity of its own
\* (newWorker): for any nodes, edits, crashes and old copies of the group.
\* If an overwrite by labels sets the affinity, a node that is relabelled may make
\* the worker look as if it never had one.
THEOREM WorkersAtHome == ASSUME LabelsLeaveAffinity PROVE Spec => []AtHome
<1>1. HomeInv => AtHome
  BY DEF HomeInv, AtHomeUnlessSentAway, AtHome, OwnAffinity
<1> QED BY <1>1, InitTypeInv, TypeStep, InitHomeInv, HomeStep, PTL DEF Spec
=============================================================================
