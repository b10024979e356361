--------------------------- MODULE GroupLifetime ---------------------------
(* A cache group from its creation to its removal, as the nodes come, go and  *)
(* are relabelled: which workers are to be there, on which node they run, the *)
(* claims and the cache they leave, the finalizer, and what wakes up the      *)
(* reconcile.  What a worker goes through while it joins, is updated and      *)
(* leaves is the subject of CacheGroup: here it leaves in one step or two.    *)
(* internal/controller/cachegroup_controller.go, enqueue.go.                  *)
EXTENDS Scheduling

CONSTANTS
  Specs,          \* names of specs of the group, as the user may write them
  SpecOf(_),      \* and the specs
  Clusters(_),    \* the nodes there are at first, by the name of the spec
  NodeObjects(_), \* what a node may be like, as far as the spec tells them apart
  OtherPods,      \* pods that are no workers and stay where they are
  Patient,        \* a job that cleans a cache starts after the workers have stopped that go
  Kinds(_),       \* the kinds of faults and of interventions that happen, by spec
  MaxEvents(_)    \* and how many of them

FaultKinds == {"error", "crash"}
EditKinds == {"node", "scale", "expand", "delete", "secret"}

ASSUME LifetimeAssumption ==
  /\ \A s \in Specs : Clusters(s) \subseteq [Nodes -> NodeObjects(s)] /\ None \notin NodeObjects(s)
  /\ Nodes \cap Replicas = {}
  /\ Patient \in BOOLEAN
  /\ \A s \in Specs : Kinds(s) \subseteq FaultKinds \cup EditKinds
  /\ \A s \in Specs : MaxEvents(s) \in Nat

ASSUME SpecAssumption ==
  /\ NodesByName \in Seq(Nodes) /\ ReplicaNames \in Seq(Replicas)
  /\ \A s \in Specs :
       LET spec == SpecOf(s)
           IsFunction(f) == f = [x \in DOMAIN f |-> f[x]] IN
       /\ IsFunction(spec) /\ {"replicas", "template", "overwrite"} \subseteq DOMAIN spec
       /\ spec.replicas \in {None} \cup 0 .. Len(ReplicaNames)
       /\ spec.template.storage \in Nat
       /\ IsFunction(spec.template) /\ "affinity" \in DOMAIN spec.template
       /\ spec.overwrite \in Seq({spec.overwrite[i] : i \in DOMAIN spec.overwrite})

VARIABLES
  nodes,      \* the nodes at the API server
  seenNodes,  \* the nodes in the informer cache
  cg,         \* the CacheGroup at the API server, None once it is gone
  seenCg,     \* the CacheGroup in the informer cache
  secret,     \* the Secret with the name of the file system is there
  pods,       \* the workers at the API server
  seenPods,   \* the workers in the informer cache
  claims,     \* the claims of volumes that belong to one worker each
  jobs,       \* the jobs that clean a cache
  dirty,      \* the nodes with cache of the group
  queued,     \* the key is in the work queue, or will be in a minute
  pc,         \* where the reconcile is
  run,        \* what it has read, and the workers it expects
  task,       \* the API calls that are left for each worker
  events,     \* how many faults and interventions there were
  excused     \* the cache of a worker may remain

cluster == <<nodes, secret, jobs, dirty>>
cache == <<seenNodes, seenCg, seenPods>>
reconcile == <<pc, run, task>>
vars == <<cluster, cg, pods, claims, cache, queued, reconcile, events, excused>>

Names == Nodes \cup Replicas
\* Of the status: whether it has the file system in it.  That the group is called
\* again when the numbers in it change is left out; nothing may depend on it.
Group == [spec : Specs, deleting : BOOLEAN, finalizer : BOOLEAN, known : BOOLEAN]
Claim == [storage : Nat, deleting : BOOLEAN]
ASSUME NoneAssumption == None \notin Group \cup Claim
Worker == [node : Nodes \cup {None}, up : BOOLEAN, leaving : BOOLEAN, deleting : BOOLEAN]
JobNames == {CleanCacheJobName(n) : n \in Nodes \cup {None}}
Calls == {"ensure", "create", "serve", "visit", "clean"}
Tasks == UNION {[1 .. n -> Calls] : n \in 0 .. 2}
Steps == {"idle", "addFinalizer", "cleanAll", "removeFinalizer", "sync", "remove"}
NoTask == [w \in Names |-> << >>]
NoWorkers == [w \in Names |-> None]
NoRun == [cg |-> None, expect |-> {}, redundant |-> NoWorkers, others |-> FALSE]

TypeOK ==
  /\ {nodes, seenNodes} \subseteq [Nodes -> (UNION {NodeObjects(s) : s \in Specs}) \cup {None}]
  /\ {cg, seenCg} \subseteq Group \cup {None}
  /\ {pods, seenPods} \subseteq [Names -> Worker \cup {None}]
  /\ claims \in [Names -> Claim \cup {None}]
  /\ jobs \in [JobNames -> {None, "created", "finished"}]
  /\ dirty \subseteq Nodes
  /\ {secret, queued, excused} \subseteq BOOLEAN
  /\ pc \in Steps
  /\ run.cg \in Group \cup {None} /\ run.expect \subseteq Names /\ run.redundant \in [Names -> Worker \cup {None}]
  /\ task \in [Names -> Tasks]
  /\ events \in Nat

Init ==
  /\ cg \in [spec : Specs, deleting : {FALSE}, finalizer : {FALSE}, known : {FALSE}]
  /\ seenCg = cg
  /\ nodes \in Clusters(cg.spec)
  /\ seenNodes = nodes
  /\ secret = TRUE
  /\ pods = NoWorkers /\ seenPods = pods
  /\ claims = [w \in Names |-> None]
  /\ jobs = [j \in JobNames |-> None]
  /\ dirty = {}
  /\ queued = TRUE
  /\ pc = "idle" /\ run = NoRun /\ task = NoTask
  /\ events = 0 /\ excused = FALSE

Happens(kind, g) ==
  g # None /\ kind \in Kinds(g.spec) /\ events < MaxEvents(g.spec) /\ events' = events + 1

CgSpec(g) == SpecOf(g.spec)
\* A mutant: the finalizer is taken for granted.
Protected(g) == TRUE
ContainsFinalizer(g) == g.finalizer
Exists(list, w) == list[w] # None
Up(list) == {w \in Names : Exists(list, w) /\ list[w].up}
\* The workers as a list of pods shows them, and the others.
PodList(spec, list) ==
  OtherPods \cup {WorkerPod(spec, w, list[w].node) : w \in {v \in Names : Exists(list, v)}}
Expects(g, ns, list) == ParseExpectState(CgSpec(g), ns, PodList(CgSpec(g), list))

-----------------------------------------------------------------------------
(* The reconcile *)

Idle == pc = "idle" /\ queued
AllDone == task = NoTask
Forget == pc' = "idle" /\ run' = NoRun /\ task' = NoTask
Return == Forget /\ UNCHANGED queued
ReturnError == Forget /\ queued' = TRUE

\* What a worker is looked up by among the expected ones; a worker that waits for
\* the scheduler is passed over.
WorkerKey(spec, w, worker) == IF spec.replicas # None THEN w ELSE worker.node
AwaitsScheduler(spec, w, worker) == WorkerKey(spec, w, worker) = None /\ spec.enableScheduling
IsRedundant(spec, w, worker, expect) ==
  /\ worker # None /\ ~worker.deleting
  /\ ~AwaitsScheduler(spec, w, worker) /\ WorkerKey(spec, w, worker) \notin expect

\* Of the list of workers the redundant ones are looked at again, and whether
\* there are others that are ready.
Begin(step, expect, calls) ==
  LET redundant == [w \in Names |-> IF IsRedundant(CgSpec(seenCg), w, seenPods[w], expect)
                                   THEN seenPods[w] ELSE None] IN
  /\ pc' = step
  /\ run' = [cg |-> seenCg, expect |-> expect,
             redundant |-> IF step = "sync" THEN redundant ELSE NoWorkers,
             others |-> step = "sync" /\ redundant # NoWorkers /\ Cardinality(Up(seenPods)) > 1]
  /\ task' = [w \in Names |-> IF w \in expect THEN calls[w] ELSE << >>]
  /\ queued' = FALSE
  /\ UNCHANGED <<cluster, cg, pods, claims, cache, events, excused>>

HasClaims(g) == "VolumeClaimTemplates" \in GenCacheDirs(CgSpec(g).template)
CallsFor(w) ==
  (IF HasClaims(seenCg) THEN <<"ensure">> ELSE << >>)
  \o (CASE ~Exists(seenPods, w) -> <<"create">>
        [] Exists(seenPods, w) /\ seenPods[w].leaving -> <<"serve">>
        [] OTHER -> << >>)

\* The group is gone, or only waits for another's finalizer.
ReconcileGone ==
  /\ Idle
  /\ seenCg = None \/ (seenCg # None /\ seenCg.deleting /\ ~ContainsFinalizer(seenCg))
  /\ queued' = FALSE
  /\ UNCHANGED <<cluster, cg, pods, claims, cache, reconcile, events, excused>>

ReconcileNew ==
  /\ Idle /\ seenCg # None /\ ~seenCg.deleting /\ ~ContainsFinalizer(seenCg)
  /\ Begin("addFinalizer", {}, NoTask)

\* An update of what is out of date is a conflict, and retried.
UpdateFinalizer(step, new) ==
  /\ pc = step
  /\ IF cg = run.cg THEN cg' = new /\ Return ELSE ReturnError /\ UNCHANGED cg
  /\ UNCHANGED <<cluster, pods, claims, cache, events>>

AddFinalizer ==
  /\ UpdateFinalizer("addFinalizer", [run.cg EXCEPT !.finalizer = TRUE])
  /\ UNCHANGED excused

\* HandleFinalizer: the expected workers are cleaned up after, unless the file
\* system is not known, which is read from the secret or from the status.
ReconcileDeleted ==
  /\ Idle /\ seenCg # None /\ seenCg.deleting /\ ContainsFinalizer(seenCg)
  /\ IF CgSpec(seenCg).cleanCache /\ (secret \/ seenCg.known)
     THEN Begin("cleanAll", Expects(seenCg, seenNodes, seenPods), [w \in Names |-> <<"clean">>])
     ELSE Begin("removeFinalizer", {}, NoTask)

CleanAllDone ==
  /\ pc = "cleanAll" /\ AllDone
  /\ pc' = "removeFinalizer"
  /\ UNCHANGED <<cluster, cg, pods, claims, cache, queued, run, task, events, excused>>

\* The last finalizer is gone, and so is the group.
RemoveFinalizer ==
  /\ UpdateFinalizer("removeFinalizer", None)
  \* nobody cleans up after a worker that is not expected, or if the file system is not known
  /\ excused' = (excused \/ (cg = run.cg /\ ~(dirty \subseteq run.expect)))

\* sync: without the secret it fails, and is tried again.
ReconcileFails ==
  /\ Idle /\ seenCg # None /\ ~seenCg.deleting /\ ContainsFinalizer(seenCg) /\ ~secret
  /\ UNCHANGED vars

ReconcileSync ==
  /\ Idle /\ seenCg # None /\ ~seenCg.deleting /\ ContainsFinalizer(seenCg) /\ secret
  /\ Begin("sync", Expects(seenCg, seenNodes, seenPods), [w \in Names |-> CallsFor(w)])

Call(w, call) ==
  /\ task[w] # << >> /\ Head(task[w]) = call
  /\ task' = [task EXCEPT ![w] = Tail(@)]
RunSpec == CgSpec(run.cg)
Volumes == GenCacheDirs(RunSpec.template)

\* ensurePVCsForWorker: a claim that is there, be it on its way out, is enough, if
\* it is not too small.
Requested(g) == CgSpec(g).template.storage
EnsureClaims(w) ==
  /\ Call(w, "ensure")
  /\ claims' = CASE claims[w] = None ->
                     [claims EXCEPT ![w] = [storage |-> Requested(run.cg), deleting |-> FALSE]]
                [] claims[w] # None /\ claims[w].storage < Requested(run.cg) ->
                     [claims EXCEPT ![w].storage = Requested(run.cg)]
                [] OTHER -> claims
  /\ queued' = (queued \/ claims' # claims)
  /\ UNCHANGED <<cluster, cg, pods, cache, pc, run, events, excused>>

\* A pod that exists already is no error.
CreateWorker(w) ==
  /\ Call(w, "create")
  /\ pods' = IF Exists(pods, w) THEN pods
             ELSE [pods EXCEPT ![w] = [node |-> NodeName(RunSpec, w), up |-> FALSE,
                                       leaving |-> FALSE, deleting |-> FALSE]]
  /\ UNCHANGED <<cluster, cg, claims, cache, queued, pc, run, events, excused>>

\* A worker that is wanted again serves again.
RestartWorker(w) ==
  /\ Call(w, "serve")
  /\ pods' = IF Exists(pods, w) THEN [pods EXCEPT ![w].leaving = FALSE] ELSE pods
  /\ UNCHANGED <<cluster, cg, claims, cache, queued, pc, run, events, excused>>

StartRemoval ==
  /\ pc = "sync" /\ AllDone
  /\ pc' = "remove"
  /\ task' = [w \in Names |-> IF Exists(run.redundant, w) THEN <<"visit">> ELSE << >>]
  /\ UNCHANGED <<cluster, cg, pods, claims, cache, queued, run, events, excused>>

OneAtATime == \A w \in Names : task[w] # <<"clean">>

\* gracefulShutdownWorker: the cache of a ready worker is migrated, if there is any
\* and another worker is ready.
BeginsLeaving(w) ==
  /\ Call(w, "visit") /\ OneAtATime
  /\ ~run.redundant[w].leaving /\ run.redundant[w].up /\ run.others
  /\ pods' = IF Exists(pods, w) THEN [pods EXCEPT ![w].leaving = TRUE] ELSE pods
  /\ UNCHANGED <<cluster, cg, claims, cache, queued, pc, run, events, excused>>

DeleteWorker(w) ==
  /\ task[w] = <<"visit">> /\ OneAtATime
  /\ task' = [task EXCEPT ![w] = <<"clean">>]
  /\ pods' = IF Exists(pods, w) THEN [pods EXCEPT ![w].deleting = TRUE] ELSE pods
  /\ UNCHANGED <<cluster, cg, claims, cache, queued, pc, run, events, excused>>

\* cleanWorkerCache, of a worker that has been deleted or, with the finalizer, of
\* one as the builder makes it.  A job that is there is taken for the one to create.
CleanedNode(w) == IF pc = "cleanAll" THEN NodeName(RunSpec, w) ELSE run.redundant[w].node
\* A mutant: the job is left to the finalizer.
CleansAtTheEnd(w) == pc = "cleanAll" /\ NeedsCleanCacheJob(RunSpec, Volumes)
CleansByJob(w) == NeedsCleanCacheJob(RunSpec, Volumes)

CleanWorkerCache(w) ==
  /\ Call(w, "clean")
  /\ LET job == CleanCacheJobName(CleanedNode(w))
         wanted == RunSpec.cleanCache /\ CleansByJob(w) IN
     /\ jobs' = IF wanted /\ jobs[job] = None THEN [jobs EXCEPT ![job] = "created"] ELSE jobs
     /\ excused' = (excused \/ ~RunSpec.cleanCache \/ (wanted /\ (jobs[job] = "finished" \/ CleanedNode(w) = None)))
  /\ claims' = IF RunSpec.cleanCache /\ claims[w] # None
               THEN [claims EXCEPT ![w].deleting = TRUE] ELSE claims
  /\ queued' = (queued \/ claims' # claims)
  /\ UNCHANGED <<nodes, secret, dirty, cg, pods, cache, pc, run, events>>

\* The status is computed of a new list.  The group is called again in a minute
\* unless it is ready.
Ready == Cardinality(Up(seenPods))
Settled(expect) ==
  /\ Ready = Cardinality(expect) /\ expect # {}
  /\ \A w \in Names : Exists(seenPods, w) => ~seenPods[w].leaving

WriteStatus ==
  /\ pc = "remove" /\ AllDone
  /\ cg' = IF cg = None THEN None ELSE [cg EXCEPT !.known = TRUE]
  /\ queued' = (queued \/ cg = None \/ ~Settled(run.expect))
  /\ Forget
  /\ UNCHANGED <<cluster, pods, claims, cache, events, excused>>

\* An API call fails and changes nothing.  The finalizer goes on with the next
\* worker; the removal loop ends, as it does before it begins after an error of
\* a worker that is created, and only the status is written.
CallFails ==
  /\ Happens("error", run.cg)
  /\ \/ /\ pc \in {"addFinalizer", "removeFinalizer"} \/ (pc = "remove" /\ AllDone)
        /\ ReturnError
        /\ UNCHANGED excused
     \/ /\ pc = "cleanAll"
        /\ \E w \in Names : Call(w, "clean")
        /\ excused' = TRUE
        /\ UNCHANGED <<queued, pc, run>>
     \/ /\ pc \in {"sync", "remove"}
        /\ \E w \in Names :
             /\ task[w] # << >>
             /\ pc = "sync" => \A v \in Names \ {w} : task[v] = << >>
             /\ excused' = (excused \/ task[w] = <<"clean">>)
        /\ pc' = "remove"
        /\ task' = NoTask
        /\ queued' = TRUE
        /\ UNCHANGED run
  /\ UNCHANGED <<cluster, cg, pods, claims, cache>>

\* A worker that is deleted is not visited again.
Crash ==
  /\ pc # "idle"
  /\ Happens("crash", run.cg)
  /\ Forget
  /\ queued' = TRUE
  /\ seenNodes' = nodes /\ seenCg' = cg /\ seenPods' = pods
  /\ excused' = (excused \/ \E w \in Names : pc = "remove" /\ task[w] = <<"clean">>)
  /\ UNCHANGED <<cluster, cg, pods, claims>>

-----------------------------------------------------------------------------
(* What wakes up the reconcile *)

\* enqueueRequestForNode: a node that comes or goes, or has other labels.
\* A mutant: only the nodes that come and go.
ComesOrGoes(old, new) == (old = None) # (new = None)
EnqueuesForNode(old, new) ==
  \/ ComesOrGoes(old, new)
  \/ old # None /\ new # None /\ old.labels # new.labels

ObserveNode(n) ==
  /\ seenNodes[n] # nodes[n]
  /\ seenNodes' = [seenNodes EXCEPT ![n] = nodes[n]]
  /\ queued' = (queued \/ EnqueuesForNode(seenNodes[n], nodes[n]))
  /\ UNCHANGED <<cluster, cg, pods, claims, seenCg, seenPods, reconcile, events, excused>>

ObserveGroup ==
  /\ seenCg # cg
  /\ seenCg' = cg
  /\ queued' = TRUE
  /\ UNCHANGED <<cluster, cg, pods, claims, seenNodes, seenPods, reconcile, events, excused>>

ObserveWorkers ==
  /\ seenPods # pods
  /\ seenPods' = pods
  /\ queued' = TRUE
  /\ UNCHANGED <<cluster, cg, pods, claims, seenNodes, seenCg, reconcile, events, excused>>

-----------------------------------------------------------------------------
(* The cluster *)

Outside == <<secret, cg, cache, queued, reconcile, events, excused>>
ClaimReady(w) == HasClaims(cg) => claims[w] # None /\ ~claims[w].deleting

WorkerPlaced(w) ==
  /\ cg # None /\ Exists(pods, w) /\ pods[w].node = None /\ ~pods[w].deleting
  /\ ClaimReady(w)
  /\ \E n \in Places(CgSpec(cg), nodes, PodList(CgSpec(cg), pods), w) : pods' = [pods EXCEPT ![w].node = n]
  /\ UNCHANGED <<Outside, nodes, claims, jobs, dirty>>

\* A pod does not start on a claim that is on its way out.
WorkerStarts(w) ==
  /\ cg # None /\ Exists(pods, w) /\ ~pods[w].up /\ ~pods[w].deleting
  /\ pods[w].node # None /\ nodes[pods[w].node] # None
  /\ ClaimReady(w)
  /\ dirty' = IF "HostPath" \in GenCacheDirs(CgSpec(cg).template) THEN dirty \cup {pods[w].node} ELSE dirty
  /\ pods' = [pods EXCEPT ![w].up = TRUE]
  /\ UNCHANGED <<Outside, nodes, claims, jobs>>

\* A worker that is deleted, or whose node is gone.
WorkerStops(w) ==
  /\ Exists(pods, w)
  /\ pods[w].deleting \/ (pods[w].node # None /\ nodes[pods[w].node] = None)
  /\ pods' = [pods EXCEPT ![w] = None]
  /\ UNCHANGED <<Outside, nodes, claims, jobs, dirty>>

\* No worker that has been given a node has the claim.
ClaimGoes(w) ==
  /\ claims[w] # None /\ claims[w].deleting
  /\ Exists(pods, w) => pods[w].node = None
  /\ claims' = [claims EXCEPT ![w] = None]
  /\ queued' = TRUE
  /\ UNCHANGED <<nodes, secret, cg, pods, jobs, dirty, cache, reconcile, events, excused>>

RunsOn(n) == {w \in Names : Exists(pods, w) /\ pods[w].node = n}

\* The job empties the directories of its node, which a worker that still runs
\* there would fill again: before it, if it is patient, the workers stop that go.
Going(w) == pods[w].deleting \/ cg = None \/ cg.deleting
JobRuns(j) ==
  /\ jobs[j] = "created"
  /\ \E n \in Nodes :
       /\ j.cleans \in {n, None} /\ nodes[n] # None
       /\ Patient => \A w \in RunsOn(n) : ~Going(w)
       /\ dirty' = IF RunsOn(n) = {} THEN dirty \ {n} ELSE dirty
  /\ jobs' = [jobs EXCEPT ![j] = "finished"]
  /\ UNCHANGED <<Outside, nodes, pods, claims>>

JobFails(j) ==
  /\ jobs[j] = "created"
  /\ j.cleans # None /\ nodes[j.cleans] = None
  /\ jobs' = [jobs EXCEPT ![j] = "finished"]
  /\ UNCHANGED <<Outside, nodes, pods, claims, dirty>>

JobExpires(j) ==
  /\ jobs[j] = "finished"
  /\ jobs' = [jobs EXCEPT ![j] = None]
  /\ UNCHANGED <<Outside, nodes, pods, claims, dirty>>

\* The garbage collector, once the group is gone.
Collect ==
  /\ cg = None
  /\ pods' = [w \in Names |-> IF Exists(pods, w) THEN [pods[w] EXCEPT !.deleting = TRUE] ELSE None]
  /\ claims' = [w \in Names |-> IF claims[w] # None THEN [claims[w] EXCEPT !.deleting = TRUE] ELSE None]
  /\ UNCHANGED <<Outside, nodes, jobs, dirty>>

UserEditsNode(n) ==
  /\ Happens("node", cg)
  /\ \E object \in (NodeObjects(cg.spec) \cup {None}) \ {nodes[n]} :
       /\ nodes' = [nodes EXCEPT ![n] = object]
       /\ dirty' = IF object = None THEN dirty \ {n} ELSE dirty
  /\ UNCHANGED <<secret, jobs, cg, pods, claims, cache, queued, reconcile, excused>>

\* The number of replicas, and the storage of their claims; the rest of the spec is
\* the subject of CacheGroup.
UserScales ==
  /\ cg # None /\ ~cg.deleting
  /\ CgSpec(cg).replicas # None
  /\ Happens("scale", cg)
  /\ \E s \in Specs \ {cg.spec} :
       /\ SpecOf(s) = [CgSpec(cg) EXCEPT !.replicas = SpecOf(s).replicas]
       /\ cg' = [cg EXCEPT !.spec = s]
  /\ UNCHANGED <<cluster, pods, claims, cache, queued, reconcile, excused>>

UserExpands ==
  /\ cg # None /\ ~cg.deleting
  /\ Happens("expand", cg)
  /\ \E s \in Specs \ {cg.spec} :
       /\ SpecOf(s) = [CgSpec(cg) EXCEPT !.template.storage = SpecOf(s).template.storage]
       /\ cg' = [cg EXCEPT !.spec = s]
  /\ UNCHANGED <<cluster, pods, claims, cache, queued, reconcile, excused>>

UserDeletesGroup ==
  /\ cg # None /\ ~cg.deleting
  /\ Happens("delete", cg)
  /\ cg' = IF cg.finalizer THEN [cg EXCEPT !.deleting = TRUE] ELSE None
  /\ UNCHANGED <<cluster, pods, claims, cache, queued, reconcile, excused>>

UserDeletesSecret ==
  /\ secret
  /\ Happens("secret", cg)
  /\ secret' = FALSE
  /\ UNCHANGED <<nodes, jobs, dirty, cg, pods, claims, cache, queued, reconcile, excused>>

-----------------------------------------------------------------------------
WorkerCall(w) ==
  \/ EnsureClaims(w) \/ CreateWorker(w) \/ RestartWorker(w) \/ BeginsLeaving(w) \/ DeleteWorker(w) \/ CleanWorkerCache(w)
Step ==
  \/ ReconcileGone \/ ReconcileNew \/ AddFinalizer
  \/ ReconcileDeleted \/ CleanAllDone \/ RemoveFinalizer
  \/ ReconcileFails \/ ReconcileSync \/ StartRemoval \/ WriteStatus
  \/ \E w \in Names : WorkerCall(w)
Observe == ObserveGroup \/ ObserveWorkers \/ \E n \in Nodes : ObserveNode(n)
Kubelet == \E w \in Names : WorkerStarts(w) \/ WorkerStops(w) \/ ClaimGoes(w)
Jobs == \E j \in JobNames : JobRuns(j) \/ JobFails(j) \/ JobExpires(j)
User == UserScales \/ UserExpands \/ UserDeletesGroup \/ UserDeletesSecret \/ \E n \in Nodes : UserEditsNode(n)

Next ==
  \/ Step \/ Observe \/ Kubelet \/ Jobs \/ User
  \/ CallFails \/ Crash \/ Collect
  \/ \E w \in Names : WorkerPlaced(w)

Spec == Init /\ [][Next]_vars

\* The reconcile goes on, the informers catch up, and the cluster does its part.
Fairness ==
  /\ WF_vars(Step) /\ WF_vars(Collect)
  /\ WF_vars(ObserveGroup) /\ WF_vars(ObserveWorkers) /\ \A n \in Nodes : WF_vars(ObserveNode(n))
  /\ \A w \in Names : /\ WF_vars(WorkerPlaced(w)) /\ WF_vars(WorkerStarts(w))
                      /\ WF_vars(WorkerStops(w)) /\ WF_vars(ClaimGoes(w))
  /\ \A j \in JobNames : WF_vars(JobRuns(j)) /\ WF_vars(JobFails(j)) /\ WF_vars(JobExpires(j))

FairSpec == Spec /\ Fairness
-----------------------------------------------------------------------------
(* Properties *)

\* A worker or a claim comes into being only while the finalizer holds the group,
\* so that it cannot go without being cleaned up after: neither a reconcile with
\* an old group, nor one the deletion or a crash cuts across, makes one.
CreatesUnderFinalizer ==
  [][\A w \in Names :
       \/ pods[w] = None /\ pods'[w] # None
       \/ claims[w] = None /\ claims'[w] # None
       => cg # None /\ cg.finalizer]_vars

\* A worker that has the name of a node runs there and nowhere else, whether it
\* is bound to it or sent there by the scheduler - unless its template has a
\* required node affinity of its own, which is then an alternative.
AtHome ==
  \A w \in Nodes :
    /\ cg # None /\ Exists(pods, w) /\ pods[w].node # None
    /\ nodes[w] # None /\ TemplateOf(CgSpec(cg), nodes, w).affinity.node = None
    => pods[w].node = w

\* The workers a reconcile expects can all be scheduled, each with all the others
\* in place: the simulation in the order of names, with workers that are still to
\* go and others that have no node yet, does not let two in that exclude each other.
AllFit ==
  [][pc = "idle" /\ pc' = "sync" /\ CgSpec(seenCg).enableScheduling =>
       LET spec == CgSpec(seenCg)
           placed == OtherPods \cup {WorkerPod(spec, w, w) : w \in run'.expect} IN
       \A w \in run'.expect : w \in Places(spec, seenNodes, placed, w)]_vars

\* Whenever the nodes stop changing the group has the workers it should have now,
\* each running with a claim of the size that is asked for, and no other; a group that is deleted goes, with
\* its workers and claims.  No event of a node, a worker or a claim is lost that
\* matters.  A worker that the scheduler finds no node for may be left over.
Complete(g) ==
  LET expect == Expects(g, nodes, pods) IN
  /\ \A w \in expect :
       \/ /\ Exists(pods, w) /\ pods[w].up /\ ~pods[w].deleting /\ ~pods[w].leaving
          /\ HasClaims(g) => claims[w] # None /\ claims[w].storage >= Requested(g)
       \/ w \in Replicas /\ Places(CgSpec(g), nodes, {}, w) = {}
  /\ \A w \in Names \ expect :
       ~Exists(pods, w) \/ (CgSpec(g).enableScheduling /\ pods[w].node = None)
Converges ==
  <>[](IF cg = None THEN \A w \in Names : ~Exists(pods, w) /\ claims[w] = None
       ELSE ~cg.deleting /\ (secret => Complete(cg)))

\* With cleanCache no node keeps cache of the group that has no worker of it, nor
\* any once the group is gone - but for what is excused: a call that fails between
\* the deletion of a worker and the job (or in the finalizer, which passes over
\* it), a crash there, a job that has just finished and is taken for the one to
\* create, a worker that is leaving or that the scheduler has placed when the
\* group is deleted.
CacheIsCleaned == <>[](~excused => \A n \in dirty : RunsOn(n) # {})
=============================================================================
