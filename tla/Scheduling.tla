----------------------------- MODULE Scheduling -----------------------------
(* Which workers a cache group is to have: the names parseExpectState gives,  *)
(* the simulation of the Kubernetes scheduler it uses, and what the pod       *)
(* builder makes of a name: where the pod may run and where its cache is.     *)
(* internal/controller/cachegroup_controller.go, pkg/builder/                 *)
(* cache_group_pod.go, pkg/builder/job.go, pkg/scheduler/.                    *)
(*                                                                            *)
(* Labels and selectors are functions from keys to values; a node has labels  *)
(* and taints; a pod a name, a namespace, labels and the name of its node.    *)
EXTENDS Naturals, Sequences, FiniteSets

CONSTANTS
  None,           \* no node, no selector, no required terms, no object; a model value
  NodesByName,    \* the names of the nodes that may be there, in their order
  ReplicaNames    \* the names of the replicas: the first for replica 0

Nodes == {NodesByName[i] : i \in DOMAIN NodesByName}
Replicas == {ReplicaNames[i] : i \in DOMAIN ReplicaNames}

Label(labels, k) == IF k \in DOMAIN labels THEN labels[k] ELSE ""
NodeSelectorContains(selector, labels) == \A k \in DOMAIN selector : Label(labels, k) = selector[k]
Selects(selector, labels) == \A k \in DOMAIN selector : k \in DOMAIN labels /\ labels[k] = selector[k]

\* The nodes a List returns for a selector.
ListNodes(nodes, selector) ==
  {n \in Nodes : nodes[n] # None /\ Selects(selector, nodes[n].labels)}

(* Overwrites *)

\* Labels, annotations, the node selector and what concerns the pull of the
\* image cannot be overwritten.
OverwriteFields ==
  {"serviceAccountName", "enableServiceLinks", "hostNetwork", "schedulerName", "tolerations",
   "image", "env", "resources", "livenessProbe", "readinessProbe", "startupProbe",
   "securityContext", "lifecycle", "volumeMounts", "volumeDevices", "volumes", "opts",
   "dnsPolicy", "cacheDirs", "affinity"}

MergeCacheGroupWorkerTemplate(template, overwrite) ==
  [f \in DOMAIN template |->
     IF f \in OverwriteFields \cap DOMAIN overwrite.set THEN overwrite.set[f] ELSE template[f]]

Overwrites(overwrite, nodes, n) ==
  \/ n \in overwrite.nodes
  \/ overwrite.selector # None /\ NodeSelectorContains(overwrite.selector, nodes[n].labels)

\* The template of the worker of node n: each overwrite for it in turn.
TemplateOf(spec, nodes, n) ==
  LET After[i \in 0 .. Len(spec.overwrite)] ==
        IF i = 0 THEN spec.template
        ELSE IF Overwrites(spec.overwrite[i], nodes, n)
        THEN MergeCacheGroupWorkerTemplate(After[i - 1], spec.overwrite[i])
        ELSE After[i - 1]
  IN After[Len(spec.overwrite)]

(* The simulated scheduler *)

CheckTolerations(template, node) ==
  \A taint \in node.taints :
    taint.effect \in {"NoExecute", "NoSchedule"} => taint.key \in template.tolerations

CheckNodeAffinity(template, node) ==
  \/ template.affinity.node = None
  \/ \E term \in template.affinity.node : Selects(term, node.labels)

\* The pods in the topology of `node` that a term tells of: those there are, but
\* for the worker itself and the workers that will have to go, and the workers
\* that are to come.  Nodes the group does not select are not looked at.
Within(p, term, node, listed) ==
  p.node \in DOMAIN listed /\ Label(listed[p.node].labels, term.key) = node.labels[term.key]
Told(p, term, self) == Selects(term.selector, p.labels) /\ p.name # self
TermPodsThereAre(term, node, self, listed, pods, decided) ==
  {p \in pods : /\ Within(p, term, node, listed) /\ Told(p, term, self)
                /\ p.name \notin decided.rejected
                /\ term.namespaces # {} => p.namespace \in term.namespaces}
TermPods(term, node, self, listed, pods, decided) ==
  TermPodsThereAre(term, node, self, listed, pods, decided)
  \cup {p \in decided.pending : Within(p, term, node, listed) /\ Told(p, term, self)}

CheckPodAffinity(template, node, self, listed, pods, decided) ==
  \A term \in template.affinity.pod :
    /\ term.key \in DOMAIN node.labels
    /\ TermPods(term, node, self, listed, pods, decided) # {}

\* A node without the key satisfies the term.
CheckPodAntiAffinity(template, node, self, listed, pods, decided) ==
  \A term \in template.affinity.antiPod :
    term.key \in DOMAIN node.labels => TermPods(term, node, self, listed, pods, decided) = {}

CanSchedulePodOnNode(template, node, self, listed, pods, decided) ==
  /\ CheckNodeAffinity(template, node)
  /\ CheckTolerations(template, node)
  /\ CheckPodAffinity(template, node, self, listed, pods, decided)
  /\ CheckPodAntiAffinity(template, node, self, listed, pods, decided)

\* The worker of node n, by name, and the labels all workers of a group have.
WorkerPod(spec, n, node) ==
  [name |-> n, namespace |-> spec.namespace, labels |-> spec.labels, node |-> node]

AppendPendingPod(decided, pod) == [decided EXCEPT !.pending = @ \cup {pod}]
AppendToBeDeletedPod(decided, pod) == [decided EXCEPT !.rejected = @ \cup {pod.name}]

\* The nodes are tried in the order of their names.
ParseExpectStateByScheduler(spec, nodes, pods) ==
  LET listed == [n \in ListNodes(nodes, spec.template.nodeSelector) |-> nodes[n]]
      Decided[i \in 0 .. Len(NodesByName)] ==
        IF i = 0 THEN [pending |-> {}, rejected |-> {}]
        ELSE LET n == NodesByName[i]
                 decided == Decided[i - 1]
             IN IF n \notin DOMAIN listed THEN decided
                ELSE IF CanSchedulePodOnNode(TemplateOf(spec, nodes, n), nodes[n], n, listed, pods, decided)
                THEN AppendPendingPod(decided, WorkerPod(spec, n, n))
                ELSE AppendToBeDeletedPod(decided, WorkerPod(spec, n, None))
  IN {p.name : p \in Decided[Len(NodesByName)].pending}

ParseExpectStateByReplicas(spec) == {ReplicaNames[i] : i \in 1 .. spec.replicas}
ParseExpectStateByNodeSelector(spec, nodes) == ListNodes(nodes, spec.template.nodeSelector)

ParseExpectState(spec, nodes, pods) ==
  CASE spec.replicas # None -> ParseExpectStateByReplicas(spec)
    [] spec.replicas = None /\ spec.enableScheduling -> ParseExpectStateByScheduler(spec, nodes, pods)
    [] OTHER -> ParseExpectStateByNodeSelector(spec, nodes)

(* What the pod builder makes of it *)

\* Without the scheduler a worker is bound to its node as it is created.
\* A mutant: a replica too.
NodeNameOfReplica(spec, w) == IF ~spec.enableScheduling THEN w ELSE None
NodeName(spec, w) == IF spec.replicas = None /\ ~spec.enableScheduling THEN w ELSE None

\* A mutant: the worker is not kept to its node.
UserNodeAffinity(template, w) ==
  [names |-> Nodes, terms |-> {}]
\* The term with the name of the node is one more of the alternatives, if there are any.
AddNodeNameNodeAffinity(template, w) ==
  [names |-> {w}, terms |-> IF template.affinity.node = None THEN {} ELSE template.affinity.node]

\* Where the Kubernetes scheduler may put worker w: it looks at every node, and
\* at the pods there are.  A worker waits whose node is gone.
Places(spec, nodes, pods, w) ==
  LET there == [n \in {m \in Nodes : nodes[m] # None} |-> nodes[n]]
      Nobody == [pending |-> {}, rejected |-> {}]
      OfNode(n) ==
        LET template == TemplateOf(spec, nodes, w)
            affinity == AddNodeNameNodeAffinity(template, w) IN
        /\ n \in affinity.names \/ \E term \in affinity.terms : Selects(term, nodes[n].labels)
        /\ CheckTolerations(template, nodes[n])
        /\ CheckPodAffinity(template, nodes[n], w, there, pods, Nobody)
        /\ CheckPodAntiAffinity(template, nodes[n], w, there, pods, Nobody)
  IN {n \in ListNodes(nodes, spec.template.nodeSelector) :
        IF spec.replicas # None THEN CheckTolerations(spec.template, nodes[n])
        ELSE w \in DOMAIN there /\ OfNode(n)}

\* The volumes with the cache of a worker: directories of its node, claims it
\* has by itself (VolumeClaimTemplates), and claims of others.
DefaultCacheDirs == {"HostPath"}
GenCacheDirs(template) == IF template.cacheDirs = {} THEN DefaultCacheDirs ELSE template.cacheDirs

\* The job that cleans a cache has the name of the node in its name, and runs
\* there: there is one for all the workers that have no node yet.
CleanCacheJobName(node) == [cleans |-> node]
\* There is none for a cache in claims of its own, which are deleted.
NeedsCleanCacheJob(spec, volumes) == spec.replicas = None /\ volumes \cap {"HostPath", "PVC"} # {}
=============================================================================
