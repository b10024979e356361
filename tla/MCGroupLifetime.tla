-------------------------- MODULE MCGroupLifetime --------------------------
(* Instances of GroupLifetime for TLC: the nodes, and the specs of the group. *)
EXTENDS GroupLifetime

MCNodesByName == <<"n1", "n2">>
MCReplicaNames == <<"r0", "r1">>

NodeOf(role, zone, taints) ==
  [labels |-> [role |-> role, zone |-> zone, site |-> "s"], taints |-> taints]
CacheNode == NodeOf("cache", "a", {})
OtherNode == NodeOf("web", "a", {})
SpotNode == NodeOf("cache", "b", {[key |-> "spot", effect |-> "NoSchedule"]})

MCNodeObjects(s) ==
  CASE s = "nodes" -> {CacheNode, OtherNode}
    [] s = "alone" -> {CacheNode}
    [] OTHER -> {CacheNode, SpotNode}
\* Where there are two kinds one node is of each.  No group has one replica, or
\* larger claims, at first but the one that cannot be scaled.
MCClusters(s) ==
  {ns \in [Nodes -> MCNodeObjects(s)] :
     ns["n1"] = CacheNode /\ MCNodeObjects(s) = {ns[n] : n \in Nodes} /\ s \notin {"one", "large"}}

MCKinds(s) ==
  CASE s = "nodes" -> {"node", "delete", "error", "crash"}
    [] s = "scheduled" -> {"node", "delete"}
    [] s = "alone" -> {"node", "delete", "secret", "error", "crash"}
    [] s \in {"one", "two", "large"} -> {"scale", "expand", "error", "crash"}
MCMaxEvents(s) == IF s = "scheduled" THEN 1 ELSE 2

\* What the workers are to be near to.
MCOtherPods ==
  {[name |-> "app", namespace |-> "web", labels |-> [app |-> "web"], node |-> "n1"]}

GroupLabels == [group |-> "g"]
Affinity(pod, antiPod) == [node |-> None, pod |-> pod, antiPod |-> antiPod]
Term(selector, key) == [selector |-> selector, key |-> key, namespaces |-> {}]

GroupSpec(scheduling, replicas, affinity, dirs, storage, overwrite) ==
  [ enableScheduling |-> scheduling, replicas |-> replicas, namespace |-> "ns", labels |-> GroupLabels,
    cleanCache |-> ~scheduling, overwrite |-> overwrite,
    template |-> [ nodeSelector |-> IF replicas = None THEN [role |-> "cache"] ELSE << >>,
                   tolerations |-> {}, affinity |-> affinity, cacheDirs |-> dirs,
                   storage |-> storage ] ]

ToleratesOnN2 == [nodes |-> {"n2"}, selector |-> None, set |-> [tolerations |-> {"spot"}]]

\* A worker on each node; one a zone, with an app on the site; one or two replicas.
MCSpecOf(s) ==
  CASE s = "nodes" -> GroupSpec(FALSE, None, Affinity({}, {}), {}, 1, << >>)
    [] s = "scheduled" ->
         GroupSpec(TRUE, None, Affinity({Term([app |-> "web"], "site")}, {Term(GroupLabels, "zone")}),
                   {"HostPath"}, 1, <<ToleratesOnN2>>)
    [] s = "alone" -> GroupSpec(FALSE, 1, Affinity({}, {}), {"HostPath", "VolumeClaimTemplates"}, 1, << >>)
    [] s = "one" -> GroupSpec(FALSE, 1, Affinity({}, {}), {"VolumeClaimTemplates"}, 1, << >>)
    [] s = "two" -> GroupSpec(FALSE, 2, Affinity({}, {}), {"VolumeClaimTemplates"}, 1, << >>)
    [] s = "large" -> GroupSpec(FALSE, 2, Affinity({}, {}), {"VolumeClaimTemplates"}, 2, << >>)
=============================================================================
