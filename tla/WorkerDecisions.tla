---- MODULE WorkerDecisions ----
(***************************************************************************)
(* What the CacheGroup controller decides about the worker pods of one     *)
(* cache group, as pure operators: when a worker may join, whether it      *)
(* joins with a temporary join option, what an update does to it, how a    *)
(* redundant worker leaves, and the status computed from a list of pods.   *)
(*   internal/controller/cachegroup_worker_lifecycle.go                    *)
(*   internal/controller/cachegroup_controller.go  (calculateStatus)       *)
(*   pkg/utils/worker.go, pkg/utils/pod.go                                 *)
(* Times are ticks of a coarse clock; durations are constants in ticks.    *)
(***************************************************************************)
EXTENDS Integers, FiniteSets

CONSTANTS
  Workers,           \* names a worker pod of the group can have
  MaxTime,           \* bound of the clock
  MaxGen,            \* bound of the number of worker templates the user writes
  V2Gens,            \* the templates whose image takes restart arguments (worker v2)
  RebalanceDelay,    \* common.DefaultRebalanceDelay, or JFS_CACHE_REBALANCE_DELAY
  LeaveDelay,        \* the rebalance delay of a worker that is leaving
  Margin,            \* common.RebalanceDelayMargin
  BackupDuration,    \* spec.backupDuration
  WaitingMax,        \* spec.waitingDeletedMaxDuration
  StatsMaxAge,       \* common.WorkerStatsMaxAge
  MinLeave,          \* common.MinLeaveWorkerDuration
  MaxUnavailable,    \* spec.updateStrategy.rollingUpdate.maxUnavailable ...
  Percent,           \* ... which is a percentage of the expected workers if TRUE
  AutoJoin           \* the template lets the operator add a join option

ASSUME DurationsAssumption ==
  /\ {MaxTime, RebalanceDelay, LeaveDelay, Margin, BackupDuration, WaitingMax,
      StatsMaxAge, MinLeave, MaxUnavailable, MaxGen} \subseteq Nat
  /\ {Percent, AutoJoin} \subseteq BOOLEAN
  /\ V2Gens \subseteq 1..MaxGen

\* The clock reaches further than any span of time a decision depends on.
ASSUME HorizonAssumption ==
  /\ MaxTime >= RebalanceDelay + BackupDuration
  /\ MaxTime > WaitingMax
  /\ MaxTime >= StatsMaxAge + Margin + RebalanceDelay
  /\ MaxTime >= StatsMaxAge + Margin + LeaveDelay
  /\ MaxTime >= StatsMaxAge + MinLeave

ASSUME WorkersAssumption == IsFiniteSet(Workers)

Never == -1                             \* an annotation that is not there
Time  == 0..MaxTime
Gens  == 1..MaxGen
Health == {"pending", "ready", "failed"}

(***************************************************************************)
(* A worker pod: the template generation it was rendered from (its hash),  *)
(* whether it is a v2 worker, its condition, its deletion mark, the times  *)
(* in the backup-worker and waiting-delete-worker annotations, and when    *)
(* its JuiceFS process started.                                            *)
(***************************************************************************)
Pod == [gen : Gens, v2 : BOOLEAN, health : Health, deleting : BOOLEAN,
        joinAt : Time \cup {Never}, leaveAt : Time \cup {Never}, startAt : Time]
NoPod == [gen |-> 0, v2 |-> FALSE, health |-> "pending", deleting |-> FALSE,
          joinAt |-> Never, leaveAt |-> Never, startAt |-> 0]
PodList == [Workers -> Pod \cup {NoPod}]

Exists(L, w) == L[w] # NoPod
Ready(p)     == p.health = "ready"      \* IsPodReady: never of a pod that is not there
Joining(p)   == p.joinAt # Never
Leaving(p)   == p.leaveAt # Never

(***************************************************************************)
(* The samples of the stats controller: when the worker was sampled, when  *)
(* the process it sampled had started, and what its receive and transfer   *)
(* counters showed. "unknown": a counter or its rate is missing (a first   *)
(* sample has no rate); "moving": the rate is at least the idle rate;      *)
(* "zero" and "idle": below it, with nothing or something counted so far.  *)
(***************************************************************************)
Counters == {"unknown", "moving", "zero", "idle"}
Sample   == [sampleAt : Time \cup {Never}, startAt : Time \cup {Never},
             receive : Counters, transfer : Counters]
NoSample == [sampleAt |-> Never, startAt |-> Never, receive |-> "unknown", transfer |-> "unknown"]

(***************************************************************************)
(* The part of status the controller owns, and status.cacheSize.           *)
(***************************************************************************)
Batch   == [members : SUBSET Workers, startAt : 0..(MaxTime + RebalanceDelay + LeaveDelay)]
NoBatch == [members |-> {}, startAt |-> 0]
CacheSizes == {"", "0B", "some"}
Phases  == {"Waiting", "Progressing", "Ready"}
Status  == [phase : Phases, batch : Batch, ready : Nat, joining : Nat, waiting : Nat]

AtLeast0(n) == IF n > 0 THEN n ELSE 0
Latest(S)   == {t \in S : \A s \in S : s <= t}   \* the greatest element, as a singleton

----
(* When a worker may be added, and how it joins: pkg/utils/worker.go *)

\* A mutant: the window stays open through the margin before the rebalance.
CanAddWorkerUpToStart(batch, cacheSize, now) ==
  cacheSize = "0B" \/ batch.members = {} \/ now < batch.startAt

CanAddWorker(batch, cacheSize, now) ==
  \/ cacheSize = "0B"
  \/ batch.members = {}
  \/ now < batch.startAt - Margin

WorkerRebalanceDelay(p) == IF Leaving(p) THEN LeaveDelay ELSE RebalanceDelay

CacheGroupRebalanceDelay(L) ==
  IF \E w \in Workers : Exists(L, w)
  THEN CHOOSE d \in {WorkerRebalanceDelay(L[w]) : w \in {v \in Workers : Exists(L, v)}} :
         \A w \in Workers : Exists(L, w) => d <= WorkerRebalanceDelay(L[w])
  ELSE RebalanceDelay

\* A mutant: any recent sample counts, one taken before the transfer could start included.
CounterIdleWhenever(worker, s, counter, since, minIdle, now) ==
  Ready(worker) /\ counter \notin {"unknown", "moving"} /\ now - s.sampleAt <= StatsMaxAge

\* A mutant: a rate that is missing reads as 0.
CounterIdleIfNoRate(worker, s, counter, since, minIdle, now) ==
  /\ Ready(worker) /\ counter # "moving"
  /\ now - s.sampleAt <= StatsMaxAge /\ s.sampleAt >= since

\* A counter of `worker` moved slower than the idle rate in a sample taken at `since` or later.
CounterIdle(worker, s, counter, since, minIdle, now) ==
  /\ Ready(worker)
  /\ counter \notin {"unknown", "moving"}
  /\ now - s.sampleAt <= StatsMaxAge
  /\ s.sampleAt >= since
  /\ counter = "zero" => s.sampleAt - s.startAt >= minIdle

JoinCheckAfter(worker, t) ==
  t + WorkerRebalanceDelay(worker) + Margin

ShouldAddJoinOption(w, actual, stats, cacheSize, now) ==
  /\ AutoJoin
  /\ IF actual = NoPod
     THEN cacheSize = "some"
     ELSE /\ Joining(actual)
          /\ now - actual.joinAt < BackupDuration
          /\ \E t \in Latest({actual.joinAt} \cup {stats[v].startAt : v \in Workers}) :
               ~CounterIdle(actual, stats[w], stats[w].receive,
                            JoinCheckAfter(actual, t), 0, now)

----
(* What an update does to an expected worker: workerUpdateAction *)

\* newWorker: the pod for template `gen`; its join annotation is the time it was rendered.
NewWorker(gen, join, now) ==
  [gen |-> gen, v2 |-> gen \in V2Gens, health |-> "pending", deleting |-> FALSE,
   joinAt |-> IF join THEN now ELSE Never, leaveAt |-> Never, startAt |-> now]

\* The hash of a v1 worker covers its join option; a v1 worker is compared with the v1 rendering.
SameHash(actual, expect) ==
  /\ actual.gen = expect.gen
  /\ actual.v2 => expect.v2
  /\ actual.v2 \/ Joining(actual) = Joining(expect)

\* A mutant: a worker that was leaving and is wanted again looks up to date.
SameMountOptsButLeaving(actual, expect) == Joining(actual) = Joining(expect)

\* The mount options annotation, which only v2 workers have, holds the join and leave options.
SameMountOpts(actual, expect) ==
  Joining(actual) = Joining(expect) /\ ~Leaving(actual)

\* A mutant: an evicted worker with the right hash is left as it is.
RecreatesOnHash(onDelete, actual, expect) ==
  actual = NoPod \/ (~actual.deleting /\ ~onDelete /\ ~SameHash(actual, expect))

\* A pod that is being deleted is left alone. Under OnDelete only the end of the join phase is applied.
Recreates(onDelete, actual, expect) ==
  \/ actual = NoPod
  \/ /\ ~actual.deleting
     /\ ~onDelete
     /\ actual.health = "failed" \/ ~SameHash(actual, expect)

SmoothRestarts(onDelete, actual, expect) ==
  /\ actual # NoPod
  /\ ~actual.deleting
  /\ actual.v2
  /\ ~Recreates(onDelete, actual, expect)
  /\ IF onDelete THEN Joining(actual) /\ ~Joining(expect) /\ SameHash(actual, expect)
                 ELSE ~SameMountOpts(actual, expect)

Unavailable(L) == {w \in Workers : Exists(L, w) /\ (L[w].deleting \/ ~Ready(L[w]))}

MaxUnavailableOf(onDelete, total) ==
  IF onDelete THEN 1
  ELSE IF Percent THEN (MaxUnavailable * total) \div 100 ELSE MaxUnavailable

\* A mutant: the workers that are down already do not count.
UpdateBudgetPerPass(onDelete, L, total) == MaxUnavailableOf(onDelete, total)

UpdateBudget(onDelete, L, total) ==
  AtLeast0(MaxUnavailableOf(onDelete, total) - Cardinality(Unavailable(L)))

----
(* How a redundant worker leaves: gracefulShutdownWorker *)

(***************************************************************************)
(* `live` is what the controller reads from the running worker: whether    *)
(* its mount point answers, whether reading its counters failed, whether   *)
(* its cache is empty, and when its process started.                       *)
(***************************************************************************)
Live == [mounted : BOOLEAN, failed : BOOLEAN, empty : BOOLEAN, startAt : Time]

MinIdle(p) == IF MinLeave > WorkerRebalanceDelay(p) + Margin
              THEN MinLeave ELSE WorkerRebalanceDelay(p) + Margin

MigrationDone(p, s, live, now) ==
  /\ s.startAt = live.startAt               \* sameWorkerProcess
  /\ CounterIdle(p, s, s.transfer, p.leaveAt, MinIdle(p), now)

CanDelete(p, s, readyWorkers, live, now) ==
  LET serving == Ready(p) /\ live.mounted
  IN \/ Leaving(p) /\ now - p.leaveAt > WaitingMax
     \/ ~Leaving(p) /\ (readyWorkers <= 1 \/ ~serving)
     \/ serving /\ ~live.failed /\ (live.empty \/ (Leaving(p) /\ MigrationDone(p, s, live, now)))

ShutdownFails(p, s, readyWorkers, live, now) ==
  /\ ~CanDelete(p, s, readyWorkers, live, now)
  /\ Ready(p) /\ live.mounted /\ live.failed

StartsLeaving(p, s, readyWorkers, live, now) ==
  /\ ~CanDelete(p, s, readyWorkers, live, now)
  /\ ~ShutdownFails(p, s, readyWorkers, live, now)
  /\ ~Leaving(p)

\* A mutant: the annotation tells when the wait ends.
LeavingWorkerUntil(p, now) == [p EXCEPT !.leaveAt = now + WaitingMax]

\* The copy of the pod that serves its cache to the others: decommission, or group-weight=0.
LeavingWorker(p, now) == [p EXCEPT !.leaveAt = now]

----
(* The status of the group: calculateStatus *)

Joiners(L) == {w \in Workers : Exists(L, w) /\ Joining(L[w])}

Leavers(L) == {w \in Workers : Exists(L, w) /\ Leaving(L[w])}

\* A mutant: the last joiner sets the start of the batch, even to an earlier time.
BatchStartOfJoiner(batch, L) ==
  LET starts == {L[w].joinAt + CacheGroupRebalanceDelay(L) : w \in Joiners(L) \ batch.members}
  IN IF starts = {} THEN {batch.startAt} ELSE Latest(starts)

\* The start of the rebalance once the joining workers of L are members of `batch`.
BatchStart(batch, L) ==
  Latest({batch.startAt} \cup
         {L[w].joinAt + CacheGroupRebalanceDelay(L) : w \in Joiners(L) \ batch.members})

\* A mutant: a batch takes no member after the first ones.
BatchMembersAtFirst(batch, expect, L) ==
  {w \in (IF batch.members = {} THEN Joiners(L) ELSE batch.members) : w \in expect \/ Exists(L, w)}

BatchMembers(batch, expect, L) ==
  {w \in batch.members \cup Joiners(L) : w \in expect \/ Exists(L, w)}

MemberFinished(w, expect, L) ==
  /\ w \in expect
  /\ Exists(L, w)
  /\ ~Joining(L[w])
  /\ ~L[w].deleting
  /\ Ready(L[w])

NextBatch(batch, expect, L, startAt, now) ==
  LET members == BatchMembers(batch, expect, L)
  IN IF \/ members = {}
        \/ now >= startAt /\ \A w \in members : MemberFinished(w, expect, L)
        \/ now >= startAt + BackupDuration
     THEN NoBatch
     ELSE [members |-> members, startAt |-> startAt]

ReadyWorkers(L) == {w \in Workers : Ready(L[w])}

CalculateStatus(old, expect, L, startAt, now) ==
  IF expect = {}
  THEN [old EXCEPT !.phase = "Waiting", !.batch = NoBatch, !.ready = 0, !.joining = 0]
  ELSE [phase   |-> IF Cardinality(ReadyWorkers(L)) = Cardinality(expect)
                    THEN "Ready" ELSE "Progressing",
        batch   |-> NextBatch(old.batch, expect, L, startAt, now),
        ready   |-> Cardinality(ReadyWorkers(L)),
        joining |-> Cardinality(Joiners(L)),
        waiting |-> Cardinality(Leavers(L))]
====
