---- MODULE CacheGroupPhases_proofs ----
(***************************************************************************)
(* Proofs about what lasts over many passes, for any number of workers,    *)
(* any durations and any template: that a join ends on evidence, that a    *)
(* redundant worker is deleted only after its cache has migrated, and the  *)
(* batch of the workers that join: its start never moves to an earlier     *)
(* time, it knows who joins, and whoever joins does so in its window.      *)
(***************************************************************************)
EXTENDS CacheGroupPass_proofs, WellFoundedInduction

(***************************************************************************)
(* What a pass has yet to end on: the redundant workers of its list, and   *)
(* those it restarts or removes. Their pods are as they were listed, for   *)
(* whatever was decided on the list.                                       *)
(***************************************************************************)
Undecided(w) ==
  \/ w \in todo
  \/ pc = "workers" /\ w \in Redundant(run.list, spec.expect)
  \/ task[w] \in {"restart", "patch", "remove"}

AsListed(w) ==
  /\ pods[w].joinAt = run.list[w].joinAt /\ pods[w].leaveAt = run.list[w].leaveAt
  /\ "pod" \notin FaultKinds /\ Ready(run.list[w]) => Ready(pods[w])

UndecidedAsListed == \A w \in Workers : Undecided(w) /\ Exists(pods, w) => AsListed(w)

LEMMA AsListedInit == Init => UndecidedAsListed
BY DEF Init, UndecidedAsListed, Undecided, AllDone

\* The times of a list recede one by one, also those of a pod that is not there.
LEMMA TimesRecede ==
  ASSUME NEW L \in PodList, NEW w \in Workers
  PROVE  BackPods(L)[w].joinAt = Back(L[w].joinAt) /\ BackPods(L)[w].leaveAt = Back(L[w].leaveAt)
<1>1. BackPods(L)[w] = BackPod(L[w])
  BY DEF BackPods
<1>2. CASE L[w] = NoPod
  BY <1>1, <1>2 DEF BackPod, NoPod, Back, Never
<1>3. CASE L[w] \in Pod
  BY <1>1, <1>3, PodIsThere DEF BackPod, Pod
<1> QED BY <1>2, <1>3 DEF PodList

\* A tick leaves a pod as it was listed.
LEMMA TickAsListed ==
  ASSUME TypeInv, Tick, NEW w \in Workers, AsListed(w)
  PROVE  AsListed(w)'
<1>1. CASE UNCHANGED <<pods, run>>
  BY <1>1 DEF AsListed
<1>2. CASE Recede
  <2>1. /\ pods \in PodList /\ run.list \in PodList
        /\ run \in [spec : Spec0, status : Status, list : PodList, stats : [Workers -> Sample]]
    BY DEF TypeInv, TypeOK
  <2>2. pods' = BackPods(pods) /\ run'.list = BackPods(run.list)
    BY <2>1, <1>2 DEF Recede
  <2>3. /\ Ready(pods'[w]) <=> Ready(pods[w])
        /\ Ready(run'.list[w]) <=> Ready(run.list[w])
    BY <2>1, <2>2, BackedPods
  <2>4. /\ pods'[w].joinAt = Back(pods[w].joinAt) /\ pods'[w].leaveAt = Back(pods[w].leaveAt)
        /\ run'.list[w].joinAt = Back(run.list[w].joinAt)
        /\ run'.list[w].leaveAt = Back(run.list[w].leaveAt)
    BY <2>1, <2>2, TimesRecede
  <2> QED BY <2>3, <2>4 DEF AsListed
<1> QED BY <1>1, <1>2 DEF Tick

\* A step of a worker ends on what it was undecided about, or leaves it as it is.
LEMMA UndecidedBefore ==
  ASSUME TypeInv, PassInv, NEW w \in Workers, WorkerStep(w) \/ AwaitTimeout(w) \/ ApiError(w),
         NEW v \in Workers, Undecided(v)'
  PROVE  /\ Undecided(v)
         /\ \/ pods'[v] = pods[v]
            \/ v = w /\ task[v] = "restart" /\ Ready(pods[v]) /\ pods'[v] = [pods[v] EXCEPT !.startAt = now]
<1>1. /\ Calls(w) /\ UNCHANGED <<now, spec, seen, pc, run>> /\ todo' \subseteq todo
      /\ \A u \in Workers \ {w} : task'[u] = task[u] /\ pods'[u] = pods[u]
  BY WorkerCalls
<1>2. CASE v # w
  BY <1>1, <1>2 DEF Undecided
<1>3. CASE v = w
  <2>1. pc \in {"idle", "workers", "remove"}
    BY DEF TypeInv, TypeOK
  <2>2. task[w] # "done" => w \notin todo /\ ~(pc = "workers" /\ w \in Redundant(run.list, spec.expect))
    BY <2>1 DEF PassInv, PassShape, Redundant, AllDone
  <2>3. task[w] \in {"create", "delete", "await", "recreate", "remove", "clean"} =>
          task'[w] \notin {"restart", "patch", "remove"}
    BY <1>1, <2>2 DEF Calls
  <2> QED BY <1>1, <1>3, <2>1, <2>2, <2>3 DEF Undecided, Calls, Spares
<1> QED BY <1>2, <1>3

LEMMA AsListedStep ==
  ASSUME TypeInv, PassInv, UndecidedAsListed, [Next]_vars, FreshLists
  PROVE  UndecidedAsListed'
<1>1. CASE Start
  <2>1. run'.list = seen /\ UNCHANGED pods /\ seen = pods
    BY <1>1, FreshLists, StartCalls DEF Start
  <2> QED BY <2>1 DEF UndecidedAsListed, AsListed
<1>2. CASE StartRemoval
  <2>1. /\ UNCHANGED <<spec, pods, run, task>> /\ task = AllDone
        /\ pc = "workers" /\ pc' = "remove" /\ todo' = Redundant(run.list, run.spec.expect)
        /\ run.spec = spec
    BY <1>2 DEF StartRemoval, cgVars, PassInv, PassShape
  <2>2. \A w \in Workers : Undecided(w)' => Undecided(w)
    BY <2>1 DEF Undecided, AllDone
  <2> QED BY <2>1, <2>2 DEF UndecidedAsListed, AsListed, Exists
<1>3. CASE PatchStatus \/ PatchStatusFails \/ Crash
  <2>1. pc' = "idle" /\ todo' = {} /\ task' = AllDone
    BY <1>3, PassEnds
  <2> QED BY <2>1 DEF UndecidedAsListed, Undecided, AllDone
<1>4. CASE EditSpec
  <2>1. pc = "idle" /\ task = AllDone /\ todo = {} /\ UNCHANGED <<pc, task, todo>>
    BY <1>4 DEF EditSpec, Outside, passVars, PassInv, PassShape
  <2> QED BY <2>1 DEF UndecidedAsListed, Undecided, AllDone
<1>5. CASE Observe \/ CollectStats \/ UNCHANGED vars
  <2>1. UNCHANGED <<spec, pods, pc, run, task, todo>>
    BY <1>5 DEF Observe, CollectStats, vars, Outside, passVars, cgVars
  <2> QED BY <2>1 DEF UndecidedAsListed, Undecided, AsListed, Exists
<1>6. CASE Tick
  <2>1. /\ UNCHANGED <<spec, pc, task, todo>>
        /\ \A w \in Workers :
             /\ Exists(pods', w) <=> Exists(pods, w)
             /\ Exists(run'.list, w) <=> Exists(run.list, w)
             /\ run'.list[w].deleting = run.list[w].deleting
    BY <1>6, TickKeeps
  <2>2. \A w \in Workers : Undecided(w)' => Undecided(w)
    BY <2>1 DEF Undecided, Redundant
  <2> QED BY <1>6, <2>1, <2>2, TickAsListed DEF UndecidedAsListed
<1>7. ASSUME NEW w \in Workers, PodReady(w) \/ PodGone(w) \/ PodFails(w) \/ PodDeleted(w)
      PROVE  UndecidedAsListed'
  <2>1. /\ UNCHANGED <<spec, pc, run, task, todo>>
        /\ \A v \in Workers \ {w} : pods'[v] = pods[v]
    BY <1>7, PodHappens
  <2>2. ASSUME Exists(pods', w)
        PROVE  /\ Exists(pods, w)
               /\ pods'[w].joinAt = pods[w].joinAt /\ pods'[w].leaveAt = pods[w].leaveAt
               /\ "pod" \notin FaultKinds /\ Ready(pods[w]) => Ready(pods'[w])
    <3>1. pods \in [Workers -> Pod \cup {NoPod}] /\ (pods[w] # NoPod => pods[w] \in Pod)
      BY DEF TypeInv, TypeOK, PodList
    <3>2. ASSUME NEW p, SetPod(w, p) PROVE pods'[w] = p
      BY <3>1, <3>2 DEF SetPod
    <3>3. ~Ready(NoPod) /\ NoPod.deleting = FALSE
      BY DEF Ready, NoPod
    <3>4. CASE PodReady(w)
      BY <3>1, <3>2, <3>4 DEF PodReady, Exists, Pod, Ready
    <3>5. CASE PodGone(w)
      BY <2>2, <3>2, <3>5 DEF PodGone, Exists
    <3>6. CASE PodFails(w)
      <4>1. PICK h \in Health : SetPod(w, [pods[w] EXCEPT !.health = h])
        BY <3>6 DEF PodFails, Health
      <4>2. Ready(pods[w]) /\ "pod" \in FaultKinds /\ pods[w] \in Pod
        BY <3>1, <3>3, <3>6 DEF PodFails, Fault
      <4> QED BY <3>2, <3>3, <4>1, <4>2 DEF Exists, Pod
    <3>7. CASE PodDeleted(w)
      BY <3>1, <3>2, <3>7 DEF PodDeleted, Exists, Pod, Ready
    <3> QED BY <1>7, <3>4, <3>5, <3>6, <3>7
  <2> QED BY <2>1, <2>2 DEF UndecidedAsListed, Undecided, AsListed, Exists
<1>8. ASSUME NEW w \in Workers, WorkerStep(w) \/ AwaitTimeout(w) \/ ApiError(w)
      PROVE  UndecidedAsListed'
  <2>1. UNCHANGED run /\ pods \in [Workers -> Pod \cup {NoPod}]
    BY <1>8, WorkerCalls DEF TypeInv, TypeOK, PodList
  <2>2. ASSUME NEW v \in Workers, Undecided(v)', Exists(pods', v)
        PROVE  AsListed(v)'
    <3>1. /\ Undecided(v)
          /\ \/ pods'[v] = pods[v]
             \/ Ready(pods[v]) /\ pods'[v] = [pods[v] EXCEPT !.startAt = now]
      BY <1>8, <2>2, UndecidedBefore
    <3>2. CASE pods'[v] = pods[v]
      BY <2>1, <2>2, <3>1, <3>2 DEF UndecidedAsListed, AsListed, Exists
    <3>3. CASE Ready(pods[v]) /\ pods'[v] = [pods[v] EXCEPT !.startAt = now]
      <4>1. pods[v] \in Pod /\ Exists(pods, v)
        BY <2>1, <3>3, PodIsThere DEF Ready, NoPod, Exists
      <4>2. AsListed(v)
        BY <3>1, <4>1 DEF UndecidedAsListed
      <4> QED BY <2>1, <3>3, <4>1, <4>2 DEF AsListed, Pod, Ready
    <3> QED BY <3>1, <3>2, <3>3
  <2> QED BY <2>2 DEF UndecidedAsListed
<1> QED BY <1>1, <1>2, <1>3, <1>4, <1>5, <1>6, <1>7, <1>8 DEF Next

----
(***************************************************************************)
(* The end of a join.                                                      *)
(***************************************************************************)

\* What the controller goes by when it takes the join option off: of the pod as it is.
JoinIsOver(w) ==
  \/ now - pods[w].joinAt >= BackupDuration
  \/ /\ run.stats[w].receive \in {"zero", "idle"}
     /\ \A v \in Workers :
          run.stats[w].sampleAt >= JoinCheckAfter(pods[w], run.stats[v].startAt)
     /\ run.stats[w].sampleAt >= JoinCheckAfter(pods[w], pods[w].joinAt)

\* A restart takes the join option off on evidence, or leaves it as it was listed.
RestartsOnEvidence ==
  \A w \in Workers : task[w] \in {"restart", "patch"} =>
    /\ pc = "workers" =>
         (Exists(pods, w) /\ Joining(pods[w]) /\ ~Joining(want[w]) => JoinIsOver(w))
    /\ pc = "remove" => want[w].joinAt = run.list[w].joinAt

\* Unless the template lets the operator add the option, nobody joins.
NobodyJoins ==
  ~AutoJoin => \A w \in Workers : /\ ~Joining(pods[w]) /\ ~Joining(seen[w])
                                  /\ ~Joining(want[w]) /\ ~Joining(run.list[w])

JoinInv == NobodyJoins /\ RestartsOnEvidence

LEMMA JoinInit == Init => JoinInv
<1>1. \A w \in Workers : ~Joining(InitPods[w]) /\ ~Joining(NoPods[w])
  BY DEF InitPods, NoPods, NoPod, Joining
<1>2. Init => NobodyJoins
  <2>1. Init => pods = InitPods /\ seen = InitPods /\ want = NoPods /\ run.list = NoPods
    BY DEF Init, NoRun
  <2> QED BY <1>1, <2>1 DEF NobodyJoins, Joining
<1>3. Init => RestartsOnEvidence
  BY DEF Init, RestartsOnEvidence, AllDone
<1> QED BY <1>2, <1>3 DEF JoinInv

\* A set of times that is not empty has a latest one.
LEMMA LatestExists ==
  ASSUME NEW S \in SUBSET (Time \cup {Never}), S # {}
  PROVE  \E t \in Latest(S) : TRUE
<1> DEFINE T == {MaxTime - s : s \in S}
           less == OpToRel(<, Nat)
<1>1. MaxTime \in Nat /\ \A s \in S : s \in Int /\ s <= MaxTime
  BY DurationsAssumption DEF DurationsAssumption, Time, Never
<1>2. T \subseteq Nat /\ T # {}
  BY <1>1
<1>3. IsWellFoundedOn(less, Nat)
  BY NatLessThanWellFounded
<1>4. \E x \in T : \A y \in T : ~ (<<y, x>> \in less)
  <2> HIDE DEF T, less
  <2> QED BY <1>2, <1>3, WFMin
<1>5. PICK x \in T : \A y \in T : ~ (<<y, x>> \in less)
  BY <1>4
<1>6. \A y \in T : y >= x
  <2>1. ASSUME NEW m \in Nat, NEW n \in Nat, <<m, n>> \notin less PROVE m >= n
    BY <2>1 DEF OpToRel
  <2> HIDE DEF T, less
  <2> QED BY <1>2, <1>5, <2>1
<1>7. PICK t \in S : x = MaxTime - t
  BY <1>5
<1>8. \A s \in S : s <= t
  BY <1>1, <1>6, <1>7
<1> QED BY <1>8 DEF Latest

\* If a joining worker is not to keep its join option, its join is over.
LEMMA NoOptionIfOver ==
  ASSUME TypeInv, AutoJoin, NEW w \in Workers, Joining(pods[w]),
         ~ShouldAddJoinOption(w, pods[w], stats, cacheSize, now)
  PROVE  \/ now - pods[w].joinAt >= BackupDuration
         \/ /\ stats[w].receive \in {"zero", "idle"}
            /\ \A v \in Workers : stats[w].sampleAt >= JoinCheckAfter(pods[w], stats[v].startAt)
            /\ stats[w].sampleAt >= JoinCheckAfter(pods[w], pods[w].joinAt)
<1> DEFINE S == {pods[w].joinAt} \cup {stats[v].startAt : v \in Workers}
<1>1. pods[w] \in Pod /\ stats \in [Workers -> Sample] /\ now \in Time
  BY ListedPod DEF Joining, NoPod, TypeInv, TypeOK
<1>2. S \in SUBSET (Time \cup {Never}) /\ S # {}
  BY <1>1 DEF Pod, Sample
<1>3. PICK t \in Latest(S) : TRUE
  <2> HIDE DEF S
  <2> QED BY <1>2, LatestExists
<1>4. \A s \in S : s <= t /\ s \in Int /\ t \in Int
  BY <1>2, <1>3 DEF Latest, Time, Never
<1>5. CASE ~(now - pods[w].joinAt < BackupDuration)
  BY <1>1, <1>5, DurationsAssumption DEF DurationsAssumption, Pod, Time, Never
<1>6. CASE now - pods[w].joinAt < BackupDuration
  <2>1. CounterIdle(pods[w], stats[w], stats[w].receive, JoinCheckAfter(pods[w], t), 0, now)
    BY <1>1, <1>3, <1>6, PodIsThere DEF ShouldAddJoinOption
  <2>2. stats[w].receive \in {"zero", "idle"} /\ stats[w].sampleAt >= JoinCheckAfter(pods[w], t)
    BY <1>1, <2>1 DEF CounterIdle, Sample, Counters
  <2>3. WorkerRebalanceDelay(pods[w]) \in Int /\ Margin \in Int /\ stats[w].sampleAt \in Int
    BY <1>1, DurationsAssumption DEF WorkerRebalanceDelay, DurationsAssumption, Sample, Time, Never
  <2>4. \A s \in S : stats[w].sampleAt >= JoinCheckAfter(pods[w], s)
    BY <1>4, <2>2, <2>3 DEF JoinCheckAfter
  <2> QED BY <2>2, <2>4
<1> QED BY <1>5, <1>6

\* A step of a worker gives it something to become only when it begins to leave, and then its join
\* annotation is the one that was listed.
LEMMA WorkerWants ==
  ASSUME TypeInv, NEW w \in Workers, WorkerStep(w) \/ AwaitTimeout(w) \/ ApiError(w)
  PROVE  /\ \A v \in Workers \ {w} : want'[v] = want[v]
         /\ \/ want'[w] = want[w] /\ (task'[w] = "restart" => task[w] = "restart")
            \/ pc = "remove" /\ want'[w].joinAt = run.list[w].joinAt
<1> USE DEF Remaining
<1>1. /\ want \in [Workers -> Pod \cup {NoPod}] /\ task \in [Workers -> Tasks]
      /\ \A v \in Workers : run.list[v] # NoPod => run.list[v] \in Pod
  BY ListedPod DEF TypeInv, TypeOK, PodList
<1>2. ASSUME NEW t, Goto(w, t) PROVE task'[w] = t
  BY <1>1, <1>2 DEF Goto
<1>3. CASE ShutDownWorker(w)
  <2>1. \/ Goto(w, "remove") /\ UNCHANGED want
        \/ Abort(w) /\ UNCHANGED want
        \/ UNCHANGED <<want, task>>
        \/ want' = [want EXCEPT ![w] = LeavingWorker(run.list[w], now)]
    BY <1>3 DEF ShutDownWorker
  <2>2. pc = "remove" /\ run.list[w] \in Pod
    BY <1>1, <1>3 DEF ShutDownWorker, TypeInv, Targets, Exists
  <2>3. LeavingWorker(run.list[w], now).joinAt = run.list[w].joinAt
    BY <2>2 DEF LeavingWorker, Pod
  <2> QED BY <1>1, <1>2, <2>1, <2>2, <2>3 DEF Abort
<1>4. CASE ~ShutDownWorker(w)
  BY <1>2, <1>4
  DEF WorkerStep, CreateWorker, DeleteOld, AwaitGone, AwaitTimeout, RecreateWorker, RestartWorker,
      PatchWorker, RestartFails, ApiError, DeleteRedundant, CleanWorkerCache, Abort
<1> QED BY <1>3, <1>4

\* A pass on an up-to-date list restarts a joining worker without its option on evidence, and
\* gives it an option only if the template lets it.
LEMMA JoinStart ==
  ASSUME TypeInv, JoinInv, Start, FreshLists
  PROVE  JoinInv'
<1>1. /\ pc' = "workers" /\ UNCHANGED <<now, pods, seen>> /\ seen = pods
      /\ run'.list = seen /\ run'.stats = stats
      /\ \A w \in Workers : want'[w] \in {NoPod, Expected(w, seen)}
      /\ \A w \in Workers : want'[w] = NoPod => task'[w] = "done"
  <2>1. \E updated : \E st :
          /\ run' = [spec |-> spec, status |-> st, list |-> seen, stats |-> stats]
          /\ want' = [w \in Workers |-> IF w \in updated THEN Expected(w, seen) ELSE NoPod]
          /\ task' = [w \in Workers |-> IF w \in updated
                                        THEN FirstTask(seen[w], Expected(w, seen)) ELSE "done"]
    BY DEF Start
  <2>2. \A w \in Workers : Expected(w, seen) # NoPod
    <3>1. spec.gen \in Gens
      BY DEF TypeInv, TypeOK, Spec0
    <3> QED BY <3>1 DEF Expected, NewWorker, NoPod, Gens
  <2> QED BY <2>1, <2>2, FreshLists DEF Start
<1>2. ASSUME NEW w \in Workers
      PROVE  Joining(Expected(w, pods)) <=> ShouldAddJoinOption(w, pods[w], stats, cacheSize, now)
  BY DEF Expected, NewWorker, Joining, TypeInv, TypeOK, Time, Never
<1>3. NobodyJoins'
  <2>1. ~AutoJoin => \A w \in Workers : ~Joining(Expected(w, pods))
    BY <1>2 DEF ShouldAddJoinOption
  <2>2. ~Joining(NoPod)
    BY DEF Joining, NoPod
  <2> QED BY <1>1, <2>1, <2>2 DEF JoinInv, NobodyJoins
<1>4. ASSUME NEW w \in Workers, task'[w] \in {"restart", "patch"},
             Joining(pods'[w]), ~Joining(want'[w])
      PROVE  JoinIsOver(w)'
  <2>1. AutoJoin /\ Joining(pods[w])
    BY <1>1, <1>4 DEF JoinInv, NobodyJoins
  <2>2. ~ShouldAddJoinOption(w, pods[w], stats, cacheSize, now)
    BY <1>1, <1>2, <1>4
  <2>3. \/ now - pods[w].joinAt >= BackupDuration
        \/ /\ stats[w].receive \in {"zero", "idle"}
           /\ \A v \in Workers : stats[w].sampleAt >= JoinCheckAfter(pods[w], stats[v].startAt)
           /\ stats[w].sampleAt >= JoinCheckAfter(pods[w], pods[w].joinAt)
    BY <2>1, <2>2, NoOptionIfOver
  <2> QED BY <1>1, <2>3 DEF JoinIsOver
<1> QED BY <1>1, <1>3, <1>4 DEF JoinInv, RestartsOnEvidence

LEMMA JoinWorker ==
  ASSUME TypeInv, PassInv, UndecidedAsListed, JoinInv, NEW w \in Workers,
         WorkerStep(w) \/ AwaitTimeout(w) \/ ApiError(w)
  PROVE  JoinInv'
<1>1. /\ Calls(w) /\ UNCHANGED <<now, spec, seen, pc, run>>
      /\ \A u \in Workers \ {w} : task'[u] = task[u] /\ pods'[u] = pods[u]
  BY WorkerCalls
<1>2. /\ \A v \in Workers \ {w} : want'[v] = want[v]
      /\ \/ want'[w] = want[w] /\ (task'[w] = "restart" => task[w] = "restart")
         \/ pc = "remove" /\ want'[w].joinAt = run.list[w].joinAt
  BY WorkerWants
<1>3. /\ pods[w] \in Pod \cup {NoPod} /\ want[w] \in Pod \cup {NoPod}
      /\ task[w] \in {"create", "recreate", "patch"} => want[w] \in Pod
  BY DEF TypeInv, TypeOK, PodList, Targets, Exists
<1>4. NobodyJoins'
  <2>1. ~AutoJoin => ~Joining(want'[w])
    BY <1>2 DEF JoinInv, NobodyJoins, Joining
  <2>2. pods'[w].joinAt \in {pods[w].joinAt, want[w].joinAt, Never}
    BY <1>1, <1>3 DEF Calls, Makes, Marks, Spares, Created, Pod, Exists, Ready, NoPod
  <2>3. ~AutoJoin => ~Joining(pods'[w])
    BY <2>2 DEF JoinInv, NobodyJoins, Joining
  <2> QED BY <1>1, <1>2, <2>1, <2>3 DEF JoinInv, NobodyJoins
<1>5. ASSUME NEW v \in Workers, task'[v] \in {"restart", "patch"}
      PROVE  /\ pc = "workers" =>
                  (Exists(pods', v) /\ Joining(pods'[v]) /\ ~Joining(want'[v]) => JoinIsOver(v)')
             /\ pc = "remove" => want'[v].joinAt = run.list[v].joinAt
  <2>1. CASE v # w
    BY <1>1, <1>2, <1>5, <2>1 DEF JoinInv, RestartsOnEvidence, Exists, JoinIsOver
  <2>2. CASE v = w /\ pc = "remove"
    <3>1. task'[w] = "patch" => task[w] \in {"restart", "patch"}
      BY <1>1 DEF Calls
    <3> QED BY <1>1, <1>2, <1>5, <2>2, <3>1 DEF JoinInv, RestartsOnEvidence
  <2>3. CASE v = w /\ pc # "remove"
    <3>1. /\ task[w] = "restart" /\ Ready(pods[w]) /\ want'[w] = want[w]
          /\ pods'[w] = [pods[w] EXCEPT !.startAt = now]
      BY <1>1, <1>2, <1>5, <2>3 DEF Calls
    <3>2. pods[w] \in Pod
      BY <1>3, <3>1 DEF Ready, NoPod
    <3>3. Exists(pods, w) /\ pods'[w].joinAt = pods[w].joinAt /\ pods'[w].leaveAt = pods[w].leaveAt
      BY <3>1, <3>2, PodIsThere DEF Pod, Exists
    <3>4. Joining(pods[w]) /\ ~Joining(want[w]) /\ pc = "workers" => JoinIsOver(w)
      BY <3>1, <3>3 DEF JoinInv, RestartsOnEvidence
    <3>5. JoinIsOver(w) => JoinIsOver(w)'
      BY <1>1, <3>3 DEF JoinIsOver, JoinCheckAfter, WorkerRebalanceDelay, Leaving
    <3> QED BY <2>3, <3>1, <3>3, <3>4, <3>5 DEF Joining
  <2> QED BY <2>1, <2>2, <2>3
<1> QED BY <1>1, <1>4, <1>5 DEF JoinInv, RestartsOnEvidence

LEMMA JoinStep ==
  ASSUME TypeInv, PassInv, UndecidedAsListed, JoinInv, [Next]_vars, FreshLists
  PROVE  JoinInv'
<1>1. CASE Start
  BY <1>1, JoinStart, FreshLists
<1>2. CASE StartRemoval
  <2>1. UNCHANGED <<pods, seen, want, run>> /\ task' = AllDone
    BY <1>2 DEF StartRemoval
  <2> QED BY <2>1 DEF JoinInv, NobodyJoins, RestartsOnEvidence, AllDone
<1>3. CASE PatchStatus \/ PatchStatusFails \/ Crash
  <2>1. /\ task' = AllDone /\ UNCHANGED pods /\ seen' \in {seen, pods}
        /\ want' = NoPods /\ run'.list = NoPods
    BY <1>3, PassEnds DEF PatchStatus, PatchStatusFails, Crash, EndPass, NoRun
  <2>2. \A w \in Workers : ~Joining(NoPods[w])
    BY DEF NoPods, NoPod, Joining
  <2>3. NobodyJoins'
    BY <2>1, <2>2 DEF JoinInv, NobodyJoins, Joining
  <2> QED BY <2>1, <2>3 DEF JoinInv, RestartsOnEvidence, AllDone
<1>4. CASE Observe \/ CollectStats \/ EditSpec \/ UNCHANGED vars
  <2>1. UNCHANGED <<now, pods, pc, run, want, task>> /\ seen' \in {seen, pods}
    BY <1>4 DEF Observe, CollectStats, EditSpec, vars, Outside, passVars
  <2> QED BY <2>1 DEF JoinInv, NobodyJoins, RestartsOnEvidence, JoinIsOver
<1>5. CASE Tick
  <2>1. task' = task /\ \A w \in Workers : task[w] \in {"done", "await"}
    BY <1>5 DEF Tick
  <2>2. NobodyJoins'
    <3>1. CASE UNCHANGED <<pods, seen, want, run>>
      BY <3>1 DEF JoinInv, NobodyJoins
    <3>2. CASE Recede
      <4>1. /\ pods \in PodList /\ seen \in PodList /\ want \in PodList /\ run.list \in PodList
            /\ run \in [spec : Spec0, status : Status, list : PodList, stats : [Workers -> Sample]]
        BY DEF TypeInv, TypeOK
      <4>2. /\ pods' = BackPods(pods) /\ seen' = BackPods(seen) /\ want' = BackPods(want)
            /\ run'.list = BackPods(run.list)
        BY <3>2, <4>1 DEF Recede
      <4>3. ASSUME NEW L \in PodList, NEW w \in Workers, ~Joining(L[w])
            PROVE  ~Joining(BackPods(L)[w])
        BY <4>3, TimesRecede DEF Joining, Back, Never
      <4> QED BY <4>1, <4>2, <4>3 DEF JoinInv, NobodyJoins
    <3> QED BY <1>5, <3>1, <3>2 DEF Tick
  <2> QED BY <2>1, <2>2 DEF JoinInv, RestartsOnEvidence
<1>6. ASSUME NEW w \in Workers, PodReady(w) \/ PodGone(w) \/ PodFails(w) \/ PodDeleted(w)
      PROVE  JoinInv'
  <2>1. /\ UNCHANGED <<now, seen, pc, run, want, task>>
        /\ \A v \in Workers \ {w} : pods'[v] = pods[v]
    BY <1>6, PodHappens DEF PodReady, PodGone, PodFails, PodDeleted, Outside, passVars
  <2>2. Happens(w) /\ pods[w] \in Pod \cup {NoPod} /\ now \in Time
    BY <1>6, PodHappens DEF TypeInv, TypeOK, PodList
  <2>3. \/ /\ Exists(pods, w)
           /\ pods'[w].joinAt = pods[w].joinAt /\ pods'[w].leaveAt = pods[w].leaveAt
        \/ pods'[w] = NoPod
    <3>1. Ready(pods[w]) => Exists(pods, w)
      BY DEF Ready, Exists, NoPod
    <3>2. Exists(pods, w) => pods[w] \in Pod
      BY <2>2 DEF Exists
    <3> QED BY <2>2, <3>1, <3>2 DEF Happens, Marks, Pod
  <2>4. ~Joining(NoPod)
    BY DEF Joining, NoPod
  <2>5. NobodyJoins'
    BY <2>1, <2>3, <2>4 DEF JoinInv, NobodyJoins, Joining
  <2>6. ASSUME NEW v \in Workers, task'[v] \in {"restart", "patch"}
        PROVE  /\ pc = "workers" =>
                    (Exists(pods', v) /\ Joining(pods'[v]) /\ ~Joining(want'[v]) => JoinIsOver(v)')
               /\ pc = "remove" => want'[v].joinAt = run.list[v].joinAt
    <3>1. CASE v # w
      BY <2>1, <2>6, <3>1 DEF JoinInv, RestartsOnEvidence, Exists, JoinIsOver
    <3>2. CASE v = w
      <4>1. Exists(pods', w) => /\ Exists(pods, w) /\ pods'[w].joinAt = pods[w].joinAt
                                /\ pods'[w].leaveAt = pods[w].leaveAt
        BY <2>3 DEF Exists
      <4>2. Exists(pods', w) /\ JoinIsOver(w) => JoinIsOver(w)'
        BY <2>1, <4>1 DEF JoinIsOver, JoinCheckAfter, WorkerRebalanceDelay, Leaving
      <4> QED BY <2>1, <2>6, <3>2, <4>1, <4>2 DEF JoinInv, RestartsOnEvidence, Joining
    <3> QED BY <3>1, <3>2
  <2> QED BY <2>1, <2>5, <2>6 DEF JoinInv, RestartsOnEvidence
<1>7. ASSUME NEW w \in Workers, WorkerStep(w) \/ AwaitTimeout(w) \/ ApiError(w)
      PROVE  JoinInv'
  BY <1>7, JoinWorker
<1> QED BY <1>1, <1>2, <1>3, <1>4, <1>5, <1>6, <1>7 DEF Next

\* A patch is the only step that takes the option off a pod that stays.
LEMMA JoinEnds ==
  ASSUME TypeInv, PassInv, UndecidedAsListed, JoinInv, [Next]_vars, NEW w \in Workers,
         task[w] = "patch", Exists(pods', w), Joining(pods[w]), ~Joining(pods'[w])
  PROVE  JoinIsOver(w)
<1>1. pods[w] \in Pod /\ now \in Time
  BY DEF TypeInv, TypeOK, PodList, Joining, NoPod
<1>2. CASE UNCHANGED pods
  BY <1>2 DEF Joining
<1>3. CASE Tick
  BY <1>3 DEF Tick
<1>4. ASSUME NEW v \in Workers, PodReady(v) \/ PodGone(v) \/ PodFails(v) \/ PodDeleted(v)
      PROVE  FALSE
  <2>1. Happens(v) /\ \A u \in Workers \ {v} : pods'[u] = pods[u]
    BY <1>4, PodHappens
  <2> QED BY <1>1, <2>1 DEF Happens, Marks, Joining, Exists, Pod
<1>5. ASSUME NEW v \in Workers, WorkerStep(v) \/ AwaitTimeout(v) \/ ApiError(v)
      PROVE  JoinIsOver(w)
  <2>1. Calls(v) /\ \A u \in Workers \ {v} : pods'[u] = pods[u]
    BY <1>5, WorkerCalls
  <2>2. v = w
    BY <2>1 DEF Joining
  <2>3. Exists(pods, w) /\ pods'[w] = [pods[w] EXCEPT !.joinAt = want[w].joinAt, !.leaveAt = want[w].leaveAt]
    BY <2>1, <2>2 DEF Calls, Spares, Joining
  <2>4. ~Joining(want[w])
    BY <1>1, <2>3 DEF Pod, Joining
  <2>5. pc # "remove"
    <3>1. pods[w].joinAt = run.list[w].joinAt
      BY <2>3 DEF UndecidedAsListed, Undecided, AsListed
    <3> QED BY <2>4, <3>1 DEF JoinInv, RestartsOnEvidence, Joining
  <2>6. pc = "workers"
    BY <2>5 DEF TypeInv, TypeOK, PassInv, PassShape, AllDone
  <2> QED BY <2>3, <2>4, <2>6 DEF JoinInv, RestartsOnEvidence
<1>6. CASE Start \/ StartRemoval \/ PatchStatus \/ PatchStatusFails \/ Crash
           \/ CollectStats \/ Observe \/ EditSpec \/ UNCHANGED vars
  BY <1>2, <1>6
  DEF Start, StartRemoval, PatchStatus, PatchStatusFails, Crash, CollectStats, Observe, EditSpec, vars
<1> QED BY <1>3, <1>4, <1>5, <1>6 DEF Next

(***************************************************************************)
(* With lists that are up to date a worker stops joining only when its     *)
(* join is over, although the restart that ends it takes long, and its pod *)
(* may fail, go away or be marked meanwhile.                               *)
(***************************************************************************)
THEOREM JoinsEnd == ASSUME FreshLists PROVE Spec => JoinEndsOnEvidence
<1> DEFINE Inv == TypeInv /\ PassInv /\ UndecidedAsListed /\ JoinInv
<1>1. Init => Inv
  BY InitTypeInv, PassInit, AsListedInit, JoinInit
<1>2. Inv /\ [Next]_vars => Inv'
  BY FreshLists, TypeStep, PassStep, AsListedStep, JoinStep
<1>3. Inv /\ [Next]_vars =>
        [\A w \in Workers :
           /\ task[w] = "patch" /\ pods'[w] # pods[w] /\ Exists(pods', w)
           /\ Joining(pods[w]) /\ ~Joining(pods'[w])
           => \/ now - pods[w].joinAt >= BackupDuration
              \/ /\ run.stats[w].receive \in {"zero", "idle"}
                 /\ \A v \in Workers :
                      run.stats[w].sampleAt >= JoinCheckAfter(pods[w], run.stats[v].startAt)
                 /\ run.stats[w].sampleAt >= JoinCheckAfter(pods[w], pods[w].joinAt)]_vars
  BY JoinEnds DEF JoinIsOver
<1> QED BY <1>1, <1>2, <1>3, PTL DEF Spec, JoinEndsOnEvidence

----
(***************************************************************************)
(* The end of a departure.                                                 *)
(***************************************************************************)

\* The pass has counted the ready workers of its list.
CountsReady ==
  pc # "idle" /\ run.spec.expect # {} => run.status.ready = Cardinality(ReadyWorkers(run.list))

\* What the controller goes by when it deletes a worker that could be missed: of the pod as it is.
HasMigrated(w) ==
  /\ Leaving(pods[w])
  /\ \/ now - pods[w].leaveAt > WaitingMax
     \/ /\ run.stats[w].startAt = pods[w].startAt
        /\ run.stats[w].sampleAt >= pods[w].leaveAt
        /\ run.stats[w].transfer \in {"zero", "idle"}

\* A worker that serves and holds cache, and another one serves.
CouldBeMissed(w) ==
  /\ Ready(pods[w]) /\ Ready(run.list[w]) /\ w \in dirty
  /\ run.spec.expect # {}
  /\ \E v \in Workers \ {w} : Ready(run.list[v])

RemovesMigrated == \A w \in Workers : task[w] = "remove" /\ CouldBeMissed(w) => HasMigrated(w)

MigrationInv == CountsReady /\ RemovesMigrated

LEMMA MigrationInit == Init => MigrationInv
BY DEF Init, MigrationInv, CountsReady, RemovesMigrated, AllDone

\* Two ready workers are counted as more than one.
LEMMA TwoAreReady ==
  ASSUME NEW L \in PodList, NEW v \in Workers, NEW w \in Workers, v # w, Ready(L[v]), Ready(L[w])
  PROVE  Cardinality(ReadyWorkers(L)) >= 2
<1>1. {v, w} \subseteq ReadyWorkers(L) /\ ReadyWorkers(L) \subseteq Workers
  BY DEF ReadyWorkers
<1>2. IsFiniteSet(ReadyWorkers(L)) /\ Cardinality(ReadyWorkers(L)) \in Nat
  BY <1>1, WorkersAssumption, FS_Subset, CountType DEF WorkersAssumption
<1>3. Cardinality({v, w}) = 2
  <2>1. IsFiniteSet({v}) /\ Cardinality({v}) = 1
    BY FS_Singleton
  <2>2. w \notin {v}
    OBVIOUS
  <2>3. Cardinality({v} \cup {w}) = Cardinality({v}) + 1
    BY <2>1, <2>2, FS_AddElement
  <2>4. {v, w} = {v} \cup {w}
    OBVIOUS
  <2> QED BY <2>1, <2>3, <2>4
<1>4. Cardinality({v, w}) <= Cardinality(ReadyWorkers(L))
  BY <1>1, <1>2, FS_Subset
<1> QED BY <1>2, <1>3, <1>4

\* What gracefulShutdownWorker decides on holds of the worker as it is, if no command fails in it.
LEMMA ShutsDownMigrated ==
  ASSUME TypeInv, PassInv, UndecidedAsListed, MigrationInv, NEW w \in Workers, ShutDownWorker(w),
         {"exec", "pod"} \cap FaultKinds = {}, task'[w] = "remove", CouldBeMissed(w)
  PROVE  HasMigrated(w)
<1> DEFINE p == run.list[w]
           s == run.stats[w]
           ready == run.status.ready
<1>1. /\ pc = "remove" /\ w \in todo /\ task[w] = "done"
      /\ run.list \in PodList /\ pods \in PodList /\ run.stats[w] \in Sample /\ now \in Time
  BY DEF ShutDownWorker, AllDone, TypeInv, TypeOK
<1>2. pods[w] \in Pod /\ Exists(pods, w)
  BY <1>1 DEF CouldBeMissed, Ready, NoPod, PodList, Exists
<1>3. p.leaveAt = pods[w].leaveAt
  BY <1>1, <1>2 DEF UndecidedAsListed, Undecided, AsListed
<1>4. PICK live \in LiveReads(w) : ~ExecFails(w, live) /\ CanDelete(p, s, ready, live, now)
  <2>1. PICK live \in LiveReads(w) :
          /\ IF ExecFails(w, live) THEN Fault("exec") ELSE UNCHANGED faults
          /\ \/ CanDelete(p, s, ready, live, now)
             \/ Goto(w, "done")
             \/ Goto(w, IF p.v2 THEN "restart" ELSE "delete")
             \/ UNCHANGED task
    BY DEF ShutDownWorker, Abort
  <2>2. ASSUME NEW t, Goto(w, t) PROVE task'[w] = t
    BY <2>2 DEF Goto, TypeInv, TypeOK
  <2> QED BY <1>1, <2>1, <2>2 DEF Fault
<1>5. live.mounted /\ ~live.failed /\ live.empty = (w \notin dirty) /\ live.startAt = pods[w].startAt
  BY <1>4 DEF ExecFails, LiveReads, CouldBeMissed
<1>6. ready >= 2
  <2>1. PICK v \in Workers \ {w} : Ready(run.list[v])
    BY DEF CouldBeMissed
  <2>2. Cardinality(ReadyWorkers(run.list)) >= 2
    BY <1>1, <2>1, TwoAreReady DEF CouldBeMissed
  <2> QED BY <1>1, <2>2 DEF MigrationInv, CountsReady, CouldBeMissed
<1>7. CASE Leaving(p) /\ now - p.leaveAt > WaitingMax
  BY <1>3, <1>7 DEF HasMigrated, Leaving
<1>8. CASE Leaving(p) /\ MigrationDone(p, s, live, now)
  <2>1. s.startAt = pods[w].startAt /\ s.sampleAt >= p.leaveAt /\ s.transfer \in {"zero", "idle"}
    BY <1>1, <1>5, <1>8 DEF MigrationDone, CounterIdle, Sample, Counters
  <2> QED BY <1>3, <1>8, <2>1 DEF HasMigrated, Leaving
<1>9. ready \in Nat /\ Ready(p) /\ w \in dirty
  BY DEF CouldBeMissed, TypeInv, TypeOK, Status
<1>10. \/ Leaving(p) /\ now - p.leaveAt > WaitingMax
       \/ Leaving(p) /\ MigrationDone(p, s, live, now)
  <2>1. \/ Leaving(p) /\ now - p.leaveAt > WaitingMax
        \/ ~Leaving(p) /\ (ready <= 1 \/ ~(Ready(p) /\ live.mounted))
        \/ live.empty
        \/ Leaving(p) /\ MigrationDone(p, s, live, now)
    BY <1>4, Zenon DEF CanDelete
  <2>2. ~(ready <= 1)
    BY <1>6, <1>9
  <2>3. ~live.empty
    BY <1>5, <1>9
  <2> QED BY <1>5, <1>9, <2>1, <2>2, <2>3, Zenon
<1> QED BY <1>7, <1>8, <1>10

\* Until the deletion nothing changes about a worker that is to be deleted.
LEMMA MigrationWorker ==
  ASSUME TypeInv, PassInv, UndecidedAsListed, MigrationInv, NEW w \in Workers,
         WorkerStep(w) \/ AwaitTimeout(w) \/ ApiError(w), {"exec", "pod"} \cap FaultKinds = {}
  PROVE  MigrationInv'
<1>1. /\ Calls(w) /\ UNCHANGED <<now, spec, pc, run>> /\ dirty' \subseteq dirty
      /\ \A u \in Workers \ {w} : task'[u] = task[u] /\ pods'[u] = pods[u]
  BY WorkerCalls
<1>2. ASSUME NEW v \in Workers, task'[v] = "remove", CouldBeMissed(v)'
      PROVE  HasMigrated(v)'
  <2>1. CASE v # w
    BY <1>1, <1>2, <2>1 DEF MigrationInv, RemovesMigrated, CouldBeMissed, HasMigrated
  <2>2. CASE v = w
    <3>1. Spares(w) /\ task[w] = "done" /\ pc = "remove" /\ w \in todo
      BY <1>1, <1>2, <2>2 DEF Calls
    <3>2. CouldBeMissed(w)
      BY <1>1, <1>2, <2>2, <3>1 DEF CouldBeMissed, Spares
    <3>3. ShutDownWorker(w)
      <4>1. task \in [Workers -> Tasks]
        BY DEF TypeInv, TypeOK
      <4> QED BY <1>2, <2>2, <3>1, <4>1
        DEF WorkerStep, CreateWorker, DeleteOld, AwaitGone, AwaitTimeout, RecreateWorker,
            RestartWorker, PatchWorker, RestartFails, ApiError, DeleteRedundant, CleanWorkerCache
    <3>4. HasMigrated(w)
      BY <1>2, <2>2, <3>2, <3>3, ShutsDownMigrated
    <3> QED BY <1>1, <2>2, <3>1, <3>4 DEF HasMigrated, Spares
  <2> QED BY <2>1, <2>2
<1> QED BY <1>1, <1>2 DEF MigrationInv, CountsReady, RemovesMigrated

LEMMA MigrationStep ==
  ASSUME TypeInv, PassInv, UndecidedAsListed, MigrationInv, [Next]_vars,
         {"exec", "pod"} \cap FaultKinds = {}
  PROVE  MigrationInv'
<1>1. CASE Start
  <2>1. PICK startAt :
          run' = [spec |-> spec, status |-> CalculateStatus(status, spec.expect, seen, startAt, now),
                  list |-> seen, stats |-> stats]
    BY <1>1 DEF Start
  <2>2. CountsReady'
    BY <2>1 DEF CountsReady, CalculateStatus
  <2>3. \A w \in Workers : task'[w] # "remove"
    BY <1>1, StartCalls
  <2> QED BY <2>2, <2>3 DEF MigrationInv, RemovesMigrated
<1>2. CASE StartRemoval
  <2>1. UNCHANGED run /\ task' = AllDone /\ pc # "idle"
    BY <1>2 DEF StartRemoval
  <2> QED BY <2>1 DEF MigrationInv, CountsReady, RemovesMigrated, AllDone
<1>3. CASE PatchStatus \/ PatchStatusFails \/ Crash
  <2>1. pc' = "idle" /\ task' = AllDone
    BY <1>3, PassEnds
  <2> QED BY <2>1 DEF MigrationInv, CountsReady, RemovesMigrated, AllDone
<1>4. CASE Observe \/ CollectStats \/ EditSpec \/ UNCHANGED vars
  <2>1. UNCHANGED <<now, pods, pc, run, task, dirty>>
    BY <1>4 DEF Observe, CollectStats, EditSpec, vars, Outside, passVars
  <2> QED BY <2>1 DEF MigrationInv, CountsReady, RemovesMigrated, CouldBeMissed, HasMigrated
<1>5. CASE Tick
  <2>1. UNCHANGED <<pc, task>> /\ \A w \in Workers : task[w] \in {"done", "await"}
    BY <1>5 DEF Tick
  <2>2. CASE UNCHANGED run
    BY <2>1, <2>2 DEF MigrationInv, CountsReady, RemovesMigrated
  <2>3. CASE Recede
    <3>1. /\ run.list \in PodList
          /\ run \in [spec : Spec0, status : Status, list : PodList, stats : [Workers -> Sample]]
      BY DEF TypeInv, TypeOK
    <3>2. run'.list = BackPods(run.list) /\ run'.spec = run.spec /\ run'.status.ready = run.status.ready
      BY <2>3, <3>1 DEF Recede, BackStatus, Status
    <3>3. ReadyWorkers(run'.list) = ReadyWorkers(run.list)
      BY <3>1, <3>2, BackedPods DEF ReadyWorkers
    <3> QED BY <2>1, <3>2, <3>3 DEF MigrationInv, CountsReady, RemovesMigrated
  <2> QED BY <1>5, <2>2, <2>3 DEF Tick
<1>6. ASSUME NEW w \in Workers, PodReady(w) \/ PodGone(w) \/ PodFails(w) \/ PodDeleted(w)
      PROVE  MigrationInv'
  <2>1. /\ UNCHANGED <<now, pc, run, task>> /\ dirty' \in {dirty, dirty \cup {w}}
        /\ \A v \in Workers \ {w} : pods'[v] = pods[v]
    BY <1>6, PodHappens
  <2>2. ASSUME NEW v \in Workers, task'[v] = "remove", CouldBeMissed(v)'
        PROVE  HasMigrated(v)'
    <3>1. CASE v # w
      BY <2>1, <2>2, <3>1 DEF MigrationInv, RemovesMigrated, CouldBeMissed, HasMigrated
    <3>2. CASE v = w
      <4>1. pods \in [Workers -> Pod \cup {NoPod}] /\ Ready(run.list[w])
        BY <2>1, <2>2, <3>2 DEF CouldBeMissed, TypeInv, TypeOK, PodList
      <4>2. ASSUME NEW p, SetPod(w, p) PROVE pods'[w] = p
        BY <4>1, <4>2 DEF SetPod
      <4>3. PodDeleted(w)
        <5>1. ~PodReady(w)
          <6>1. Undecided(w)
            BY <2>1, <2>2, <3>2 DEF Undecided
          <6>2. Exists(pods, w) => Ready(pods[w])
            BY <4>1, <6>1 DEF UndecidedAsListed, AsListed
          <6> QED BY <6>2 DEF PodReady, Ready
        <5>2. ~PodGone(w)
          BY <2>2, <3>2, <4>2 DEF PodGone, CouldBeMissed, Ready, NoPod
        <5>3. ~PodFails(w)
          BY DEF PodFails, Fault
        <5> QED BY <1>6, <5>1, <5>2, <5>3
      <4>4. pods'[w] = [pods[w] EXCEPT !.deleting = TRUE] /\ pods[w] \in Pod /\ UNCHANGED dirty
        BY <4>1, <4>2, <4>3 DEF PodDeleted, Exists
      <4>5. CouldBeMissed(w)
        BY <2>1, <2>2, <3>2, <4>4 DEF CouldBeMissed, Ready, Pod
      <4>6. HasMigrated(w)
        BY <2>1, <2>2, <3>2, <4>5 DEF MigrationInv, RemovesMigrated
      <4> QED BY <2>1, <3>2, <4>4, <4>6 DEF HasMigrated, Leaving, Pod
    <3> QED BY <3>1, <3>2
  <2> QED BY <2>1, <2>2 DEF MigrationInv, CountsReady, RemovesMigrated
<1>7. ASSUME NEW w \in Workers, WorkerStep(w) \/ AwaitTimeout(w) \/ ApiError(w)
      PROVE  MigrationInv'
  BY <1>7, MigrationWorker
<1> QED BY <1>1, <1>2, <1>3, <1>4, <1>5, <1>6, <1>7 DEF Next

(***************************************************************************)
(* With lists that are up to date, and if no command fails in a worker and *)
(* none loses its readiness, no worker that could be missed is deleted     *)
(* before it has migrated its cache: whatever crashes, is deleted by       *)
(* others, is slow, is edited meanwhile, or cannot be sampled.             *)
(***************************************************************************)
THEOREM MigrationFirst ==
  ASSUME FreshLists, {"exec", "pod"} \cap FaultKinds = {}
  PROVE  Spec => MigratesFirst
<1> DEFINE Inv == TypeInv /\ PassInv /\ UndecidedAsListed /\ MigrationInv
<1>1. Init => Inv
  BY InitTypeInv, PassInit, AsListedInit, MigrationInit
<1>2. Inv /\ [Next]_vars => Inv'
  BY FreshLists, TypeStep, PassStep, AsListedStep, MigrationStep
<1>3. Inv /\ [Next]_vars =>
        [\A w \in Workers :
           /\ Removes(w) /\ Ready(pods[w]) /\ Ready(run.list[w]) /\ w \in dirty
           /\ run.spec.expect # {}
           /\ \E v \in Workers \ {w} : Ready(run.list[v])
           => /\ Leaving(pods[w])
              /\ \/ now - pods[w].leaveAt > WaitingMax
                 \/ /\ run.stats[w].startAt = pods[w].startAt
                    /\ run.stats[w].sampleAt >= pods[w].leaveAt
                    /\ run.stats[w].transfer \in {"zero", "idle"}]_vars
  BY DEF Removes, MigrationInv, RemovesMigrated, CouldBeMissed, HasMigrated
<1> QED BY <1>1, <1>2, <1>3, PTL DEF Spec, MigratesFirst
----
(***************************************************************************)
(* The start of a batch.                                                   *)
(***************************************************************************)

\* Every worker that joins in list L has joined at t or later.
JoinedSince(L, t) == \A w \in Workers : Joining(L[w]) => L[w].joinAt >= t

\* The pass does not know worker w, and it is not there.
Absent(w) ==
  /\ ~Exists(pods, w) /\ ~Exists(seen, w) /\ ~Exists(run.list, w)
  /\ task[w] = "done" /\ w \notin todo

\* A pass keeps the start of the batch it found, unless it found the batch to be over. Then the batch
\* was timed out, or whoever joins has joined since its start, or none of its members is there.
StartKept ==
  LET t == status.batch.startAt
  IN pc # "idle" /\ run.spec.expect # {} =>
       \/ run.status.batch.startAt >= t
       \/ now >= t + BackupDuration
       \/ /\ run.status.batch.members = {}
          /\ \/ \A L \in {pods, seen, want, run.list} : JoinedSince(L, t)
             \/ \A w \in status.batch.members : Absent(w)

\* A sample is none of a pass's business.
LEMMA SamplingKeeps ==
  ASSUME CollectStats
  PROVE  UNCHANGED <<now, status, pods, seen, pc, run, want, task, todo>>
BY DEF CollectStats, passVars

LEMMA StartKeptInit == Init => StartKept
BY DEF Init, StartKept

\* A batch starts no earlier than it did, nor than the join of its new members.
LEMMA StartBounds ==
  ASSUME NEW L \in PodList, NEW batch \in Batch, NEW startAt \in BatchStart(batch, L)
  PROVE  /\ startAt \in Nat /\ startAt >= batch.startAt
         /\ \A w \in Joiners(L) \ batch.members : startAt >= L[w].joinAt
<1> DEFINE delay == CacheGroupRebalanceDelay(L)
           starts == {L[w].joinAt + delay : w \in Joiners(L) \ batch.members}
<1>1. startAt \in Nat
  BY BatchStartType, DurationsAssumption DEF DurationsAssumption
<1>2. startAt >= batch.startAt /\ \A s \in starts : startAt >= s
  <2>1. \A s \in {batch.startAt} \cup starts : s <= startAt
    BY DEF BatchStart, Latest
  <2>2. batch.startAt \in Nat
    BY DurationsAssumption DEF Batch, DurationsAssumption
  <2> HIDE DEF starts
  <2> QED BY <2>1, <2>2, <1>1
<1>3. ASSUME NEW w \in Joiners(L) \ batch.members
      PROVE  startAt >= L[w].joinAt
  <2>1. delay \in Nat
    <3>1. RebalanceDelay \in Nat /\ LeaveDelay \in Nat
      BY DurationsAssumption DEF DurationsAssumption
    <3> QED BY <3>1, DelayType
  <2>2. L[w].joinAt \in Nat
    BY DurationsAssumption DEF Joiners, Exists, Joining, PodList, Pod, Time, DurationsAssumption
  <2>3. startAt >= L[w].joinAt + delay
    BY <1>2
  <2> HIDE DEF delay
  <2> QED BY <1>1, <2>1, <2>2, <2>3
<1> QED BY <1>1, <1>2, <1>3

LEMMA ClockType ==
  ASSUME TypeInv
  PROVE  /\ now \in Nat /\ BackupDuration \in Nat
         /\ \A batch \in Batch : batch.startAt \in Nat
BY DurationsAssumption DEF TypeInv, TypeOK, Batch, Time, DurationsAssumption

\* A pass on an up-to-date list that finds the batch over finds it timed out, without joining
\* workers, or without members.
LEMMA StartKeptAtStart ==
  ASSUME TypeInv, Start, FreshLists
  PROVE  StartKept'
<1> DEFINE t == status.batch.startAt
<1>1. PICK startAt \in BatchStart(status.batch, seen) :
        run'.status = CalculateStatus(status, spec.expect, seen, startAt, now)
  BY DEF Start
<1>2. /\ run'.spec = spec /\ run'.list = seen /\ seen = pods /\ todo' = {}
      /\ UNCHANGED <<now, spec, status, pods, seen>>
      /\ \A w \in Workers : task'[w] # "done" => w \in spec.expect
      /\ \A w \in Workers : want'[w] \in {NoPod, Expected(w, seen)}
  <2>1. \A w \in Workers : task'[w] # "done" => w \in spec.expect
    BY StartCalls
  <2> QED BY <2>1, FreshLists DEF Start
<1>3. /\ now \in Nat /\ t \in Nat /\ BackupDuration \in Nat
      /\ status.batch.members \subseteq Workers
      /\ startAt \in Nat /\ startAt >= t
  <2>1. seen \in PodList /\ status.batch \in Batch
    BY DEF TypeInv, TypeOK, Status
  <2> QED BY <2>1, ClockType, StartBounds DEF Batch
<1>4. CASE spec.expect = {}
  BY <1>2, <1>4 DEF StartKept
<1>5. CASE spec.expect # {}
  <2> DEFINE members == BatchMembers(status.batch, spec.expect, seen)
  <2>1. run'.status.batch = NextBatch(status.batch, spec.expect, seen, startAt, now)
    BY <1>1, <1>5 DEF CalculateStatus
  <2>2. CASE members = {}
    <3>1. ASSUME NEW w \in status.batch.members PROVE Absent(w)'
      <4>1. w \notin spec.expect /\ ~Exists(seen, w) /\ w \in Workers
        BY <1>3, <2>2 DEF BatchMembers
      <4> QED BY <1>2, <4>1 DEF Absent, Exists
    <3>2. run'.status.batch.members = {}
      BY <2>1, <2>2 DEF NextBatch, NoBatch
    <3> QED BY <1>2, <3>1, <3>2 DEF StartKept
  <2>3. CASE members # {} /\ now >= startAt /\ \A w \in members : MemberFinished(w, spec.expect, seen)
    <3>1. run'.status.batch.members = {}
      BY <2>1, <2>3 DEF NextBatch, NoBatch
    <3>2. ~Joining(NoPod)
      BY DEF Joining, NoPod
    <3>3. \A w \in Workers : ~Joining(seen[w])
      <4>1. ASSUME NEW w \in Workers, Joining(seen[w]) PROVE FALSE
        <5>1. w \in members
          BY <3>2, <4>1 DEF BatchMembers, Joiners, Exists
        <5> QED BY <2>3, <4>1, <5>1 DEF MemberFinished
      <4> QED BY <4>1
    <3>4. JoinedSince(seen, t)
      BY <3>3 DEF JoinedSince
    <3>5. JoinedSince(want', t)
      <4>1. ASSUME NEW w \in Workers, Joining(want'[w]) PROVE want'[w].joinAt = now
        BY <1>2, <3>2, <4>1 DEF Expected, NewWorker, Joining
      <4> QED BY <1>3, <2>3, <4>1 DEF JoinedSince
    <3>6. \A L \in {pods', seen', want', run'.list} : JoinedSince(L, t)
      BY <1>2, <3>4, <3>5
    <3> QED BY <1>2, <3>1, <3>6 DEF StartKept
  <2>4. CASE members # {} /\ now >= startAt + BackupDuration
    BY <1>2, <1>3, <2>4 DEF StartKept
  <2>5. CASE run'.status.batch = [members |-> members, startAt |-> startAt]
    BY <1>2, <1>3, <2>5 DEF StartKept
  <2> QED BY <2>1, <2>2, <2>3, <2>4, <2>5 DEF NextBatch
<1> QED BY <1>4, <1>5

\* A call for a worker lets it join when the pass wanted, or leaves its join as it is.
LEMMA CalledJoins ==
  ASSUME TypeInv, NEW w \in Workers, Calls(w)
  PROVE  pods'[w].joinAt \in {pods[w].joinAt, want[w].joinAt}
<1>1. /\ pods[w] \in Pod \cup {NoPod} /\ want[w] \in Pod \cup {NoPod}
      /\ (Exists(pods, w) \/ Ready(pods[w]) => pods[w] \in Pod)
  BY DEF TypeInv, TypeOK, PodList, Exists, Ready, NoPod
<1>2. CASE Makes(w)
  BY <1>1, <1>2 DEF Makes, Created, Pod, NoPod
<1>3. CASE Marks(w)
  BY <1>1, <1>3 DEF Marks, Pod
<1>4. CASE Spares(w)
  BY <1>4 DEF Spares
<1>5. CASE Ready(pods[w]) /\ pods'[w] = [pods[w] EXCEPT !.startAt = now]
  BY <1>1, <1>5 DEF Pod
<1>6. CASE /\ Exists(pods, w)
           /\ pods'[w] = [pods[w] EXCEPT !.joinAt = want[w].joinAt, !.leaveAt = want[w].leaveAt]
  BY <1>1, <1>6 DEF Pod
<1> QED BY <1>2, <1>3, <1>4, <1>5, <1>6 DEF Calls

\* What happens to a pod from outside leaves its join as it is.
LEMMA HappenedJoins ==
  ASSUME TypeInv, NEW w \in Workers, Happens(w)
  PROVE  pods'[w].joinAt \in {pods[w].joinAt, Never}
<1>1. /\ pods[w] \in Pod \cup {NoPod}
      /\ (Exists(pods, w) \/ Ready(pods[w]) => pods[w] \in Pod)
  BY DEF TypeInv, TypeOK, PodList, Exists, Ready, NoPod
<1>2. NoPod.joinAt = Never
  BY DEF NoPod
<1> QED BY <1>1, <1>2 DEF Happens, Marks, Pod

LEMMA StartKeptWorker ==
  ASSUME TypeInv, StartKept, NEW w \in Workers, WorkerStep(w) \/ AwaitTimeout(w) \/ ApiError(w)
  PROVE  StartKept'
<1> DEFINE t == status.batch.startAt
<1>1. /\ Calls(w) /\ UNCHANGED <<now, seen, pc, run>> /\ todo' \subseteq todo
      /\ \A v \in Workers \ {w} : task'[v] = task[v] /\ pods'[v] = pods[v]
  BY WorkerCalls
<1>2. UNCHANGED status
  BY DEF WorkerStep, CreateWorker, DeleteOld, AwaitGone, RecreateWorker, RestartWorker, PatchWorker,
         RestartFails, ShutDownWorker, DeleteRedundant, CleanWorkerCache, AwaitTimeout, ApiError, Remaining
<1>3. ASSUME \A L \in {pods, seen, want, run.list} : JoinedSince(L, t)
      PROVE  \A L \in {pods', seen', want', run'.list} : JoinedSince(L, t)
  <2>1. ASSUME NEW v \in Workers
        PROVE  /\ want'[v].joinAt \in {want[v].joinAt, run.list[v].joinAt}
               /\ pods'[v].joinAt \in {pods[v].joinAt, want[v].joinAt}
    BY <1>1, WorkerWants, CalledJoins
  <2> QED BY <1>1, <1>3, <2>1 DEF JoinedSince, Joining
<1>4. ASSUME NEW v \in Workers, Absent(v) PROVE Absent(v)'
  <2>1. CASE v # w
    BY <1>1, <1>4, <2>1 DEF Absent, Exists
  <2>2. CASE v = w
    BY <1>1, <1>4, <2>2 DEF Absent, Calls
  <2> QED BY <2>1, <2>2
<1>5. status.batch.members \subseteq Workers
  BY DEF TypeInv, TypeOK, Status, Batch
<1> QED BY <1>1, <1>2, <1>3, <1>4, <1>5 DEF StartKept

\* A tick lets the start of the batch and the joins recede together.
LEMMA StartKeptTick ==
  ASSUME TypeInv, StartKept, Tick
  PROVE  StartKept'
<1> DEFINE t == status.batch.startAt
<1>1. /\ UNCHANGED <<pc, task, todo>> /\ run'.spec = run.spec
      /\ \A w \in Workers :
           /\ Exists(pods', w) <=> Exists(pods, w)
           /\ Exists(seen', w) <=> Exists(seen, w)
           /\ Exists(run'.list, w) <=> Exists(run.list, w)
  BY TickKeeps
<1>2. /\ now \in Nat /\ t \in Nat /\ run.status.batch.startAt \in Nat /\ BackupDuration \in Nat
      /\ status.batch.members \subseteq Workers
      /\ status \in Status /\ run.status \in Status
      /\ \A L \in {pods, seen, want, run.list} : L \in PodList
  <2>1. /\ status \in Status /\ run.status \in Status
        /\ pods \in PodList /\ seen \in PodList /\ want \in PodList /\ run.list \in PodList
    BY DEF TypeInv, TypeOK
  <2>2. status.batch \in Batch /\ run.status.batch \in Batch
    BY <2>1 DEF Status
  <2> QED BY <2>1, <2>2, ClockType DEF Batch
<1>3. CASE now' = now + 1 /\ UNCHANGED <<pods, seen, want, stats, status, run>>
  BY <1>1, <1>2, <1>3 DEF StartKept, Absent
<1>4. CASE UNCHANGED now /\ Recede
  <2>1. /\ pods' = BackPods(pods) /\ seen' = BackPods(seen) /\ want' = BackPods(want)
        /\ run'.list = BackPods(run.list)
        /\ status' = BackStatus(status) /\ run'.status = BackStatus(run.status)
    <3>1. run \in [spec : Spec0, status : Status, list : PodList, stats : [Workers -> Sample]]
      BY DEF TypeInv, TypeOK
    <3> QED BY <1>4, <3>1 DEF Recede
  <2>2. /\ status'.batch.startAt = Back(t) /\ status'.batch.members = status.batch.members
        /\ run'.status.batch.startAt = Back(run.status.batch.startAt)
        /\ run'.status.batch.members = run.status.batch.members
    BY <1>2, <2>1 DEF BackStatus, Status, Batch
  <2>3. run.status.batch.startAt >= t => Back(run.status.batch.startAt) >= Back(t)
    BY <1>2 DEF Back
  <2>4. Back(t) \in Nat /\ Back(t) <= t
    BY <1>2 DEF Back
  <2>5. ASSUME NEW L \in PodList, JoinedSince(L, t)
        PROVE  JoinedSince(BackPods(L), Back(t))
    <3>1. ASSUME NEW w \in Workers, Joining(BackPods(L)[w])
          PROVE  BackPods(L)[w].joinAt >= Back(t)
      <4>1. BackPods(L)[w].joinAt = Back(L[w].joinAt)
        BY TimesRecede
      <4>2. L[w].joinAt \in Time \cup {Never}
        BY DEF PodList, Pod, NoPod
      <4>3. L[w].joinAt # Never
        BY <3>1, <4>1 DEF Joining, Back, Never
      <4>4. L[w].joinAt \in Nat /\ L[w].joinAt >= t
        BY <2>5, <4>2, <4>3, DurationsAssumption DEF JoinedSince, Joining, Time, DurationsAssumption
      <4> QED BY <1>2, <4>1, <4>4 DEF Back
    <3> QED BY <3>1 DEF JoinedSince
  <2>6. (\A L \in {pods, seen, want, run.list} : JoinedSince(L, t))
          => \A L \in {pods', seen', want', run'.list} : JoinedSince(L, Back(t))
    BY <1>2, <2>1, <2>5
  <2>7. \A w \in status.batch.members : Absent(w) => Absent(w)'
    BY <1>1, <1>2 DEF Absent
  <2>8. now >= t + BackupDuration => now' >= Back(t) + BackupDuration
    BY <1>2, <1>4, <2>4
  <2> QED BY <1>1, <2>2, <2>3, <2>6, <2>7, <2>8 DEF StartKept
<1> QED BY <1>3, <1>4 DEF Tick

LEMMA StartKeptStep ==
  ASSUME TypeInv, PassInv, StartKept, [Next]_vars, FreshLists
  PROVE  StartKept'
<1>1. CASE StartRemoval
  <2>1. /\ UNCHANGED <<now, status, pods, seen, run, want, task>> /\ pc # "idle"
        /\ todo' = Redundant(run.list, run.spec.expect)
    BY <1>1 DEF StartRemoval
  <2>2. \A w \in todo' : Exists(run.list, w)
    BY <2>1 DEF Redundant
  <2>3. \A w \in status.batch.members : Absent(w) => Absent(w)'
    BY <2>1, <2>2 DEF Absent
  <2> QED BY <2>1, <2>3 DEF StartKept
<1>2. CASE PatchStatus \/ PatchStatusFails \/ Crash
  BY <1>2, PassEnds DEF StartKept
<1>3. CASE EditSpec
  BY <1>3 DEF EditSpec, Outside, passVars, StartKept
<1>4. CASE CollectStats \/ UNCHANGED vars
  <2>1. UNCHANGED <<now, status, pods, seen, pc, run, want, task, todo>>
    BY <1>4, SamplingKeeps DEF vars
  <2> QED BY <2>1 DEF StartKept, Absent
<1>5. CASE Observe
  <2>1. seen' = pods /\ UNCHANGED <<now, status, pods, passVars>>
    BY <1>5 DEF Observe, Outside
  <2> QED BY <2>1 DEF passVars, StartKept, Absent
<1>6. ASSUME NEW w \in Workers, PodReady(w) \/ PodGone(w) \/ PodFails(w) \/ PodDeleted(w)
      PROVE  StartKept'
  <2>1. /\ Happens(w) /\ \A v \in Workers \ {w} : pods'[v] = pods[v]
        /\ UNCHANGED <<now, status, seen, passVars>>
    <3>1. UNCHANGED <<now, status, seen, passVars>>
      BY <1>6 DEF PodReady, PodGone, PodFails, PodDeleted, Outside
    <3> QED BY <1>6, <3>1, PodHappens
  <2>2. \A v \in Workers : pods'[v].joinAt \in {pods[v].joinAt, Never}
    BY <2>1, HappenedJoins
  <2>3. \A v \in Workers : Exists(pods', v) => Exists(pods, v)
    BY <2>1, HappenedPods DEF Exists
  <2>4. JoinedSince(pods, status.batch.startAt) => JoinedSince(pods', status.batch.startAt)
    BY <2>2 DEF JoinedSince, Joining
  <2>5. \A v \in status.batch.members : Absent(v) => Absent(v)'
    BY <2>1, <2>3 DEF Absent, passVars, TypeInv, TypeOK, Status, Batch
  <2> QED BY <2>1, <2>4, <2>5 DEF passVars, StartKept
<1> QED BY <1>1, <1>2, <1>3, <1>4, <1>5, <1>6, FreshLists, StartKeptAtStart, StartKeptWorker, StartKeptTick
        DEF Next

\* The status that a pass writes starts its batch no earlier than the one it replaces.
LEMMA StartMoves ==
  ASSUME TypeInv, StartKept, [Next]_vars, pc # pc',
         status.batch.members \cap status'.batch.members # {}
  PROVE  status'.batch.startAt >= status.batch.startAt
<1> DEFINE t == status.batch.startAt
<1>1. /\ status \in Status /\ run.status \in Status /\ now \in Nat /\ t \in Nat
      /\ run.status.batch \in Batch /\ seen \in PodList /\ BackupDuration \in Nat
      /\ run.status.batch.startAt \in Nat
  <2>1. status \in Status /\ run.status \in Status /\ seen \in PodList
    BY DEF TypeInv, TypeOK
  <2>2. status.batch \in Batch /\ run.status.batch \in Batch
    BY <2>1 DEF Status
  <2> QED BY <2>1, <2>2, ClockType
<1>2. CASE PatchStatus
  <2>1. PICK startAt \in BatchStart(run.status.batch, seen) :
          status' = CalculateStatus(run.status, run.spec.expect, seen, startAt, now)
    BY <1>2 DEF PatchStatus
  <2>2. /\ startAt \in Nat /\ startAt >= run.status.batch.startAt
        /\ \A w \in Joiners(seen) \ run.status.batch.members : startAt >= seen[w].joinAt
    BY <1>1, StartBounds
  <2>3. pc # "idle"
    BY <1>2 DEF PatchStatus, PassDone
  <2>4. run.spec.expect # {}
    BY <1>1, <2>1 DEF CalculateStatus, NoBatch, Status
  <2>5. status'.batch = NextBatch(run.status.batch, run.spec.expect, seen, startAt, now)
    BY <2>1, <2>4 DEF CalculateStatus
  <2>6. /\ status'.batch.members = BatchMembers(run.status.batch, run.spec.expect, seen)
        /\ status'.batch.startAt = startAt /\ ~(now >= startAt + BackupDuration)
    BY <2>5 DEF NextBatch, NoBatch
  <2>7. CASE run.status.batch.startAt >= t
    BY <1>1, <2>2, <2>6, <2>7
  <2>8. CASE now >= t + BackupDuration
    BY <1>1, <2>2, <2>6, <2>8
  <2>9. CASE run.status.batch.members = {} /\ JoinedSince(seen, t)
    <3>1. PICK w \in status'.batch.members : TRUE
      OBVIOUS
    <3>2. w \in Joiners(seen)
      BY <2>6, <2>9 DEF BatchMembers
    <3>3. seen[w].joinAt >= t /\ seen[w].joinAt \in Nat
      BY <1>1, <2>9, <3>2, DurationsAssumption
      DEF JoinedSince, Joiners, Exists, Joining, PodList, Pod, Time, DurationsAssumption
    <3> QED BY <1>1, <2>2, <2>6, <2>9, <3>2, <3>3
  <2>10. CASE run.status.batch.members = {} /\ \A w \in status.batch.members : Absent(w)
    BY <2>6, <2>10 DEF BatchMembers, Joiners, Absent
  <2> QED BY <2>3, <2>4, <2>7, <2>8, <2>9, <2>10 DEF StartKept
<1>3. CASE Start \/ StartRemoval \/ PatchStatusFails \/ Crash
  BY <1>1, <1>3 DEF Start, StartRemoval, PatchStatusFails, Crash
<1>4. CASE CollectStats \/ Observe \/ EditSpec \/ Tick \/ UNCHANGED vars
  <2>1. CASE CollectStats \/ UNCHANGED vars
    BY <2>1, SamplingKeeps DEF vars
  <2>2. CASE Observe \/ EditSpec \/ Tick
    BY <2>2 DEF Observe, EditSpec, Tick, Outside, passVars
  <2> QED BY <1>4, <2>1, <2>2
<1>5. ASSUME NEW w \in Workers, WorkerStep(w) \/ AwaitTimeout(w) \/ ApiError(w)
      PROVE  FALSE
  BY <1>5, WorkerCalls
<1>6. ASSUME NEW w \in Workers, PodReady(w) \/ PodGone(w) \/ PodFails(w) \/ PodDeleted(w)
      PROVE  FALSE
  BY <1>6, PodHappens
<1> QED BY <1>2, <1>3, <1>4, <1>5, <1>6 DEF Next

(***************************************************************************)
(* With lists that are up to date the rebalance of a batch never moves to  *)
(* an earlier time while one of its workers waits for it: whatever crashes *)
(* or fails, whoever leaves, and however the spec is edited.               *)
(***************************************************************************)
THEOREM BatchStartStays == ASSUME FreshLists PROVE Spec => BatchStartNeverEarlier
<1> DEFINE Inv == TypeInv /\ PassInv /\ StartKept
<1>1. Init => Inv
  BY InitTypeInv, PassInit, StartKeptInit
<1>2. Inv /\ [Next]_vars => Inv'
  BY FreshLists, TypeStep, PassStep, StartKeptStep
<1>3. Inv /\ [Next]_vars =>
        [status.batch.members \cap status'.batch.members # {} /\ pc # pc'
           => status'.batch.startAt >= status.batch.startAt]_vars
  BY StartMoves
<1> QED BY <1>1, <1>2, <1>3, PTL DEF Spec, BatchStartNeverEarlier
----
(***************************************************************************)
(* What the batch knows.                                                   *)
(***************************************************************************)

\* A batch has the workers that join in list L, or they have all had their time.
Covers(batch, L) ==
  \/ Joiners(L) \subseteq batch.members
  \/ \A w \in Joiners(L) : now >= L[w].joinAt + CacheGroupRebalanceDelay(L) + BackupDuration

\* While nothing is queued, the cache shows what the pass has listed, and so no old pod as gone.
QuietPass ==
  pc # "idle" /\ ~queued =>
    /\ seen = run.list
    /\ \E startAt \in BatchStart(status.batch, seen) :
         run.status = CalculateStatus(status, run.spec.expect, seen, startAt, now)
    /\ \A w \in Workers :
         /\ Visited(w) => Exists(seen, w) /\ ~seen[w].deleting
         /\ task[w] = "await" => ~Exists(pods, w) \/ pods[w].deleting

QuietRest == pc = "idle" /\ ~queued /\ spec.expect # {} => Covers(status.batch, seen)

QuietInv == QuietPass /\ QuietRest

LEMMA QuietInit == Init => QuietInv
BY DEF Init, QuietInv, QuietPass, QuietRest

\* A batch starts no earlier than the delay allows for its new members.
LEMMA StartAfterDelay ==
  ASSUME NEW L \in PodList, NEW batch \in Batch, NEW startAt \in BatchStart(batch, L),
         NEW w \in Joiners(L) \ batch.members
  PROVE  startAt >= L[w].joinAt + CacheGroupRebalanceDelay(L)
<1> DEFINE t == L[w].joinAt + CacheGroupRebalanceDelay(L)
<1>1. t <= startAt
  BY DEF BatchStart, Latest
<1>2. startAt \in Nat
  BY StartBounds
<1>3. t \in Nat
  <2>1. RebalanceDelay \in Nat /\ LeaveDelay \in Nat
    BY DurationsAssumption DEF DurationsAssumption
  <2>2. CacheGroupRebalanceDelay(L) \in Nat
    BY <2>1, DelayType
  <2>3. L[w].joinAt \in Nat
    BY DurationsAssumption DEF Joiners, Exists, Joining, PodList, Pod, Time, DurationsAssumption
  <2> QED BY <2>2, <2>3
<1>4. startAt >= t
  <2> HIDE DEF t
  <2> QED BY <1>1, <1>2, <1>3
<1> QED BY <1>4

\* The batch goes on, or is over for one of three reasons.
LEMMA BatchIsOver ==
  ASSUME NEW batch, NEW expect, NEW L, NEW startAt, NEW t
  PROVE  LET members == BatchMembers(batch, expect, L)
             next    == NextBatch(batch, expect, L, startAt, t)
         IN \/ next.members = members /\ next.startAt = startAt
            \/ /\ next = NoBatch
               /\ \/ members = {}
                  \/ t >= startAt /\ \A w \in members : MemberFinished(w, expect, L)
                  \/ t >= startAt + BackupDuration
BY DEF NextBatch

\* A status that is computed twice of the same list covers those who join, if it comes out as it was.
LEMMA TwiceCovers ==
  ASSUME TypeInv, NEW old \in Status, NEW first \in Status, NEW L \in PodList, NEW expect \in SUBSET Workers,
         NEW s1 \in BatchStart(old.batch, L), first.batch = NextBatch(old.batch, expect, L, s1, now),
         NEW s2 \in BatchStart(first.batch, L), old.batch = NextBatch(first.batch, expect, L, s2, now)
  PROVE  Covers(old.batch, L)
<1> DEFINE delay == CacheGroupRebalanceDelay(L)
           members == BatchMembers(first.batch, expect, L)
<1>1. old.batch \in Batch /\ first.batch \in Batch
  BY DEF Status
<1>2. /\ now \in Nat /\ BackupDuration \in Nat
      /\ s1 \in Nat /\ s2 \in Nat /\ s2 >= first.batch.startAt /\ first.batch.startAt \in Nat
  BY <1>1, ClockType, StartBounds
<1>3. ASSUME NEW w \in Joiners(L)
      PROVE  w \in Workers /\ L[w].joinAt + delay \in Nat /\ w \in members /\ ~MemberFinished(w, expect, L)
  <2>1. RebalanceDelay \in Nat /\ LeaveDelay \in Nat
    BY DurationsAssumption DEF DurationsAssumption
  <2>2. delay \in Nat
    BY <2>1, DelayType
  <2>3. L[w].joinAt \in Nat
    BY DurationsAssumption DEF Joiners, Exists, Joining, PodList, Pod, Time, DurationsAssumption
  <2>4. w \in Workers /\ w \in members /\ ~MemberFinished(w, expect, L)
    BY DEF Joiners, BatchMembers, MemberFinished
  <2> HIDE DEF delay
  <2> QED BY <2>2, <2>3, <2>4
<1>4. CASE old.batch.members = members
  <2>1. Joiners(L) \subseteq members
    BY <1>3
  <2> QED BY <1>4, <2>1 DEF Covers
<1>5. CASE /\ old.batch = NoBatch
           /\ members = {} \/ \A w \in members : MemberFinished(w, expect, L)
  BY <1>3, <1>5 DEF Covers
<1>6. CASE old.batch = NoBatch /\ now >= s2 + BackupDuration
  <2>1. ASSUME NEW w \in Joiners(L) PROVE s2 >= L[w].joinAt + delay
    <3>1. w \notin old.batch.members
      BY <1>6 DEF NoBatch
    <3>2. s1 >= L[w].joinAt + delay
      BY <1>1, <3>1, StartAfterDelay
    <3>3. CASE w \in first.batch.members
      <4>1. first.batch # NoBatch
        BY <3>3 DEF NoBatch
      <4>2. first.batch.startAt = s1
        BY <4>1, BatchIsOver
      <4> HIDE DEF delay
      <4> QED BY <1>2, <1>3, <3>2, <4>2
    <3>4. CASE w \notin first.batch.members
      BY <1>1, <3>4, StartAfterDelay
    <3> QED BY <3>3, <3>4
  <2>2. \A w \in Joiners(L) : now >= L[w].joinAt + delay + BackupDuration
    <3> HIDE DEF delay
    <3> QED BY <1>2, <1>3, <1>6, <2>1
  <2> QED BY <2>2 DEF Covers
<1> QED BY <1>4, <1>5, <1>6, BatchIsOver

\* The delay of a list does not recede.
LEMMA DelayRecedes ==
  ASSUME NEW L \in PodList
  PROVE  CacheGroupRebalanceDelay(BackPods(L)) = CacheGroupRebalanceDelay(L)
<1>1. ASSUME NEW w \in Workers
      PROVE  /\ Exists(BackPods(L), w) <=> Exists(L, w)
             /\ WorkerRebalanceDelay(BackPods(L)[w]) = WorkerRebalanceDelay(L[w])
  <2>1. Exists(BackPods(L), w) <=> Exists(L, w)
    BY BackedPods
  <2>2. BackPods(L)[w].leaveAt = Back(L[w].leaveAt)
    BY TimesRecede
  <2>3. L[w].leaveAt \in Time \cup {Never}
    BY DEF PodList, Pod, NoPod
  <2>4. Back(L[w].leaveAt) = Never <=> L[w].leaveAt = Never
    BY <2>3, DurationsAssumption DEF Back, Time, Never, DurationsAssumption
  <2> QED BY <2>1, <2>2, <2>4 DEF WorkerRebalanceDelay, Leaving
<1> DEFINE delays(M) == {WorkerRebalanceDelay(M[w]) : w \in {v \in Workers : Exists(M, v)}}
           least(M, d) == \A w \in Workers : Exists(M, w) => d <= WorkerRebalanceDelay(M[w])
<1>2. delays(BackPods(L)) = delays(L)
  BY <1>1
<1>3. \A d : least(BackPods(L), d) <=> least(L, d)
  BY <1>1
<1>4. (CHOOSE d \in delays(BackPods(L)) : least(BackPods(L), d)) = (CHOOSE d \in delays(L) : least(L, d))
  <2> HIDE DEF delays, least
  <2> QED BY <1>2, <1>3
<1>5. (\E w \in Workers : Exists(BackPods(L), w)) <=> \E w \in Workers : Exists(L, w)
  BY <1>1
<1>6. ASSUME NEW M
      PROVE  CacheGroupRebalanceDelay(M) = IF \E w \in Workers : Exists(M, w)
                                           THEN CHOOSE d \in delays(M) : least(M, d) ELSE RebalanceDelay
  BY DEF CacheGroupRebalanceDelay
<1> HIDE DEF delays, least
<1>7. CASE \E w \in Workers : Exists(L, w)
  <2>1. CacheGroupRebalanceDelay(L) = CHOOSE d \in delays(L) : least(L, d)
    BY <1>6, <1>7
  <2>2. CacheGroupRebalanceDelay(BackPods(L)) = CHOOSE d \in delays(BackPods(L)) : least(BackPods(L), d)
    BY <1>5, <1>6, <1>7
  <2> QED BY <1>4, <2>1, <2>2
<1>8. CASE ~\E w \in Workers : Exists(L, w)
  BY <1>5, <1>6, <1>8
<1> QED BY <1>7, <1>8

LEMMA QuietWorker ==
  ASSUME TypeInv, PassInv, QuietInv, NEW w \in Workers, WorkerStep(w) \/ AwaitTimeout(w) \/ ApiError(w)
  PROVE  QuietInv'
<1>1. /\ Calls(w) /\ UNCHANGED <<now, spec, seen, pc, run>>
      /\ \A v \in Workers \ {w} : task'[v] = task[v] /\ pods'[v] = pods[v]
  BY WorkerCalls
<1>2. UNCHANGED <<status, queued>>
  BY DEF WorkerStep, CreateWorker, DeleteOld, AwaitGone, RecreateWorker, RestartWorker, PatchWorker,
         RestartFails, ShutDownWorker, DeleteRedundant, CleanWorkerCache, AwaitTimeout, ApiError,
         Remaining, queueVars
<1>3. \A v \in Workers : Visited(v)' => Visited(v)
  BY VisitedBefore
<1>4. ASSUME task'[w] = "await"
      PROVE  pods'[w].deleting
  <2>1. Marks(w)
    BY <1>1, <1>4 DEF Calls
  <2>2. pods[w] \in Pod
    BY <2>1, ListedPod DEF Marks, Exists, TypeInv, TypeOK
  <2> QED BY <2>1, <2>2 DEF Marks, Pod
<1>5. \A v \in Workers \ {w} : Exists(pods', v) <=> Exists(pods, v)
  BY <1>1 DEF Exists
<1>6. \A v \in Workers : task'[v] = "await" =>
        pods'[v].deleting \/ (v # w /\ task[v] = "await" /\ UNCHANGED <<pods[v]>>)
  BY <1>1, <1>4
<1>7. QuietRest'
  <2>1. pc = "idle" /\ ~queued /\ spec.expect # {} => Covers(status.batch, seen)
    BY DEF QuietInv, QuietRest
  <2> QED BY <1>1, <1>2, <2>1 DEF QuietRest, Covers
<1>8. QuietPass'
  <2> SUFFICES ASSUME pc' # "idle", ~queued'
               PROVE  QuietPass'
    BY DEF QuietPass
  <2>1. /\ seen = run.list
        /\ \E startAt \in BatchStart(status.batch, seen) :
             run.status = CalculateStatus(status, run.spec.expect, seen, startAt, now)
        /\ \A v \in Workers :
             /\ Visited(v) => Exists(seen, v) /\ ~seen[v].deleting
             /\ task[v] = "await" => ~Exists(pods, v) \/ pods[v].deleting
    BY <1>1, <1>2 DEF QuietInv, QuietPass
  <2>2. seen' = run'.list
    BY <1>1, <2>1
  <2>3. \E startAt \in BatchStart(status'.batch, seen') :
          run'.status = CalculateStatus(status', run'.spec.expect, seen', startAt, now')
    BY <1>1, <1>2, <2>1
  <2>4. \A v \in Workers : Visited(v)' => Exists(seen', v) /\ ~seen'[v].deleting
    BY <1>1, <1>3, <2>1 DEF Exists
  <2>5. \A v \in Workers : task'[v] = "await" => ~Exists(pods', v) \/ pods'[v].deleting
    BY <1>5, <1>6, <2>1
  <2> QED BY <2>2, <2>3, <2>4, <2>5 DEF QuietPass
<1> QED BY <1>7, <1>8 DEF QuietInv

\* No pass lasts through a tick while nothing is queued.
LEMMA QuietTick ==
  ASSUME TypeInv, PassInv, QuietInv, Tick
  PROVE  QuietInv'
<1>1. /\ UNCHANGED <<spec, pc>> /\ (queued => queued') /\ seen = pods
      /\ pc = "idle" \/ \E w \in Workers : task[w] = "await"
  BY DEF Tick, cgVars
<1>2. CASE queued
  BY <1>1, <1>2 DEF QuietInv, QuietPass, QuietRest
<1>3. CASE ~queued /\ pc # "idle"
  <2>1. PICK w \in Workers : task[w] = "await"
    BY <1>1, <1>3
  <2>2. Visited(w)
    BY <2>1 DEF Visited
  <2> QED BY <1>1, <1>3, <2>1, <2>2 DEF QuietInv, QuietPass
<1>4. CASE ~queued /\ pc = "idle" /\ spec.expect = {}
  BY <1>1, <1>4 DEF QuietInv, QuietPass, QuietRest
<1>5. CASE ~queued /\ pc = "idle" /\ spec.expect # {}
  <2> DEFINE delay == CacheGroupRebalanceDelay(seen)
  <2>1. Covers(status.batch, seen)
    BY <1>5 DEF QuietInv, QuietRest
  <2>2. /\ now \in Nat /\ BackupDuration \in Nat /\ delay \in Nat
        /\ seen \in PodList /\ status \in Status
    <3>1. RebalanceDelay \in Nat /\ LeaveDelay \in Nat
      BY DurationsAssumption DEF DurationsAssumption
    <3>2. seen \in PodList /\ status \in Status
      BY DEF TypeInv, TypeOK
    <3> QED BY <3>1, <3>2, ClockType, DelayType
  <2>3. \A w \in Joiners(seen) : seen[w].joinAt \in Nat
    BY <2>2, DurationsAssumption DEF Joiners, Exists, Joining, PodList, Pod, Time, DurationsAssumption
  <2>4. CASE now' = now + 1 /\ UNCHANGED <<seen, status>>
    <3>1. (\A w \in Joiners(seen) : now >= seen[w].joinAt + delay + BackupDuration)
            => \A w \in Joiners(seen) : now' >= seen[w].joinAt + delay + BackupDuration
      <4> HIDE DEF delay
      <4> QED BY <2>2, <2>3, <2>4
    <3>2. Covers(status.batch, seen)'
      BY <2>1, <2>4, <3>1 DEF Covers
    <3> QED BY <1>1, <1>5, <3>2 DEF QuietInv, QuietPass, QuietRest
  <2>5. CASE UNCHANGED now /\ Recede
    <3>1. seen' = BackPods(seen) /\ status'.batch.members = status.batch.members
      BY <2>2, <2>5 DEF Recede, BackStatus, Status, Batch
    <3>2. CacheGroupRebalanceDelay(seen') = delay
      BY <2>2, <3>1, DelayRecedes
    <3>3. ASSUME NEW w \in Joiners(seen')
          PROVE  w \in Joiners(seen) /\ seen'[w].joinAt = Back(seen[w].joinAt)
      <4>1. seen'[w].joinAt = Back(seen[w].joinAt) /\ Exists(seen, w) /\ w \in Workers
        BY <2>2, <3>1, <3>3, TimesRecede, BackedPods DEF Joiners
      <4>2. seen[w].joinAt # Never
        BY <3>3, <4>1 DEF Joiners, Joining, Back, Never
      <4> QED BY <4>1, <4>2 DEF Joiners, Joining
    <3>4. (\A w \in Joiners(seen) : now >= seen[w].joinAt + delay + BackupDuration)
            => \A w \in Joiners(seen') : now >= seen'[w].joinAt + delay + BackupDuration
      <4> HIDE DEF delay
      <4> QED BY <2>2, <2>3, <3>3 DEF Back
    <3>5. Covers(status.batch, seen)'
      BY <2>1, <2>5, <3>1, <3>2, <3>3, <3>4 DEF Covers
    <3> QED BY <1>1, <1>5, <3>5 DEF QuietInv, QuietPass, QuietRest
  <2> QED BY <2>4, <2>5 DEF Tick
<1> QED BY <1>2, <1>3, <1>4, <1>5

LEMMA QuietStep ==
  ASSUME TypeInv, PassInv, QuietInv, [Next]_vars
  PROVE  QuietInv'
<1>1. CASE Start
  <2>1. /\ pc' = "workers" /\ run'.spec = spec /\ run'.list = seen /\ todo' = {}
        /\ UNCHANGED <<now, spec, status, pods, seen>>
        /\ \A w \in Workers :
             /\ task'[w] \in {"done", "create", "delete", "restart"}
             /\ task'[w] \in {"delete", "restart"} => Exists(seen, w) /\ ~seen[w].deleting
    BY <1>1, StartCalls DEF Start
  <2>2. \E startAt \in BatchStart(status.batch, seen) :
          run'.status = CalculateStatus(status, spec.expect, seen, startAt, now)
    BY <1>1 DEF Start
  <2>3. \A w \in Workers : Visited(w)' => Exists(seen, w) /\ ~seen[w].deleting
    BY <2>1 DEF Visited, Redundant
  <2> QED BY <2>1, <2>2, <2>3 DEF QuietInv, QuietPass, QuietRest, Exists
<1>2. CASE StartRemoval
  <2>1. /\ UNCHANGED <<now, spec, status, queued, pods, seen, run, task>> /\ task = AllDone
        /\ pc = "workers" /\ pc' = "remove" /\ todo' = Redundant(run.list, run.spec.expect)
        /\ run.spec = spec
    BY <1>2 DEF StartRemoval, cgVars, queueVars, PassInv, PassShape
  <2>2. \A w \in Workers : Visited(w)' => Visited(w)
    BY <2>1 DEF Visited, AllDone
  <2> QED BY <2>1, <2>2 DEF QuietInv, QuietPass, QuietRest, Exists
<1>3. CASE PatchStatus
  <2>1. /\ pc' = "idle" /\ pc # "idle" /\ run.spec = spec /\ UNCHANGED <<now, spec, seen>>
    BY <1>3 DEF PatchStatus, PassDone, EndPass, cgVars, PassInv, PassShape
  <2>2. PICK s2 \in BatchStart(run.status.batch, seen) :
          /\ status' = CalculateStatus(run.status, spec.expect, seen, s2, now)
          /\ ~queued' => ~queued /\ status' = status
    BY <1>3, <2>1 DEF PatchStatus
  <2>3. ASSUME ~queued', spec.expect # {}
        PROVE  Covers(status.batch, seen)
    <3>1. PICK s1 \in BatchStart(status.batch, seen) :
            run.status = CalculateStatus(status, spec.expect, seen, s1, now)
      BY <2>1, <2>2, <2>3 DEF QuietInv, QuietPass
    <3>2. /\ run.status.batch = NextBatch(status.batch, spec.expect, seen, s1, now)
          /\ status.batch = NextBatch(run.status.batch, spec.expect, seen, s2, now)
      <4>1. ASSUME NEW st, NEW s
            PROVE  CalculateStatus(st, spec.expect, seen, s, now).batch
                     = NextBatch(st.batch, spec.expect, seen, s, now)
        BY <2>3 DEF CalculateStatus
      <4> QED BY <2>2, <2>3, <3>1, <4>1
    <3>3. status \in Status /\ run.status \in Status /\ seen \in PodList /\ spec.expect \in SUBSET Workers
      BY DEF TypeInv, TypeOK, Spec0
    <3> QED BY <3>2, <3>3, TwiceCovers
  <2> QED BY <2>1, <2>2, <2>3 DEF QuietInv, QuietPass, QuietRest, Covers
<1>4. CASE PatchStatusFails \/ Crash \/ Observe \/ EditSpec
  BY <1>4 DEF PatchStatusFails, Crash, Observe, EditSpec, QuietInv, QuietPass, QuietRest
<1>5. CASE CollectStats \/ UNCHANGED vars
  <2>1. UNCHANGED <<now, spec, status, queued, pods, seen, pc, run, task, todo>>
    <3>1. CollectStats => UNCHANGED <<spec, queued>>
      BY DEF CollectStats, cgVars, queueVars
    <3> QED BY <1>5, <3>1, SamplingKeeps DEF vars
  <2> QED BY <2>1 DEF QuietInv, QuietPass, QuietRest, Covers, Visited, Exists
<1>6. ASSUME NEW w \in Workers, PodReady(w) \/ PodGone(w) \/ PodFails(w) \/ PodDeleted(w)
      PROVE  QuietInv'
  <2>1. /\ Happens(w) /\ UNCHANGED <<now, spec, seen, pc, run, task, todo>>
        /\ \A v \in Workers \ {w} : pods'[v] = pods[v]
    BY <1>6, PodHappens
  <2>2. UNCHANGED <<status, queued>>
    BY <1>6 DEF PodReady, PodGone, PodFails, PodDeleted, Outside
  <2>3. \A v \in Workers : ~Exists(pods, v) \/ pods[v].deleting => ~Exists(pods', v) \/ pods'[v].deleting
    BY <2>1, HappenedPods DEF Exists
  <2> QED BY <2>1, <2>2, <2>3 DEF QuietInv, QuietPass, QuietRest, Covers, Visited
<1> QED BY <1>1, <1>2, <1>3, <1>4, <1>5, <1>6, QuietWorker, QuietTick DEF Next

(***************************************************************************)
(* Whatever goes wrong, and though the cache lags behind: when nothing is  *)
(* queued the last pass has changed no pod, and has computed the status    *)
(* twice of the same list with the same result, so that the batch has the  *)
(* workers that join, unless all of them have had their time.              *)
(***************************************************************************)
THEOREM BatchCovers == Spec => []BatchCoversJoiners
<1> DEFINE Inv == TypeInv /\ PassInv /\ QuietInv
<1>1. Init => Inv
  BY InitTypeInv, PassInit, QuietInit
<1>2. Inv /\ [Next]_vars => Inv'
  BY TypeStep, PassStep, QuietStep
<1>3. Inv => BatchCoversJoiners
  BY DEF QuietInv, QuietRest, Covers, BatchCoversJoiners
<1> QED BY <1>1, <1>2, <1>3, PTL DEF Spec
----
(***************************************************************************)
(* The window in which workers join.                                       *)
(***************************************************************************)

\* Every worker that joins does so together with a worker that is to join at t, or later, or has had
\* its time.
JoinedWith(t) == \A v \in Workers : Joining(pods[v]) => pods[v].joinAt >= t \/ HasHadItsTime(v)

\* A pass lets its workers join at the time it started ...
OneJoinTime ==
  pc = "workers" =>
    \A v, w \in Workers : Joining(want[v]) /\ Joining(want[w]) => want[v].joinAt = want[w].joinAt

\* ... in the window of a batch they are members of, or are to be created in at once, or without one.
JoinTasksInWindow ==
  pc = "workers" =>
    \A w \in Workers : task[w] # "done" /\ Joining(want[w]) =>
      \/ w \in run.status.batch.members
      \/ task[w] = "create" /\ now < run.status.batch.startAt - Margin
      \/ JoinedWith(want[w].joinAt)

\* Whoever is recreated to leave the group is created as leaving.
RemovedLeave ==
  pc = "remove" => \A w \in Workers :
    task[w] \in {"restart", "patch", "delete", "await", "recreate"} => Leaving(want[w])

WindowInv == OneJoinTime /\ JoinTasksInWindow /\ RemovedLeave

LEMMA WindowInit == Init => WindowInv
BY DEF Init, WindowInv, OneJoinTime, JoinTasksInWindow, RemovedLeave

\* A pass that starts on an up-to-date list lets a worker join in the window, or when all that join
\* already have had their time.
LEMMA WindowStart ==
  ASSUME TypeInv, Start, FreshLists
  PROVE  WindowInv'
<1>1. PICK startAt \in BatchStart(status.batch, seen) :
        LET st == CalculateStatus(status, spec.expect, seen, startAt, now)
        IN \E granted \in Grants(seen, st.batch) :
             LET updated == (Outdated(seen, st.batch) \ OutdatedReady(seen, st.batch)) \cup granted
             IN /\ run' = [spec |-> spec, status |-> st, list |-> seen, stats |-> stats]
                /\ want' = [w \in Workers |-> IF w \in updated THEN Expected(w, seen) ELSE NoPod]
                /\ task' = [w \in Workers |-> IF w \in updated
                                              THEN FirstTask(seen[w], Expected(w, seen)) ELSE "done"]
  BY DEF Start
<1> DEFINE st == CalculateStatus(status, spec.expect, seen, startAt, now)
<1>2. PICK granted \in Grants(seen, st.batch) :
        LET updated == (Outdated(seen, st.batch) \ OutdatedReady(seen, st.batch)) \cup granted
        IN /\ run' = [spec |-> spec, status |-> st, list |-> seen, stats |-> stats]
           /\ want' = [w \in Workers |-> IF w \in updated THEN Expected(w, seen) ELSE NoPod]
           /\ task' = [w \in Workers |-> IF w \in updated
                                         THEN FirstTask(seen[w], Expected(w, seen)) ELSE "done"]
  BY <1>1
<1> DEFINE updated == (Outdated(seen, st.batch) \ OutdatedReady(seen, st.batch)) \cup granted
<1>3. /\ seen = pods /\ pc' = "workers" /\ UNCHANGED <<now, status, pods, seen>>
      /\ run'.status = st
  BY <1>2, FreshLists DEF Start
<1>4. ~Joining(NoPod)
  BY DEF Joining, NoPod
<1>5. ASSUME NEW w \in Workers, Joining(want'[w])
      PROVE  /\ want'[w].joinAt = now /\ task'[w] = FirstTask(seen[w], Expected(w, seen))
             /\ w \in Outdated(seen, st.batch)
             /\ ShouldAddJoinOption(w, seen[w], stats, cacheSize, now)
  <2>1. w \in updated /\ want'[w] = Expected(w, seen) /\ task'[w] = FirstTask(seen[w], Expected(w, seen))
    BY <1>2, <1>4, <1>5
  <2>2. w \in Outdated(seen, st.batch)
    BY <2>1 DEF Grants, OutdatedReady
  <2> QED BY <1>5, <2>1, <2>2 DEF Expected, NewWorker, Joining
<1>6. OneJoinTime'
  BY <1>5 DEF OneJoinTime
<1>7. /\ status \in Status /\ status.batch \in Batch /\ seen \in PodList
      /\ now \in Nat /\ BackupDuration \in Nat /\ status.batch.startAt \in Nat
      /\ startAt \in Nat /\ startAt >= status.batch.startAt
      /\ \A v \in Joiners(seen) \ status.batch.members : startAt >= seen[v].joinAt
      /\ \A v \in Workers : Joining(seen[v]) =>
           /\ v \in Joiners(seen) /\ seen[v].joinAt \in Nat
  <2>1. status \in Status /\ seen \in PodList
    BY DEF TypeInv, TypeOK
  <2>2. status.batch \in Batch
    BY <2>1 DEF Status
  <2>3. \A v \in Workers : Joining(seen[v]) => v \in Joiners(seen) /\ seen[v].joinAt \in Nat
    BY <1>4, <2>1, DurationsAssumption
    DEF Joiners, Exists, Joining, PodList, Pod, Time, DurationsAssumption
  <2> QED BY <2>1, <2>2, <2>3, ClockType, StartBounds
<1>8. ASSUME NEW w \in Workers, task'[w] # "done", Joining(want'[w])
      PROVE  \/ w \in run'.status.batch.members
             \/ task'[w] = "create" /\ now' < run'.status.batch.startAt - Margin
             \/ JoinedWith(want[w].joinAt)'
  <2> DEFINE members == BatchMembers(status.batch, spec.expect, seen)
  <2>1. w \in spec.expect /\ ~Skipped(w, seen, st.batch)
    BY <1>5, <1>8 DEF Outdated
  <2>2. st.batch = NextBatch(status.batch, spec.expect, seen, startAt, now)
    BY <2>1 DEF CalculateStatus
  <2>3. \A v \in Workers : Joining(seen[v]) => v \in members
    BY <1>7 DEF BatchMembers, Joiners
  <2>4. CASE \A v \in Workers : ~Joining(seen[v])
    BY <1>3, <2>4 DEF JoinedWith
  <2>5. CASE now >= startAt + BackupDuration
    <3>1. ASSUME NEW v \in Workers, Joining(seen[v])
          PROVE  now >= BackupDuration
                         + IF v \in status.batch.members THEN status.batch.startAt ELSE seen[v].joinAt
      BY <1>7, <2>5, <3>1
    <3> QED BY <1>3, <3>1 DEF JoinedWith, HasHadItsTime
  <2>6. CASE st.batch.members = members /\ members # {}
    <3>1. CASE Exists(seen, w)
      <4>1. Joining(seen[w])
        BY <1>5, <1>8, <3>1 DEF ShouldAddJoinOption, Exists
      <4> QED BY <1>3, <2>3, <2>6, <4>1
    <3>2. CASE ~Exists(seen, w)
      <4>1. cacheSize = "some" /\ task'[w] = "create"
        BY <1>5, <1>8, <3>2 DEF ShouldAddJoinOption, Exists, FirstTask
      <4>2. CanAddWorker(st.batch, cacheSize, now) \/ w \in st.batch.members
        BY <2>1, <3>2 DEF Skipped
      <4> QED BY <1>3, <2>6, <4>1, <4>2 DEF CanAddWorker
    <3> QED BY <3>1, <3>2
  <2>7. members = {} => \A v \in Workers : ~Joining(seen[v])
    BY <2>3
  <2>8. (\A v \in members : MemberFinished(v, spec.expect, seen)) => \A v \in Workers : ~Joining(seen[v])
    BY <2>3 DEF MemberFinished
  <2>9. \/ st.batch.members = members
        \/ members = {}
        \/ \A v \in members : MemberFinished(v, spec.expect, seen)
        \/ now >= startAt + BackupDuration
    BY <2>2, BatchIsOver
  <2> HIDE DEF st, members
  <2> QED BY <2>4, <2>5, <2>6, <2>7, <2>8, <2>9
<1>9. JoinTasksInWindow'
  BY <1>8 DEF JoinTasksInWindow
<1> QED BY <1>3, <1>6, <1>9 DEF WindowInv, RemovedLeave

\* A step of a worker gives it something to do in the removal loop only if it is to leave.
LEMMA LeavingWants ==
  ASSUME TypeInv, NEW w \in Workers, WorkerStep(w) \/ AwaitTimeout(w) \/ ApiError(w),
         task[w] = "done", task'[w] \in {"restart", "delete"}
  PROVE  Leaving(want'[w])
<1>1. ShutDownWorker(w)
  BY DEF WorkerStep, CreateWorker, DeleteOld, AwaitGone, AwaitTimeout, RecreateWorker, RestartWorker,
         PatchWorker, RestartFails, ApiError, DeleteRedundant, CleanWorkerCache, Abort
<1>2. /\ want \in [Workers -> Pod \cup {NoPod}] /\ task \in [Workers -> Tasks] /\ now \in Time
      /\ run.list \in PodList
  BY DEF TypeInv, TypeOK, PodList
<1>3. ASSUME NEW t, Goto(w, t) PROVE task'[w] = t
  BY <1>2, <1>3 DEF Goto
<1>4. want' = [want EXCEPT ![w] = LeavingWorker(run.list[w], now)]
  BY <1>1, <1>3 DEF ShutDownWorker, Abort
<1>5. LeavingWorker(run.list[w], now).leaveAt = now
  BY <1>2, ListedPod DEF LeavingWorker, Pod, NoPod
<1> QED BY <1>2, <1>4, <1>5 DEF Leaving, Time, Never

\* A step of a worker lets it join with those the pass wants to join.
LEMMA WindowWorker ==
  ASSUME TypeInv, PassInv, WindowInv, NEW w \in Workers, WorkerStep(w) \/ AwaitTimeout(w) \/ ApiError(w)
  PROVE  WindowInv'
<1>1. /\ Calls(w) /\ UNCHANGED <<now, pc, run>> /\ UNCHANGED status
      /\ \A v \in Workers \ {w} : task'[v] = task[v] /\ pods'[v] = pods[v]
  <2>1. UNCHANGED status
    BY DEF WorkerStep, CreateWorker, DeleteOld, AwaitGone, RecreateWorker, RestartWorker, PatchWorker,
           RestartFails, ShutDownWorker, DeleteRedundant, CleanWorkerCache, AwaitTimeout, ApiError, Remaining
  <2> QED BY <2>1, WorkerCalls
<1>2. /\ \A v \in Workers \ {w} : want'[v] = want[v]
      /\ pc # "remove" => want'[w] = want[w]
      /\ task[w] # "done" => want'[w] = want[w]
  <2>1. task[w] # "done" => ~ShutDownWorker(w)
    BY DEF ShutDownWorker, AllDone
  <2>2. ~ShutDownWorker(w) => want' = want
    BY DEF WorkerStep, CreateWorker, DeleteOld, AwaitGone, RecreateWorker, RestartWorker, PatchWorker,
           RestartFails, DeleteRedundant, CleanWorkerCache, AwaitTimeout, ApiError, Remaining
  <2> QED BY <2>1, <2>2, WorkerWants
<1>3. RemovedLeave'
  <2>1. ASSUME pc = "remove", task'[w] \in {"restart", "patch", "delete", "await", "recreate"}
        PROVE  Leaving(want'[w])
    <3>1. CASE task[w] = "done"
      <4>1. task'[w] \in {"restart", "delete"}
        BY <1>1, <2>1, <3>1 DEF Calls
      <4> QED BY <3>1, <4>1, LeavingWants
    <3>2. CASE task[w] # "done"
      <4>1. task[w] \in {"restart", "patch", "delete", "await", "recreate"}
        BY <1>1, <2>1, <3>2 DEF Calls
      <4> QED BY <1>2, <2>1, <3>2, <4>1 DEF WindowInv, RemovedLeave
    <3> QED BY <3>1, <3>2
  <2> QED BY <1>1, <1>2, <2>1 DEF WindowInv, RemovedLeave
<1>4. OneJoinTime'
  BY <1>1, <1>2 DEF WindowInv, OneJoinTime
<1>5. ASSUME pc = "workers", NEW v \in Workers, Joining(want[v]), JoinedWith(want[v].joinAt)
      PROVE  JoinedWith(want[v].joinAt)'
  <2>1. /\ want'[v] = want[v] /\ want[v].joinAt \in Nat
    <3>1. want \in PodList
      BY DEF TypeInv, TypeOK
    <3> QED BY <1>1, <1>2, <1>5, <3>1, DurationsAssumption
            DEF PodList, Pod, NoPod, Joining, Time, DurationsAssumption
  <2>2. ASSUME NEW u \in Workers, Joining(pods'[u])
        PROVE  pods'[u].joinAt >= want[v].joinAt \/ HasHadItsTime(u)'
    <3>1. pods'[u].joinAt \in {pods[u].joinAt, want[u].joinAt}
      <4>1. CASE u = w
        BY <1>1, <4>1, CalledJoins
      <4>2. CASE u # w
        BY <1>1, <4>2
      <4> QED BY <4>1, <4>2
    <3>2. CASE pods'[u].joinAt = pods[u].joinAt
      <4>1. pods[u].joinAt >= want[v].joinAt \/ HasHadItsTime(u)
        BY <1>5, <2>2, <3>2 DEF JoinedWith, Joining
      <4>2. HasHadItsTime(u) => HasHadItsTime(u)'
        BY <1>1, <3>2 DEF HasHadItsTime
      <4> QED BY <3>2, <4>1, <4>2
    <3>3. CASE pods'[u].joinAt = want[u].joinAt
      <4>1. want[u].joinAt = want[v].joinAt
        BY <1>5, <2>2, <3>3 DEF WindowInv, OneJoinTime, Joining
      <4> QED BY <2>1, <3>3, <4>1
    <3> QED BY <3>1, <3>2, <3>3
  <2>3. \A u \in Workers : Joining(pods'[u]) => pods'[u].joinAt >= want[v].joinAt \/ HasHadItsTime(u)'
    BY <2>2
  <2> QED BY <2>1, <2>3 DEF JoinedWith
<1>6. ASSUME pc = "workers", NEW v \in Workers, task'[v] # "done", Joining(want'[v])
      PROVE  \/ v \in run'.status.batch.members
             \/ task'[v] = "create" /\ now' < run'.status.batch.startAt - Margin
             \/ JoinedWith(want[v].joinAt)'
  <2>1. want'[v] = want[v]
    BY <1>2, <1>6
  <2>2. task[v] # "done"
    BY <1>1, <1>6 DEF Calls
  <2>3. task[v] = "create" => v # w
    BY <1>1, <1>6 DEF Calls
  <2>4. \/ v \in run.status.batch.members
        \/ task[v] = "create" /\ now < run.status.batch.startAt - Margin
        \/ JoinedWith(want[v].joinAt)
    BY <1>6, <2>1, <2>2 DEF WindowInv, JoinTasksInWindow
  <2>5. JoinedWith(want[v].joinAt) => JoinedWith(want[v].joinAt)'
    BY <1>5, <1>6, <2>1 DEF JoinedWith
  <2> QED BY <1>1, <2>3, <2>4, <2>5
<1>7. JoinTasksInWindow'
  BY <1>1, <1>6 DEF JoinTasksInWindow
<1> QED BY <1>3, <1>4, <1>7 DEF WindowInv

\* Times recede together, and whoever has had its time has had it from then on.
LEMMA WindowTick ==
  ASSUME TypeInv, WindowInv, Tick
  PROVE  WindowInv'
<1>1. /\ UNCHANGED <<pc, task>> /\ \A w \in Workers : task[w] # "create"
      /\ now' >= now /\ now \in Nat /\ now' \in Nat /\ BackupDuration \in Nat
      /\ pods \in PodList /\ want \in PodList /\ status \in Status /\ run.status \in Status
      /\ status.batch.startAt \in Nat
      /\ run \in [spec : Spec0, status : Status, list : PodList, stats : [Workers -> Sample]]
  <2>1. /\ pods \in PodList /\ want \in PodList /\ status \in Status /\ run.status \in Status
        /\ run \in [spec : Spec0, status : Status, list : PodList, stats : [Workers -> Sample]]
    BY DEF TypeInv, TypeOK
  <2>2. status.batch \in Batch
    BY <2>1 DEF Status
  <2>3. now \in Nat /\ BackupDuration \in Nat /\ status.batch.startAt \in Nat
    BY <2>2, ClockType
  <2>4. UNCHANGED <<pc, task>> /\ (\A w \in Workers : task[w] # "create") /\ now' \in {now, now + 1}
    BY DEF Tick
  <2> QED BY <2>1, <2>3, <2>4
<1>2. \A L \in {pods, want} : \A w \in Workers :
        L[w].joinAt \in Int /\ (Joining(L[w]) => L[w].joinAt \in Nat)
  BY <1>1, DurationsAssumption DEF PodList, Pod, NoPod, Joining, Time, Never, DurationsAssumption
<1>3. CASE UNCHANGED <<pods, want, status, run>>
  <2>1. \A v \in Workers : Joining(pods[v]) /\ HasHadItsTime(v) => HasHadItsTime(v)'
    BY <1>1, <1>2, <1>3 DEF HasHadItsTime
  <2>2. ASSUME NEW w \in Workers, JoinedWith(want[w].joinAt)
        PROVE  JoinedWith(want[w].joinAt)'
    BY <1>3, <2>1, <2>2 DEF JoinedWith
  <2> QED BY <1>1, <1>3, <2>2 DEF WindowInv, OneJoinTime, JoinTasksInWindow, RemovedLeave
<1>4. CASE Recede
  <2>1. /\ pods' = BackPods(pods) /\ want' = BackPods(want)
        /\ status'.batch.startAt = Back(status.batch.startAt)
        /\ status'.batch.members = status.batch.members
        /\ run'.status.batch.members = run.status.batch.members
    BY <1>1, <1>4 DEF Recede, BackStatus, Status, Batch
  <2>2. ASSUME NEW w \in Workers
        PROVE  /\ pods'[w].joinAt = Back(pods[w].joinAt) /\ want'[w].joinAt = Back(want[w].joinAt)
               /\ Joining(pods'[w]) => Joining(pods[w])
               /\ Joining(want'[w]) => Joining(want[w])
               /\ Leaving(want[w]) => Leaving(want'[w])
    <3>1. /\ pods'[w].joinAt = Back(pods[w].joinAt) /\ want'[w].joinAt = Back(want[w].joinAt)
          /\ want'[w].leaveAt = Back(want[w].leaveAt)
      BY <1>1, <2>1, TimesRecede
    <3>2. want[w].leaveAt \in Time \cup {Never}
      BY <1>1 DEF PodList, Pod, NoPod
    <3>3. Back(want[w].leaveAt) = Never => want[w].leaveAt = Never
      BY <3>2, DurationsAssumption DEF Back, Time, Never, DurationsAssumption
    <3> QED BY <3>1, <3>3 DEF Joining, Leaving, Back, Never
  <2>3. ASSUME NEW v \in Workers, Joining(pods[v]), HasHadItsTime(v)
        PROVE  HasHadItsTime(v)'
    BY <1>1, <1>2, <2>1, <2>2, <2>3 DEF HasHadItsTime, Back
  <2>4. ASSUME NEW w \in Workers, JoinedWith(want[w].joinAt)
        PROVE  JoinedWith(want[w].joinAt)'
    <3>1. ASSUME NEW v \in Workers, Joining(pods'[v])
          PROVE  pods'[v].joinAt >= want'[w].joinAt \/ HasHadItsTime(v)'
      <4>1. pods[v].joinAt >= want[w].joinAt \/ HasHadItsTime(v)
        BY <2>2, <2>4, <3>1 DEF JoinedWith
      <4>2. pods[v].joinAt >= want[w].joinAt => pods'[v].joinAt >= want'[w].joinAt
        BY <1>2, <2>2 DEF Back
      <4> QED BY <2>2, <2>3, <3>1, <4>1, <4>2
    <3> QED BY <3>1 DEF JoinedWith
  <2>5. OneJoinTime'
    BY <1>1, <2>2 DEF WindowInv, OneJoinTime
  <2>6. JoinTasksInWindow'
    BY <1>1, <2>1, <2>2, <2>4 DEF WindowInv, JoinTasksInWindow
  <2>7. RemovedLeave'
    BY <1>1, <2>2 DEF WindowInv, RemovedLeave
  <2> QED BY <2>5, <2>6, <2>7 DEF WindowInv
<1> QED BY <1>3, <1>4 DEF Tick

LEMMA WindowStep ==
  ASSUME TypeInv, PassInv, WindowInv, [Next]_vars, FreshLists
  PROVE  WindowInv'
<1>1. CASE StartRemoval
  <2>1. pc' = "remove" /\ task' = AllDone
    BY <1>1 DEF StartRemoval
  <2> QED BY <2>1 DEF WindowInv, OneJoinTime, JoinTasksInWindow, RemovedLeave, AllDone
<1>2. CASE PatchStatus \/ PatchStatusFails \/ Crash
  BY <1>2, PassEnds DEF WindowInv, OneJoinTime, JoinTasksInWindow, RemovedLeave
<1>3. CASE CollectStats \/ Observe \/ EditSpec \/ UNCHANGED vars
  <2>1. UNCHANGED <<now, status, pods, pc, run, want, task>>
    BY <1>3 DEF CollectStats, Observe, EditSpec, vars, Outside, passVars
  <2> QED BY <2>1
          DEF WindowInv, OneJoinTime, JoinTasksInWindow, RemovedLeave, JoinedWith, HasHadItsTime
<1>4. ASSUME NEW w \in Workers, PodReady(w) \/ PodGone(w) \/ PodFails(w) \/ PodDeleted(w)
      PROVE  WindowInv'
  <2>1. UNCHANGED <<now, status, pc, run, want, task>>
    BY <1>4 DEF PodReady, PodGone, PodFails, PodDeleted, Outside, passVars
  <2>2. \A v \in Workers : pods'[v].joinAt \in {pods[v].joinAt, Never}
    <3>1. Happens(w) /\ \A v \in Workers \ {w} : pods'[v] = pods[v]
      BY <1>4, PodHappens
    <3> QED BY <3>1, HappenedJoins
  <2>3. ASSUME NEW v \in Workers, JoinedWith(want[v].joinAt)
        PROVE  JoinedWith(want[v].joinAt)'
    BY <2>1, <2>2, <2>3 DEF JoinedWith, HasHadItsTime, Joining
  <2> QED BY <2>1, <2>3 DEF WindowInv, OneJoinTime, JoinTasksInWindow, RemovedLeave
<1> QED BY <1>1, <1>2, <1>3, <1>4, FreshLists, WindowStart, WindowWorker, WindowTick DEF Next

\* A worker that is created to join, and not to leave, is created in the window.
LEMMA CreatedInWindow ==
  ASSUME TypeInv, PassInv, WindowInv, [Next]_vars, NEW w \in Workers,
         ~Exists(pods, w), Exists(pods', w), Joining(pods'[w]), ~Leaving(pods'[w])
  PROVE  \/ w \in run.status.batch.members
         \/ now < run.status.batch.startAt - Margin
         \/ \A v \in Joiners(pods) : pods[v].joinAt >= pods'[w].joinAt \/ HasHadItsTime(v)
<1>1. task[w] \in {"create", "recreate"} /\ pods'[w] = Created(w)
  BY Creations
<1>2. /\ want[w] \in Pod /\ pods'[w].joinAt = want[w].joinAt /\ pods'[w].leaveAt = want[w].leaveAt
  <2>1. want[w] \in Pod
    BY <1>1, ListedPod DEF TypeInv, TypeOK, Targets, Exists
  <2> QED BY <1>1, <2>1 DEF Created, Pod
<1>3. pc = "workers"
  <2>1. pc \in {"idle", "workers", "remove"}
    BY DEF TypeInv, TypeOK
  <2>2. pc # "idle"
    BY <1>1 DEF PassInv, PassShape, AllDone
  <2>3. pc # "remove"
    <3>1. pc = "remove" => task[w] # "create"
      BY <1>1 DEF PassInv, PassShape
    <3> QED BY <1>1, <1>2, <3>1 DEF WindowInv, RemovedLeave, Leaving
  <2> QED BY <2>1, <2>2, <2>3
<1> QED BY <1>1, <1>2, <1>3 DEF WindowInv, JoinTasksInWindow, JoinedWith, Joiners, Joining

(***************************************************************************)
(* With lists that are up to date, a worker that joins is created in the   *)
(* window of its batch, as a member of it, or together with all that join: *)
(* whatever goes wrong, however long its old pod takes to go away, and     *)
(* whatever the templates, the durations and the edits of the spec.        *)
(***************************************************************************)
THEOREM JoinWindow == ASSUME FreshLists PROVE Spec => JoinsInWindow
<1> DEFINE Inv == TypeInv /\ PassInv /\ WindowInv
<1>1. Init => Inv
  BY InitTypeInv, PassInit, WindowInit
<1>2. Inv /\ [Next]_vars => Inv'
  BY FreshLists, TypeStep, PassStep, WindowStep
<1>3. Inv /\ [Next]_vars =>
        [\A w \in Workers :
           /\ ~Exists(pods, w) /\ Exists(pods', w) /\ Joining(pods'[w]) /\ ~Leaving(pods'[w])
           => \/ w \in run.status.batch.members
              \/ now < run.status.batch.startAt - Margin
              \/ \A v \in Joiners(pods) : pods[v].joinAt >= pods'[w].joinAt \/ HasHadItsTime(v)]_vars
  BY CreatedInWindow
<1> QED BY <1>1, <1>2, <1>3, PTL DEF Spec, JoinsInWindow
====
