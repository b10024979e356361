---- MODULE CacheGroupPass_proofs ----
(***************************************************************************)
(* Proofs about the passes of the CacheGroup controller, one after the     *)
(* other, for any number of workers, any durations and any template: that  *)
(* no cache is left behind, that a delete hits the pod that was listed,    *)
(* and what faults cost.                                                   *)
(***************************************************************************)
EXTENDS CacheGroup_proofs

(***************************************************************************)
(* What the steps do, worker by worker.                                    *)
(***************************************************************************)

\* Two steps of the pod of a worker: the controller makes a new one, or marks the one there is.
Makes(w)  == ~Exists(pods, w) /\ pods'[w] = Created(w)
Marks(w)  == Exists(pods, w) /\ pods'[w] = [pods[w] EXCEPT !.deleting = TRUE]
Spares(w) == pods'[w] = pods[w]

\* What a call for a worker does to its task and its pod.
Calls(w) ==
  \/ task[w] = "create" /\ task'[w] = "done" /\ (Makes(w) \/ (Exists(pods, w) /\ Spares(w)))
  \/ task[w] = "delete" /\ task'[w] = "await" /\ Marks(w)
  \/ task[w] = "delete" /\ task'[w] = "recreate" /\ ~Exists(pods, w) /\ Spares(w)
  \/ task[w] = "await" /\ task'[w] = "recreate" /\ ~Exists(seen, w) /\ Spares(w)
  \/ task[w] = "recreate" /\ task'[w] = "done" /\ (Makes(w) \/ (Exists(pods, w) /\ Spares(w)))
  \/ /\ task[w] = "restart" /\ task'[w] = "patch" /\ Ready(pods[w])
     /\ pods'[w] = [pods[w] EXCEPT !.startAt = now]
  \/ /\ task[w] = "patch" /\ task'[w] = "done" /\ Exists(pods, w)
     /\ pods'[w] = [pods[w] EXCEPT !.joinAt = want[w].joinAt, !.leaveAt = want[w].leaveAt]
  \/ task[w] \in {"restart", "patch"} /\ task'[w] \in {"done", "delete"} /\ Spares(w)
  \/ task[w] = "remove" /\ task'[w] = "clean" /\ (Marks(w) \/ (~Exists(pods, w) /\ Spares(w)))
  \/ task[w] = "clean" /\ task'[w] = "done" /\ Spares(w) /\ (CleanCache => w \notin dirty')
  \/ /\ task[w] \notin {"done", "restart", "patch"} /\ task'[w] = "done" /\ Spares(w)
     /\ faults' = faults + 1 /\ (task[w] = "await" => seen = pods)
  \/ /\ pc = "remove" /\ w \in todo /\ task[w] = "done" /\ Spares(w)
     /\ task'[w] \in {"done", "remove", "delete", "restart"}
     /\ task'[w] # "done" => w \notin todo'
     /\ task'[w] = "restart" => run.list[w].v2

\* The steps of the goroutine of a worker are its calls, and touch no other worker.
LEMMA WorkerCalls ==
  ASSUME TypeInv, NEW w \in Workers, WorkerStep(w) \/ AwaitTimeout(w) \/ ApiError(w)
  PROVE  /\ Calls(w)
         /\ \A v \in Workers \ {w} : task'[v] = task[v] /\ pods'[v] = pods[v]
         /\ UNCHANGED <<now, spec, seen, pc, run>>
         /\ todo' \subseteq todo
         /\ faults' \in {faults, faults + 1}
         /\ dirty' \subseteq dirty
<1> USE DEF Remaining, cgVars, statsVars, queueVars
<1>1. pods \in [Workers -> Pod \cup {NoPod}] /\ task \in [Workers -> Tasks]
  BY DEF TypeInv, TypeOK, PodList
<1>2. ASSUME NEW p, SetPod(w, p)
      PROVE  pods'[w] = p /\ \A v \in Workers \ {w} : pods'[v] = pods[v]
  BY <1>1, <1>2 DEF SetPod
<1>3. ASSUME NEW t, Goto(w, t)
      PROVE  task'[w] = t /\ \A v \in Workers \ {w} : task'[v] = task[v]
  BY <1>1, <1>3 DEF Goto
<1>4. CASE CreateWorker(w)
  BY <1>2, <1>3, <1>4 DEF CreateWorker, Calls, Makes, Spares
<1>5. CASE DeleteOld(w)
  BY <1>2, <1>3, <1>5 DEF DeleteOld, Calls, Marks, Spares
<1>6. CASE AwaitGone(w)
  BY <1>3, <1>6 DEF AwaitGone, Calls, Spares
<1>7. CASE RecreateWorker(w)
  BY <1>2, <1>3, <1>7 DEF RecreateWorker, Abort, Calls, Makes, Spares
<1>8. CASE RestartWorker(w)
  BY <1>2, <1>3, <1>8 DEF RestartWorker, Calls
<1>9. CASE PatchWorker(w)
  BY <1>2, <1>3, <1>9 DEF PatchWorker, Calls
<1>10. CASE RestartFails(w)
  BY <1>3, <1>10 DEF RestartFails, Abort, Fault, Calls, Spares
<1>11. CASE ShutDownWorker(w)
  <2>1. task[w] = "done"
    BY <1>11 DEF ShutDownWorker, AllDone
  <2>2. /\ pc = "remove" /\ w \in todo
        /\ UNCHANGED <<now, cgVars, status, statsVars, pods, seen, dirty, queueVars, pc, run>>
        /\ faults' \in {faults, faults + 1}
    BY <1>11 DEF ShutDownWorker, Fault
  <2>3. \/ Goto(w, "remove") /\ todo' = todo \ {w}
        \/ Abort(w)
        \/ Goto(w, IF run.list[w].v2 THEN "restart" ELSE "delete") /\ todo' = todo \ {w}
        \/ todo' = todo \ {w} /\ task' = task
    BY <1>11 DEF ShutDownWorker
  <2>4. CASE Goto(w, "remove") /\ todo' = todo \ {w}
    BY <2>1, <2>2, <2>4, <1>3 DEF Calls, Spares
  <2>5. CASE Abort(w)
    BY <2>1, <2>2, <2>5, <1>3 DEF Abort, Calls, Spares
  <2>6. CASE Goto(w, IF run.list[w].v2 THEN "restart" ELSE "delete") /\ todo' = todo \ {w}
    BY <2>1, <2>2, <2>6, <1>3 DEF Calls, Spares
  <2>7. CASE todo' = todo \ {w} /\ task' = task
    BY <2>1, <2>2, <2>7 DEF Calls, Spares
  <2> QED BY <2>3, <2>4, <2>5, <2>6, <2>7
<1>12. CASE DeleteRedundant(w)
  BY <1>2, <1>3, <1>12 DEF DeleteRedundant, Calls, Marks, Spares
<1>13. CASE CleanWorkerCache(w)
  BY <1>3, <1>13 DEF CleanWorkerCache, Calls, Spares
<1>14. CASE AwaitTimeout(w)
  BY <1>3, <1>14 DEF AwaitTimeout, Abort, Fault, Calls, Spares
<1>15. CASE ApiError(w)
  BY <1>3, <1>15 DEF ApiError, Abort, Fault, Calls, Spares
<1> QED BY <1>4, <1>5, <1>6, <1>7, <1>8, <1>9, <1>10, <1>11, <1>12, <1>13, <1>14, <1>15 DEF WorkerStep

\* A pass takes the spec and the list it finds, and gives tasks to expected workers only: to the
\* ready ones it grants an update, and to others.
LEMMA StartCalls ==
  ASSUME TypeInv, Start
  PROVE  \E batch : \E granted \in Grants(seen, batch) :
           /\ pc' = "workers" /\ todo' = {} /\ run'.spec = spec /\ run'.list = seen
           /\ UNCHANGED <<now, spec, pods, seen, dirty, faults>>
           /\ \A w \in Workers :
                /\ task'[w] \in {"done", "create", "delete", "restart"}
                /\ task'[w] # "done" => w \in spec.expect /\ (w \in granted \/ ~Ready(seen[w]))
                /\ task'[w] = "create" => ~Exists(seen, w)
                /\ task'[w] \in {"delete", "restart"} => Exists(seen, w) /\ ~seen[w].deleting
                /\ task'[w] = "restart" => seen[w].v2
<1>1. PICK batch : \E granted \in Grants(seen, batch) :
        LET updated == (Outdated(seen, batch) \ OutdatedReady(seen, batch)) \cup granted
        IN /\ run'.spec = spec /\ run'.list = seen
           /\ task' = [w \in Workers |-> IF w \in updated
                                         THEN FirstTask(seen[w], Expected(w, seen)) ELSE "done"]
  BY DEF Start
<1>2. PICK granted \in Grants(seen, batch) :
        LET updated == (Outdated(seen, batch) \ OutdatedReady(seen, batch)) \cup granted
        IN /\ run'.spec = spec /\ run'.list = seen
           /\ task' = [w \in Workers |-> IF w \in updated
                                         THEN FirstTask(seen[w], Expected(w, seen)) ELSE "done"]
  BY <1>1
<1> DEFINE updated == (Outdated(seen, batch) \ OutdatedReady(seen, batch)) \cup granted
<1>3. granted \subseteq OutdatedReady(seen, batch)
  BY DEF Grants
<1>4. ASSUME NEW w \in Workers
      PROVE  /\ task'[w] \in {"done", "create", "delete", "restart"}
             /\ task'[w] # "done" => w \in spec.expect /\ (w \in granted \/ ~Ready(seen[w]))
             /\ task'[w] = "create" => ~Exists(seen, w)
             /\ task'[w] \in {"delete", "restart"} => Exists(seen, w) /\ ~seen[w].deleting
             /\ task'[w] = "restart" => seen[w].v2
  <2>1. CASE w \in updated
    <3>1. task'[w] = FirstTask(seen[w], Expected(w, seen))
      BY <1>2, <2>1
    <3>2. w \in Outdated(seen, batch)
      BY <1>3, <2>1 DEF OutdatedReady
    <3>3. \/ Recreates(spec.onDelete, seen[w], Expected(w, seen))
          \/ SmoothRestarts(spec.onDelete, seen[w], Expected(w, seen))
      BY <3>2 DEF Outdated
    <3>4. w \in spec.expect /\ (w \in granted \/ ~Ready(seen[w]))
      BY <3>2, <2>1 DEF Outdated, OutdatedReady
    <3>5. CASE seen[w] = NoPod
      BY <3>1, <3>4, <3>5 DEF FirstTask, Exists
    <3>6. CASE seen[w] # NoPod /\ Recreates(spec.onDelete, seen[w], Expected(w, seen))
      BY <3>1, <3>4, <3>6 DEF FirstTask, Exists, Recreates
    <3>7. CASE seen[w] # NoPod /\ ~Recreates(spec.onDelete, seen[w], Expected(w, seen))
      BY <3>1, <3>3, <3>4, <3>7 DEF FirstTask, Exists, SmoothRestarts
    <3> QED BY <3>5, <3>6, <3>7
  <2>2. CASE w \notin updated
    BY <1>2, <2>2
  <2> QED BY <2>1, <2>2
<1> QED BY <1>2, <1>4 DEF Start

\* The end of a pass, whichever way it comes about.
LEMMA PassEnds ==
  ASSUME TypeInv, PatchStatus \/ PatchStatusFails \/ Crash
  PROVE  /\ pc' = "idle" /\ todo' = {} /\ (\A w \in Workers : task'[w] = "done") /\ task' = AllDone
         /\ UNCHANGED <<now, spec, pods, dirty>>
         /\ \/ UNCHANGED seen /\ task = AllDone /\ faults' \in {faults, faults + 1}
            \/ seen' = pods /\ faults' = faults + 1 /\ "crash" \in FaultKinds
BY DEF PatchStatus, PatchStatusFails, Crash, PassDone, EndPass, AllDone, Fault, cgVars, statsVars

\* What the outside does to the pod of a worker.
Happens(w) ==
  \/ /\ Exists(pods, w) /\ ~pods[w].deleting /\ UNCHANGED faults
     /\ pods'[w] = [pods[w] EXCEPT !.health = "ready", !.startAt = now]
  \/ pods[w].deleting /\ pods'[w] = NoPod /\ UNCHANGED <<dirty, faults>>
  \/ /\ Ready(pods[w]) /\ faults' = faults + 1 /\ UNCHANGED dirty
     /\ \E h \in Health : pods'[w] = [pods[w] EXCEPT !.health = h]
  \/ /\ "delete" \in FaultKinds /\ ~pods[w].deleting /\ Marks(w)
     /\ faults' = faults + 1 /\ UNCHANGED dirty

LEMMA PodHappens ==
  ASSUME TypeInv, NEW w \in Workers, PodReady(w) \/ PodGone(w) \/ PodFails(w) \/ PodDeleted(w)
  PROVE  /\ Happens(w)
         /\ \A v \in Workers \ {w} : pods'[v] = pods[v]
         /\ dirty' \in {dirty, dirty \cup {w}}
         /\ UNCHANGED <<now, spec, seen, pc, run, task, todo>>
<1> USE DEF Outside, passVars, cgVars, statsVars
<1>1. pods \in [Workers -> Pod \cup {NoPod}]
  BY DEF TypeInv, TypeOK, PodList
<1>2. ASSUME NEW p, SetPod(w, p)
      PROVE  pods'[w] = p /\ \A v \in Workers \ {w} : pods'[v] = pods[v]
  BY <1>1, <1>2 DEF SetPod
<1>3. CASE PodReady(w)
  BY <1>2, <1>3 DEF PodReady, Happens
<1>4. CASE PodGone(w)
  BY <1>2, <1>4 DEF PodGone, Happens
<1>5. CASE PodFails(w)
  <2>1. PICK h \in Health : SetPod(w, [pods[w] EXCEPT !.health = h])
    BY <1>5 DEF PodFails, Health
  <2> QED BY <2>1, <1>2, <1>5 DEF PodFails, Fault, Happens
<1>6. CASE PodDeleted(w)
  BY <1>2, <1>6 DEF PodDeleted, Fault, Happens, Marks
<1> QED BY <1>3, <1>4, <1>5, <1>6

\* What a call leaves of the pod of a worker: none is lost, only a creation adds one, and only a
\* deletion marks one.
LEMMA CalledPods ==
  ASSUME TypeInv, NEW w \in Workers, Calls(w)
  PROVE  /\ Exists(pods, w) => Exists(pods', w)
         /\ ~Exists(pods, w) /\ Exists(pods', w) =>
              /\ task[w] \in {"create", "recreate"} /\ task'[w] = "done"
              /\ ~pods'[w].deleting
         /\ pods[w].deleting => pods'[w].deleting
         /\ pods'[w].deleting /\ ~pods[w].deleting =>
              \/ task[w] = "delete" /\ task'[w] = "await"
              \/ task[w] = "remove" /\ task'[w] = "clean"
         /\ Exists(pods, w) /\ (task[w] = "patch" => pods[w].v2) => SamePod(pods'[w], pods[w])
<1>1. pods[w] # NoPod => pods[w] \in Pod
  BY ListedPod DEF TypeInv, TypeOK
<1>2. want[w] # NoPod => want[w] \in Pod
  BY ListedPod DEF TypeInv, TypeOK
<1>3. task[w] \in {"create", "recreate"} => want[w] # NoPod
  BY DEF TypeInv, Targets, Exists
<1>4. NoPod.deleting = FALSE
  BY DEF NoPod
<1>5. CASE Makes(w) /\ task[w] \in {"create", "recreate"} /\ task'[w] = "done"
  <2>1. Created(w) \in Pod /\ Created(w).deleting = FALSE
    BY <1>2, <1>3, <1>5 DEF Created, Pod, Health, TypeInv, TypeOK
  <2> QED BY <2>1, <1>4, <1>5, PodIsThere DEF Makes, Exists
<1>6. CASE /\ Marks(w)
           /\ \/ task[w] = "delete" /\ task'[w] = "await"
              \/ task[w] = "remove" /\ task'[w] = "clean"
  <2>1. pods'[w] \in Pod /\ pods'[w].deleting /\ SamePod(pods'[w], pods[w])
    BY <1>1, <1>6 DEF Marks, Exists, Pod, SamePod
  <2> QED BY <2>1, <1>6, PodIsThere DEF Exists, Marks
<1>7. CASE Spares(w)
  BY <1>7 DEF Spares, SamePod, Exists
<1>8. CASE Ready(pods[w]) /\ pods'[w] = [pods[w] EXCEPT !.startAt = now]
  <2>1. pods[w] \in Pod
    BY <1>1, <1>8 DEF Ready, NoPod
  <2>2. pods'[w] \in Pod /\ pods'[w].deleting = pods[w].deleting /\ SamePod(pods'[w], pods[w])
    BY <2>1, <1>8 DEF Pod, SamePod, TypeInv, TypeOK
  <2> QED BY <2>1, <2>2, PodIsThere DEF Exists
<1>9. CASE /\ task[w] = "patch" /\ Exists(pods, w)
           /\ pods'[w] = [pods[w] EXCEPT !.joinAt = want[w].joinAt, !.leaveAt = want[w].leaveAt]
  <2>1. pods[w] \in Pod /\ want[w] \in Pod
    BY <1>1, <1>2, <1>9 DEF TypeInv, Targets, Exists
  <2>2. /\ pods'[w] \in Pod /\ pods'[w].deleting = pods[w].deleting
        /\ pods'[w].gen = pods[w].gen /\ pods'[w].v2 = pods[w].v2
    BY <2>1, <1>9 DEF Pod
  <2> QED BY <2>1, <2>2, <1>9, PodIsThere DEF Exists, SamePod
<1>10. \/ Makes(w) /\ task[w] \in {"create", "recreate"} /\ task'[w] = "done"
       \/ /\ Marks(w)
          /\ \/ task[w] = "delete" /\ task'[w] = "await"
             \/ task[w] = "remove" /\ task'[w] = "clean"
       \/ Spares(w)
       \/ Ready(pods[w]) /\ pods'[w] = [pods[w] EXCEPT !.startAt = now]
       \/ /\ task[w] = "patch" /\ Exists(pods, w)
          /\ pods'[w] = [pods[w] EXCEPT !.joinAt = want[w].joinAt, !.leaveAt = want[w].leaveAt]
  BY DEF Calls
<1> QED BY <1>5, <1>6, <1>7, <1>8, <1>9, <1>10

\* What happens to the pod of a worker from outside: none appears, and only who deletes marks one.
LEMMA HappenedPods ==
  ASSUME TypeInv, NEW w \in Workers, Happens(w)
  PROVE  /\ Exists(pods', w) => Exists(pods, w) /\ SamePod(pods'[w], pods[w])
         /\ Exists(pods, w) /\ ~pods[w].deleting => Exists(pods', w)
         /\ Exists(pods', w) /\ pods[w].deleting => pods'[w].deleting
         /\ pods'[w].deleting /\ ~pods[w].deleting => "delete" \in FaultKinds /\ faults' = faults + 1
         /\ Exists(pods', w) /\ Ready(pods[w]) /\ ~Ready(pods'[w]) => faults' = faults + 1
<1>1. pods[w] # NoPod => pods[w] \in Pod
  BY ListedPod DEF TypeInv, TypeOK
<1>2. NoPod.deleting = FALSE /\ ~Ready(NoPod)
  BY DEF NoPod, Ready
<1>3. CASE Exists(pods, w) /\ ~pods[w].deleting /\ pods'[w] = [pods[w] EXCEPT !.health = "ready", !.startAt = now]
  <2>1. pods'[w] \in Pod /\ ~pods'[w].deleting /\ Ready(pods'[w]) /\ SamePod(pods'[w], pods[w])
    BY <1>1, <1>3 DEF Exists, Pod, Health, SamePod, Ready, TypeInv, TypeOK
  <2> QED BY <2>1, <1>3, PodIsThere DEF Exists
<1>4. CASE pods[w].deleting /\ pods'[w] = NoPod
  BY <1>2, <1>4 DEF Exists
<1>5. CASE Ready(pods[w]) /\ faults' = faults + 1 /\ \E h \in Health : pods'[w] = [pods[w] EXCEPT !.health = h]
  <2>1. pods[w] \in Pod
    BY <1>1, <1>2, <1>5
  <2>2. pods'[w] \in Pod /\ pods'[w].deleting = pods[w].deleting /\ SamePod(pods'[w], pods[w])
    BY <2>1, <1>5 DEF Pod, SamePod
  <2> QED BY <2>1, <2>2, <1>5, PodIsThere DEF Exists
<1>6. CASE "delete" \in FaultKinds /\ ~pods[w].deleting /\ Marks(w) /\ faults' = faults + 1
  <2>1. pods'[w] \in Pod /\ pods'[w].deleting /\ SamePod(pods'[w], pods[w]) /\ pods'[w].health = pods[w].health
    BY <1>1, <1>6 DEF Marks, Exists, Pod, SamePod
  <2> QED BY <2>1, <1>6, PodIsThere DEF Exists, Marks, Ready
<1> QED BY <1>3, <1>4, <1>5, <1>6 DEF Happens

\* A pod recedes as one: two pods that are the same stay the same.
LEMMA SamePodRecedes ==
  ASSUME NEW L \in PodList, NEW M \in PodList, NEW w \in Workers
  PROVE  /\ BackPods(L)[w].v2 = L[w].v2
         /\ SamePod(L[w], M[w]) => SamePod(BackPods(L)[w], BackPods(M)[w])
<1>1. BackPods(L)[w] = BackPod(L[w]) /\ BackPods(M)[w] = BackPod(M[w])
  BY DEF BackPods
<1>2. ASSUME NEW p \in Pod \cup {NoPod}
      PROVE  /\ BackPod(p).gen = p.gen /\ BackPod(p).v2 = p.v2
             /\ BackPod(p).joinAt = Back(p.joinAt) /\ BackPod(p).leaveAt = Back(p.leaveAt)
  <2>1. CASE p \in Pod
    BY <2>1, PodIsThere DEF BackPod, Pod
  <2>2. CASE p = NoPod
    BY <2>2 DEF BackPod, NoPod, Back, Never
  <2> QED BY <2>1, <2>2
<1>3. L[w] \in Pod \cup {NoPod} /\ M[w] \in Pod \cup {NoPod}
  BY DEF PodList
<1> QED BY <1>1, <1>2, <1>3 DEF SamePod

\* What a tick leaves as it is: everything but the times.
LEMMA TickKeeps ==
  ASSUME TypeInv, Tick
  PROVE  /\ UNCHANGED <<spec, dirty, pc, task, todo, faults>> /\ run'.spec = run.spec
         /\ \A w \in Workers :
              /\ Exists(pods', w) <=> Exists(pods, w)
              /\ Exists(seen', w) <=> Exists(seen, w)
              /\ Exists(run'.list, w) <=> Exists(run.list, w)
              /\ Ready(pods'[w]) <=> Ready(pods[w])
              /\ pods'[w].deleting = pods[w].deleting /\ seen'[w].deleting = seen[w].deleting
              /\ run'.list[w].deleting = run.list[w].deleting
              /\ run'.list[w].v2 = run.list[w].v2
              /\ SamePod(pods[w], seen[w]) => SamePod(pods'[w], seen'[w])
              /\ SamePod(pods[w], run.list[w]) => SamePod(pods'[w], run'.list[w])
<1>1. UNCHANGED <<spec, dirty, pc, task, todo, faults>>
  BY DEF Tick, cgVars
<1>2. CASE UNCHANGED <<pods, seen, run>>
  BY <1>1, <1>2
<1>3. CASE Recede
  <2>1. /\ pods \in PodList /\ seen \in PodList
        /\ run \in [spec : Spec0, status : Status, list : PodList, stats : [Workers -> Sample]]
    BY DEF TypeInv, TypeOK
  <2>2. /\ pods' = BackPods(pods) /\ seen' = BackPods(seen)
        /\ run'.list = BackPods(run.list) /\ run'.spec = run.spec
    BY <2>1, <1>3 DEF Recede
  <2>3. run.list \in PodList
    BY <2>1
  <2> QED BY <1>1, <2>1, <2>2, <2>3, BackedPods, SamePodRecedes
<1> QED BY <1>2, <1>3 DEF Tick

----
(***************************************************************************)
(* The shape of a pass: which workers have which tasks when, and that the  *)
(* cache shows every pod the pass may yet delete, since it was listed and  *)
(* no other has been created meanwhile. So a worker is recreated only once *)
(* its pod is gone.                                                        *)
(***************************************************************************)
UpdateTasks == {"create", "delete", "await", "recreate", "restart", "patch"}

PassShape ==
  /\ pc = "idle" => task = AllDone /\ todo = {}
  /\ pc # "idle" => run.spec = spec
  /\ pc = "workers" => todo = {} /\ \A w \in Workers :
       task[w] # "done" => w \in spec.expect /\ task[w] \in UpdateTasks
  /\ pc = "remove" => \A w \in Workers :
       task[w] # "done" => w \notin spec.expect /\ w \notin todo /\ task[w] # "create"
  /\ \A w \in todo : w \notin spec.expect

\* Workers whose pod the pass may yet delete, or has deleted and waits for.
Visited(w) ==
  \/ task[w] \in {"delete", "await", "restart", "patch", "remove"}
  \/ w \in todo
  \/ pc = "workers" /\ w \in Redundant(run.list, spec.expect)

CacheShowsVisited == \A w \in Workers : Visited(w) /\ Exists(pods, w) => Exists(seen, w)

RecreatedIsGone == \A w \in Workers : task[w] = "recreate" => ~Exists(pods, w)

PassInv == PassShape /\ CacheShowsVisited /\ RecreatedIsGone

LEMMA PassInit == Init => PassInv
BY DEF Init, PassInv, PassShape, CacheShowsVisited, RecreatedIsGone, Visited, AllDone

\* When a pass ends, or none runs, nothing is visited.
LEMMA RestVisits ==
  ASSUME pc = "idle", task = AllDone, todo = {}, NEW w \in Workers
  PROVE  ~Visited(w) /\ task[w] = "done"
BY DEF Visited, AllDone

\* A step of a worker visits only what was visited, and creates none of it.
LEMMA VisitedBefore ==
  ASSUME TypeInv, PassInv, NEW w \in Workers, WorkerStep(w) \/ AwaitTimeout(w) \/ ApiError(w),
         NEW v \in Workers, Visited(v)'
  PROVE  Visited(v) /\ (Exists(pods', v) => Exists(pods, v))
<1>1. /\ Calls(w) /\ UNCHANGED <<now, spec, seen, pc, run>> /\ todo' \subseteq todo
      /\ \A u \in Workers \ {w} : task'[u] = task[u] /\ pods'[u] = pods[u]
  BY WorkerCalls
<1>2. \/ Visited(v)
      \/ v = w /\ task[v] # "done" /\ task'[v] \in {"delete", "await", "restart", "patch", "remove"}
  BY <1>1 DEF Visited, Calls
<1>3. Visited(v)
  BY <1>1, <1>2 DEF Visited, Calls
<1>4. Exists(pods', v) => Exists(pods, v)
  <2>1. CASE v = w
    <3>1. task[w] \notin {"create", "recreate"} \/ task'[w] # "done"
      BY <1>1, <2>1 DEF Visited, PassInv, PassShape, Redundant, AllDone, TypeInv, TypeOK
    <3> QED BY <1>1, <2>1, <3>1, CalledPods
  <2>2. CASE v # w
    BY <1>1, <2>2 DEF Exists
  <2> QED BY <2>1, <2>2
<1> QED BY <1>3, <1>4

LEMMA PassInvWorker ==
  ASSUME TypeInv, PassInv, NEW w \in Workers, WorkerStep(w) \/ AwaitTimeout(w) \/ ApiError(w)
  PROVE  PassInv'
<1>1. /\ Calls(w) /\ UNCHANGED <<now, spec, seen, pc, run>> /\ todo' \subseteq todo
      /\ \A v \in Workers \ {w} : task'[v] = task[v] /\ pods'[v] = pods[v]
  BY WorkerCalls
<1>2. /\ Exists(pods, w) => Exists(pods', w)
      /\ ~Exists(pods, w) /\ Exists(pods', w) =>
           task[w] \in {"create", "recreate"} /\ task'[w] = "done"
  BY <1>1, CalledPods
<1>3. task[w] # "done" \/ (pc = "remove" /\ w \in todo)
  BY <1>1 DEF Calls
<1>4. PassShape'
  <2>1. pc # "idle"
    BY <1>3 DEF PassInv, PassShape, AllDone
  <2>2. ASSUME NEW v \in Workers, pc = "workers", task'[v] # "done"
        PROVE  v \in spec.expect /\ task'[v] \in UpdateTasks
    <3>1. CASE v = w
      BY <1>1, <1>3, <2>2, <3>1 DEF PassInv, PassShape, Calls, UpdateTasks
    <3>2. CASE v # w
      BY <1>1, <2>2, <3>2 DEF PassInv, PassShape
    <3> QED BY <3>1, <3>2
  <2>3. ASSUME NEW v \in Workers, pc = "remove", task'[v] # "done"
        PROVE  v \notin spec.expect /\ v \notin todo' /\ task'[v] # "create"
    <3>1. CASE v = w
      BY <1>1, <1>3, <2>3, <3>1 DEF PassInv, PassShape, Calls
    <3>2. CASE v # w
      BY <1>1, <2>3, <3>2 DEF PassInv, PassShape
    <3> QED BY <3>1, <3>2
  <2> QED BY <1>1, <2>1, <2>2, <2>3 DEF PassInv, PassShape
<1>5. ASSUME NEW v \in Workers, Visited(v)', Exists(pods', v)
      PROVE  Exists(seen', v)
  BY <1>1, <1>5, VisitedBefore DEF PassInv, CacheShowsVisited
<1>6. ASSUME NEW v \in Workers, task'[v] = "recreate"
      PROVE  ~Exists(pods', v)
  <2>1. CASE v = w
    <3>1. ~Exists(pods, w) /\ Spares(w)
      <4>1. task[w] = "await" /\ ~Exists(seen, w) => ~Exists(pods, w)
        BY DEF PassInv, CacheShowsVisited, Visited
      <4> QED BY <1>1, <1>6, <2>1, <4>1 DEF Calls
    <3> QED BY <3>1, <2>1 DEF Spares, Exists
  <2>2. CASE v # w
    BY <1>1, <1>6, <2>2 DEF PassInv, RecreatedIsGone, Exists
  <2> QED BY <2>1, <2>2
<1> QED BY <1>4, <1>5, <1>6 DEF PassInv, CacheShowsVisited, RecreatedIsGone

\* PassInv is inductive.
LEMMA PassStep == TypeInv /\ PassInv /\ [Next]_vars => PassInv'
<1> SUFFICES ASSUME TypeInv, PassInv, [Next]_vars PROVE PassInv'
  OBVIOUS
<1> USE DEF PassInv
<1>1. CASE Start
  <2>1. /\ pc' = "workers" /\ todo' = {} /\ run'.spec = spec /\ run'.list = seen
        /\ UNCHANGED <<spec, pods, seen>>
        /\ \A w \in Workers :
             /\ task'[w] \in {"done", "create", "delete", "restart"}
             /\ task'[w] # "done" => w \in spec.expect
             /\ task'[w] \in {"delete", "restart"} => Exists(seen, w)
    BY <1>1, StartCalls
  <2>2. PassShape'
    BY <2>1 DEF PassShape, UpdateTasks
  <2>3. CacheShowsVisited'
    BY <2>1 DEF CacheShowsVisited, Visited, Redundant
  <2>4. RecreatedIsGone'
    BY <2>1 DEF RecreatedIsGone
  <2> QED BY <2>2, <2>3, <2>4
<1>2. CASE StartRemoval
  <2>1. /\ UNCHANGED <<spec, pods, seen, run, task>> /\ task = AllDone
        /\ pc = "workers" /\ pc' = "remove" /\ todo' = Redundant(run.list, run.spec.expect)
    BY <1>2 DEF StartRemoval, cgVars
  <2>2. run.spec = spec
    BY <2>1 DEF PassShape
  <2>3. PassShape'
    BY <2>1, <2>2 DEF PassShape, AllDone, Redundant
  <2>4. CacheShowsVisited'
    BY <2>1, <2>2 DEF CacheShowsVisited, Visited, AllDone
  <2>5. RecreatedIsGone'
    BY <2>1 DEF RecreatedIsGone, AllDone
  <2> QED BY <2>3, <2>4, <2>5
<1>3. CASE PatchStatus \/ PatchStatusFails \/ Crash
  <2>1. pc' = "idle" /\ todo' = {} /\ task' = AllDone
    BY <1>3, PassEnds
  <2> QED BY <2>1 DEF PassShape, CacheShowsVisited, RecreatedIsGone, Visited, AllDone
<1>4. CASE EditSpec
  <2>1. pc = "idle" /\ task = AllDone /\ todo = {} /\ UNCHANGED <<pods, seen, pc, task, todo>>
    BY <1>4 DEF EditSpec, Outside, passVars, PassShape
  <2> QED BY <2>1 DEF PassShape, CacheShowsVisited, RecreatedIsGone, Visited, AllDone
<1>5. CASE Observe
  <2>1. seen' = pods /\ UNCHANGED <<spec, pods, pc, run, task, todo>>
    BY <1>5 DEF Observe, Outside, passVars, cgVars
  <2> QED BY <2>1 DEF PassShape, CacheShowsVisited, RecreatedIsGone
<1>6. CASE CollectStats \/ UNCHANGED vars
  <2>1. UNCHANGED <<spec, pods, seen, pc, run, task, todo>>
    BY <1>6 DEF CollectStats, vars, passVars, cgVars
  <2> QED BY <2>1 DEF PassShape, CacheShowsVisited, RecreatedIsGone, Visited
<1>7. CASE Tick
  <2>1. /\ UNCHANGED <<spec, pc, task, todo>> /\ run'.spec = run.spec
        /\ \A w \in Workers :
             /\ Exists(pods', w) <=> Exists(pods, w)
             /\ Exists(seen', w) <=> Exists(seen, w)
             /\ Exists(run'.list, w) <=> Exists(run.list, w)
             /\ run'.list[w].deleting = run.list[w].deleting
    BY <1>7, TickKeeps
  <2>2. PassShape' /\ RecreatedIsGone'
    BY <2>1 DEF PassShape, RecreatedIsGone
  <2>3. \A w \in Workers : Visited(w)' => Visited(w)
    BY <2>1 DEF Visited, Redundant
  <2> QED BY <2>1, <2>2, <2>3 DEF CacheShowsVisited
<1>8. ASSUME NEW w \in Workers, PodReady(w) \/ PodGone(w) \/ PodFails(w) \/ PodDeleted(w)
      PROVE  PassInv'
  <2>1. /\ Happens(w) /\ UNCHANGED <<spec, seen, pc, run, task, todo>>
        /\ \A v \in Workers \ {w} : pods'[v] = pods[v]
    BY <1>8, PodHappens
  <2>2. \A v \in Workers : Exists(pods', v) => Exists(pods, v)
    BY <2>1, HappenedPods DEF Exists
  <2>3. PassShape' /\ RecreatedIsGone'
    BY <2>1, <2>2 DEF PassShape, RecreatedIsGone
  <2>4. CacheShowsVisited'
    BY <2>1, <2>2 DEF CacheShowsVisited, Visited
  <2> QED BY <2>3, <2>4
<1> QED BY <1>1, <1>2, <1>3, <1>4, <1>5, <1>6, <1>7, <1>8, PassInvWorker DEF Next

----
(***************************************************************************)
(* Cleaned caches.                                                         *)
(***************************************************************************)

\* Without faults whoever holds cache runs, or has a task that ends with it running or clean.
CacheIsLookedAfter ==
  CleanCache /\ faults = 0 =>
    \A w \in dirty : \/ Exists(pods, w) /\ ~pods[w].deleting
                     \/ task[w] \in {"await", "recreate", "clean"}

LEMMA LookedAfterInit == Init => CacheIsLookedAfter
<1> SUFFICES ASSUME Init, NEW w \in dirty
             PROVE  Exists(pods, w) /\ ~pods[w].deleting
  BY DEF CacheIsLookedAfter
<1>1. w \in InitWorkers /\ w \in Workers
  BY EnvironmentAssumption DEF Init, EnvironmentAssumption
<1>2. pods[w] = [gen |-> 1, v2 |-> InitV2, health |-> "ready", deleting |-> FALSE,
                 joinAt |-> Never, leaveAt |-> Never, startAt |-> 0]
  BY <1>1 DEF Init, InitPods
<1> QED BY <1>2 DEF Exists, NoPod

LEMMA LookedAfterStep ==
  TypeInv /\ PassInv /\ CacheIsLookedAfter /\ [Next]_vars => CacheIsLookedAfter'
<1> SUFFICES ASSUME TypeInv, PassInv, CacheIsLookedAfter, [Next]_vars, CleanCache, faults' = 0,
                    NEW v \in dirty'
             PROVE  \/ Exists(pods', v) /\ ~pods'[v].deleting
                    \/ task'[v] \in {"await", "recreate", "clean"}
  BY DEF CacheIsLookedAfter
<1> DEFINE Held == \/ Exists(pods, v) /\ ~pods[v].deleting
                   \/ task[v] \in {"await", "recreate", "clean"}
<1>1. faults \in Nat /\ dirty \subseteq Workers /\ dirty' \subseteq Workers
  BY TypeStep DEF TypeInv, TypeOK
<1>2. faults = 0 /\ v \in dirty => Held
  BY DEF CacheIsLookedAfter
<1>3. CASE Start
  <2>1. UNCHANGED <<pods, dirty, faults>> /\ task = AllDone
    BY <1>3, StartCalls DEF Start, PassInv, PassShape
  <2> QED BY <1>1, <1>2, <2>1 DEF AllDone, Exists
<1>4. CASE PatchStatus \/ PatchStatusFails \/ Crash
  <2>1. UNCHANGED <<pods, dirty>> /\ faults' \in {faults, faults + 1} /\ (faults' = faults => task = AllDone)
    BY <1>1, <1>4, PassEnds
  <2> QED BY <1>1, <1>2, <2>1 DEF AllDone, Exists
<1>5. CASE StartRemoval \/ CollectStats \/ Observe \/ EditSpec \/ UNCHANGED vars
  <2>1. UNCHANGED <<pods, dirty, task>> /\ faults' \in {faults, faults + 1}
    BY <1>5 DEF StartRemoval, CollectStats, Observe, EditSpec, Fault, vars, passVars, cgVars, Outside
  <2> QED BY <1>1, <1>2, <2>1 DEF Exists
<1>6. CASE Tick
  <2>1. UNCHANGED <<dirty, task, faults>>
    BY <1>6, TickKeeps
  <2>2. (Exists(pods', v) <=> Exists(pods, v)) /\ pods'[v].deleting = pods[v].deleting
    BY <1>1, <1>6, TickKeeps
  <2> QED BY <1>2, <2>1, <2>2
<1>7. ASSUME NEW w \in Workers, PodReady(w) \/ PodGone(w) \/ PodFails(w) \/ PodDeleted(w)
      PROVE  \/ Exists(pods', v) /\ ~pods'[v].deleting
             \/ task'[v] \in {"await", "recreate", "clean"}
  <2>1. /\ Happens(w) /\ UNCHANGED task /\ dirty' \in {dirty, dirty \cup {w}}
        /\ \A u \in Workers \ {w} : pods'[u] = pods[u]
    BY <1>7, PodHappens
  <2>2. faults = 0
    BY <1>1, <2>1 DEF Happens
  <2>3. CASE v # w
    BY <1>1, <1>2, <2>1, <2>2, <2>3 DEF Exists
  <2>4. CASE v = w
    <3>1. /\ Exists(pods, w) /\ ~pods[w].deleting => Exists(pods', w) /\ ~pods'[w].deleting
      BY <1>1, <2>1, <2>2, HappenedPods
    <3>2. v \in dirty \/ (Exists(pods, w) /\ ~pods[w].deleting)
      BY <2>1, <2>4 DEF Happens, Marks
    <3> QED BY <1>2, <2>1, <2>2, <2>4, <3>1, <3>2
  <2> QED BY <2>3, <2>4
<1>8. ASSUME NEW w \in Workers, WorkerStep(w) \/ AwaitTimeout(w) \/ ApiError(w)
      PROVE  \/ Exists(pods', v) /\ ~pods'[v].deleting
             \/ task'[v] \in {"await", "recreate", "clean"}
  <2>1. /\ Calls(w) /\ faults' \in {faults, faults + 1} /\ dirty' \subseteq dirty
        /\ \A u \in Workers \ {w} : task'[u] = task[u] /\ pods'[u] = pods[u]
    BY <1>8, WorkerCalls
  <2>2. faults = 0 /\ faults' = faults /\ v \in dirty /\ Held
    BY <1>1, <1>2, <2>1
  <2>3. CASE v # w
    BY <1>1, <2>1, <2>2, <2>3 DEF Exists
  <2>4. CASE v = w
    <3>1. \/ task'[w] \in {"await", "recreate", "clean"}
          \/ task[w] \notin {"await", "recreate", "clean"}
          \/ task[w] = "recreate" /\ task'[w] = "done" /\ (Makes(w) \/ (Exists(pods, w) /\ Spares(w)))
      BY <1>1, <2>1, <2>2, <2>4 DEF Calls
    <3>2. CASE task'[w] \in {"await", "recreate", "clean"}
      BY <2>4, <3>2
    <3>3. CASE task[w] \notin {"await", "recreate", "clean"} /\ task'[w] \notin {"await", "recreate", "clean"}
      <4>1. Exists(pods, w) /\ ~pods[w].deleting
        BY <2>2, <2>4, <3>3
      <4> QED BY <2>1, <2>4, <3>3, <4>1, CalledPods
    <3>4. CASE task[w] = "recreate" /\ task'[w] = "done" /\ (Makes(w) \/ (Exists(pods, w) /\ Spares(w)))
      <4>1. ~Exists(pods, w)
        BY <3>4 DEF PassInv, RecreatedIsGone
      <4>2. Exists(pods', w)
        <5>1. Created(w) \in Pod
          BY <3>4, ListedPod, PodChanges DEF Created, TypeInv, TypeOK, Targets, Exists
        <5> QED BY <3>4, <4>1, <5>1, PodIsThere DEF Makes, Exists
      <4> QED BY <2>1, <2>4, <4>1, <4>2, CalledPods
    <3> QED BY <3>1, <3>2, <3>3, <3>4
  <2> QED BY <2>3, <2>4
<1> QED BY <1>3, <1>4, <1>5, <1>6, <1>7, <1>8 DEF Next

(***************************************************************************)
(* With spec.cleanCache, as long as nothing goes wrong, a group at rest    *)
(* has left no cache on a node it no longer uses, whatever edits, updates, *)
(* departures and returns of workers have crossed before.                  *)
(***************************************************************************)
THEOREM NoCacheLeft == Spec => []CacheNotLeftBehind
<1> DEFINE Inv == TypeInv /\ PassInv /\ CacheIsLookedAfter
<1>1. Init => Inv
  BY InitTypeInv, PassInit, LookedAfterInit
<1>2. Inv /\ [Next]_vars => Inv'
  BY TypeStep, PassStep, LookedAfterStep
<1>3. Inv => CacheNotLeftBehind
  BY DEF CacheNotLeftBehind, CacheIsLookedAfter, PassInv, PassShape, AllDone, TypeInv, TypeOK
<1> QED BY <1>1, <1>2, <1>3, PTL DEF Spec

----
(***************************************************************************)
(* Deletions by name.                                                      *)
(***************************************************************************)

\* A pod that the pass may yet delete is the one it listed; a worker it restarts is a v2 worker.
ListedIsThere ==
  \A w \in Workers :
    Visited(w) /\ Exists(pods, w) /\ ~pods[w].deleting => SamePod(pods[w], run.list[w])

RestartsV2 == \A w \in Workers : task[w] \in {"restart", "patch"} => run.list[w].v2

ListedInv == ListedIsThere /\ RestartsV2

\* The cache shows no pod in the place of another that serves.
SeenIsThere ==
  \A w \in Workers :
    Exists(pods, w) /\ ~pods[w].deleting /\ Exists(seen, w) => SamePod(pods[w], seen[w])

LEMMA SamePodTransitive ==
  ASSUME NEW p, NEW q, NEW r, SamePod(p, q), SamePod(q, r) PROVE SamePod(p, r)
BY DEF SamePod

LEMMA ListedInit == Init => ListedInv
BY DEF Init, ListedInv, ListedIsThere, RestartsV2, Visited, AllDone

LEMMA ListedWorker ==
  ASSUME TypeInv, PassInv, ListedInv, NEW w \in Workers,
         WorkerStep(w) \/ AwaitTimeout(w) \/ ApiError(w)
  PROVE  ListedInv'
<1>1. /\ Calls(w) /\ UNCHANGED <<now, spec, seen, pc, run>> /\ todo' \subseteq todo
      /\ \A u \in Workers \ {w} : task'[u] = task[u] /\ pods'[u] = pods[u]
  BY WorkerCalls
<1>2. ASSUME NEW v \in Workers, Visited(v)', Exists(pods', v), ~pods'[v].deleting
      PROVE  SamePod(pods'[v], run'.list[v])
  <2>1. Visited(v) /\ Exists(pods, v)
    BY <1>2, VisitedBefore
  <2>2. CASE v # w
    BY <1>1, <1>2, <2>1, <2>2 DEF ListedInv, ListedIsThere
  <2>3. CASE v = w
    <3>1. SamePod(pods[w], run.list[w])
      BY <1>1, <1>2, <2>1, <2>3, CalledPods DEF ListedInv, ListedIsThere
    <3>2. task[w] = "patch" => pods[w].v2
      BY <3>1 DEF ListedInv, RestartsV2, SamePod
    <3>3. SamePod(pods'[w], pods[w])
      BY <1>1, <2>1, <2>3, <3>2, CalledPods
    <3> QED BY <1>1, <2>3, <3>1, <3>3, SamePodTransitive
  <2> QED BY <2>2, <2>3
<1>3. ASSUME NEW v \in Workers, task'[v] \in {"restart", "patch"}
      PROVE  run'.list[v].v2
  BY <1>1, <1>3 DEF Calls, ListedInv, RestartsV2
<1> QED BY <1>2, <1>3 DEF ListedInv, ListedIsThere, RestartsV2

LEMMA ListedStep ==
  ASSUME TypeInv, PassInv, ListedInv, [Next]_vars, Start => SeenIsThere
  PROVE  ListedInv'
<1> USE DEF ListedInv
<1>1. CASE Start
  <2>1. /\ todo' = {} /\ run'.list = seen /\ UNCHANGED <<spec, pods, seen>>
        /\ \A w \in Workers :
             /\ task'[w] \in {"done", "create", "delete", "restart"}
             /\ task'[w] \in {"delete", "restart"} => Exists(seen, w)
             /\ task'[w] = "restart" => seen[w].v2
    BY <1>1, StartCalls
  <2>2. ListedIsThere'
    BY <1>1, <2>1 DEF ListedIsThere, SeenIsThere, Visited, Redundant, Exists
  <2> QED BY <2>1, <2>2 DEF RestartsV2
<1>2. CASE StartRemoval
  <2>1. /\ UNCHANGED <<spec, pods, run, task>> /\ task = AllDone
        /\ pc = "workers" /\ pc' = "remove" /\ todo' = Redundant(run.list, run.spec.expect)
        /\ run.spec = spec
    BY <1>2 DEF StartRemoval, cgVars, PassInv, PassShape
  <2>2. \A w \in Workers : Visited(w)' => Visited(w)
    BY <2>1 DEF Visited, AllDone
  <2> QED BY <2>1, <2>2 DEF ListedIsThere, RestartsV2, AllDone
<1>3. CASE PatchStatus \/ PatchStatusFails \/ Crash
  <2>1. pc' = "idle" /\ todo' = {} /\ task' = AllDone
    BY <1>3, PassEnds
  <2> QED BY <2>1 DEF ListedIsThere, RestartsV2, Visited, AllDone
<1>4. CASE EditSpec
  <2>1. pc = "idle" /\ task = AllDone /\ todo = {} /\ UNCHANGED <<pc, task, todo>>
    BY <1>4 DEF EditSpec, Outside, passVars, PassInv, PassShape
  <2> QED BY <2>1 DEF ListedIsThere, RestartsV2, Visited, AllDone
<1>5. CASE Observe \/ CollectStats \/ UNCHANGED vars
  <2>1. UNCHANGED <<spec, pods, pc, run, task, todo>>
    BY <1>5 DEF Observe, CollectStats, vars, Outside, passVars, cgVars
  <2> QED BY <2>1 DEF ListedIsThere, RestartsV2, Visited
<1>6. CASE Tick
  <2>1. /\ UNCHANGED <<spec, pc, task, todo>>
        /\ \A w \in Workers :
             /\ Exists(pods', w) <=> Exists(pods, w)
             /\ Exists(run'.list, w) <=> Exists(run.list, w)
             /\ pods'[w].deleting = pods[w].deleting
             /\ run'.list[w].deleting = run.list[w].deleting
             /\ run'.list[w].v2 = run.list[w].v2
             /\ SamePod(pods[w], run.list[w]) => SamePod(pods'[w], run'.list[w])
    BY <1>6, TickKeeps
  <2>2. \A w \in Workers : Visited(w)' => Visited(w)
    BY <2>1 DEF Visited, Redundant
  <2> QED BY <2>1, <2>2 DEF ListedIsThere, RestartsV2
<1>7. ASSUME NEW w \in Workers, PodReady(w) \/ PodGone(w) \/ PodFails(w) \/ PodDeleted(w)
      PROVE  ListedInv'
  <2>1. /\ Happens(w) /\ UNCHANGED <<spec, seen, pc, run, task, todo>>
        /\ \A v \in Workers \ {w} : pods'[v] = pods[v]
    BY <1>7, PodHappens
  <2>2. ASSUME NEW v \in Workers, Exists(pods', v), ~pods'[v].deleting
        PROVE  Exists(pods, v) /\ ~pods[v].deleting /\ SamePod(pods'[v], pods[v])
    BY <2>1, <2>2, HappenedPods DEF Exists, SamePod
  <2>3. ListedIsThere'
    BY <2>1, <2>2, SamePodTransitive DEF ListedIsThere, Visited
  <2> QED BY <2>1, <2>3 DEF RestartsV2
<1> QED BY <1>1, <1>2, <1>3, <1>4, <1>5, <1>6, <1>7, ListedWorker DEF Next

\* A pod appears only by a creation.
LEMMA Creations ==
  ASSUME TypeInv, [Next]_vars, NEW w \in Workers, ~Exists(pods, w), Exists(pods', w)
  PROVE  task[w] \in {"create", "recreate"} /\ pods'[w] = Created(w)
<1>1. CASE UNCHANGED pods
  BY <1>1 DEF Exists
<1>2. CASE Tick
  BY <1>2, TickKeeps
<1>3. ASSUME NEW v \in Workers, PodReady(v) \/ PodGone(v) \/ PodFails(v) \/ PodDeleted(v)
      PROVE  FALSE
  BY <1>3, PodHappens, HappenedPods DEF Exists
<1>4. ASSUME NEW v \in Workers, WorkerStep(v) \/ AwaitTimeout(v) \/ ApiError(v)
      PROVE  task[w] \in {"create", "recreate"} /\ pods'[w] = Created(w)
  <2>1. Calls(v) /\ \A u \in Workers \ {v} : pods'[u] = pods[u]
    BY <1>4, WorkerCalls
  <2>2. Calls(w) /\ ~Spares(w) /\ ~Marks(w) /\ ~Ready(pods[w])
    BY <2>1 DEF Exists, Spares, Marks, Ready, NoPod
  <2> QED BY <2>2 DEF Calls, Makes
<1>5. CASE Start \/ StartRemoval \/ PatchStatus \/ PatchStatusFails \/ Crash
           \/ CollectStats \/ Observe \/ EditSpec \/ UNCHANGED vars
  BY <1>1, <1>5
  DEF Start, StartRemoval, PatchStatus, PatchStatusFails, Crash, CollectStats, Observe, EditSpec, vars
<1> QED BY <1>2, <1>3, <1>4, <1>5 DEF Next

\* What a pass deletes is what it listed.
LEMMA ListedDeleted ==
  ASSUME TypeInv, PassInv, ListedInv, [Next]_vars, NEW w \in Workers,
         task[w] \in {"delete", "remove"}, pods'[w] # pods[w], ~pods[w].deleting
  PROVE  SamePod(pods[w], run.list[w])
<1>1. Exists(pods, w)
  BY Creations DEF Exists
<1> QED BY <1>1 DEF ListedInv, ListedIsThere, Visited

(***************************************************************************)
(* With lists that are up to date a pass deletes what it listed, however   *)
(* long it takes, whatever the user edits and whatever goes wrong.         *)
(***************************************************************************)
THEOREM FreshDeletes == ASSUME FreshLists PROVE Spec => DeletesWhatItListed
<1> DEFINE Inv == TypeInv /\ PassInv /\ ListedInv
<1>1. Init => Inv
  BY InitTypeInv, PassInit, ListedInit
<1>2. Inv /\ [Next]_vars => Inv'
  <2>1. Start => SeenIsThere
    BY FreshLists DEF Start, SeenIsThere, SamePod
  <2> QED BY <2>1, TypeStep, PassStep, ListedStep
<1>3. Inv /\ [Next]_vars =>
        [\A w \in Workers :
           task[w] \in {"delete", "remove"} /\ pods'[w] # pods[w] /\ ~pods[w].deleting
             => SamePod(pods[w], run.list[w])]_vars
  BY ListedDeleted
<1> QED BY <1>1, <1>2, <1>3, PTL DEF Spec, DeletesWhatItListed

(***************************************************************************)
(* With lists that lag: while no worker is removed and no one else deletes *)
(* any, a pod that is gone has been deleted by a pass, which waits until   *)
(* the cache shows it before it creates the next.                          *)
(***************************************************************************)
Waited(w) ==
  /\ Exists(pods, w) \/ Exists(seen, w) \/ Exists(run.list, w) => w \in spec.expect
  /\ Exists(seen, w) /\ ~Exists(pods, w) => task[w] = "await" \/ seen[w].deleting
  /\ pods[w].deleting => Exists(seen, w) /\ (task[w] = "await" \/ seen[w].deleting)
  /\ task[w] = "create" => ~pods[w].deleting /\ (Exists(pods, w) \/ ~Exists(seen, w))
  /\ task[w] \in {"delete", "restart", "patch"} => Exists(pods, w) /\ ~pods[w].deleting
  /\ task[w] = "recreate" => ~Exists(seen, w)
  /\ Exists(pods, w) /\ ~pods[w].deleting /\ Exists(seen, w) => SamePod(pods[w], seen[w])

WaitedInv == pc # "remove" /\ \A w \in Workers : Waited(w)

LEMMA WaitedInit == Init => WaitedInv
<1> SUFFICES ASSUME Init, NEW w \in Workers PROVE Waited(w)
  BY DEF WaitedInv, Init
<1>1. CASE w \in InitWorkers
  BY <1>1 DEF Init, Waited, InitPods, InitSpec, AllDone, NoRun, NoPods, NoPod, Exists, SamePod
<1>2. CASE w \notin InitWorkers
  BY <1>2 DEF Init, Waited, InitPods, AllDone, NoRun, NoPods, NoPod, Exists, SamePod
<1> QED BY <1>1, <1>2

LEMMA WaitedWorker ==
  ASSUME TypeInv, PassInv, ListedInv, WaitedInv, NEW w \in Workers,
         WorkerStep(w) \/ AwaitTimeout(w) \/ ApiError(w)
  PROVE  WaitedInv'
<1>1. /\ Calls(w) /\ UNCHANGED <<now, spec, seen, pc, run>>
      /\ \A u \in Workers \ {w} : task'[u] = task[u] /\ pods'[u] = pods[u]
  BY WorkerCalls
<1>2. \A u \in Workers \ {w} : Waited(u)'
  BY <1>1 DEF WaitedInv, Waited, Exists
<1>3. pc = "workers" /\ w \in spec.expect /\ task[w] \in UpdateTasks
  BY <1>1 DEF Calls, PassInv, PassShape, WaitedInv, AllDone, TypeInv, TypeOK
<1>4. Waited(w)
  BY DEF WaitedInv
<1>5. /\ Exists(pods, w) => Exists(pods', w)
      /\ ~Exists(pods, w) /\ Exists(pods', w) => ~pods'[w].deleting
      /\ pods[w].deleting => pods'[w].deleting
      /\ pods'[w].deleting /\ ~pods[w].deleting => task[w] = "delete" /\ task'[w] = "await"
      /\ Exists(pods, w) /\ (task[w] = "patch" => pods[w].v2) => SamePod(pods'[w], pods[w])
  BY <1>1, <1>3, CalledPods DEF UpdateTasks
<1>6. task[w] = "patch" => pods[w].v2
  BY <1>4 DEF ListedInv, ListedIsThere, RestartsV2, Visited, Waited, SamePod
<1>7. Exists(pods', w) /\ ~pods'[w].deleting /\ Exists(seen, w) => SamePod(pods'[w], seen[w])
  <2>1. CASE Exists(pods, w)
    BY <1>4, <1>5, <1>6, <2>1, SamePodTransitive DEF Waited
  <2>2. CASE ~Exists(pods, w) /\ Exists(pods', w)
    BY <1>1, <1>4, <2>2, CalledPods DEF Waited
  <2> QED BY <2>1, <2>2
<1>8. Waited(w)'
  <2>1. CASE task[w] = "create" /\ task'[w] = "done"
    BY <1>1, <1>3, <1>4, <1>5, <1>7, <2>1 DEF Waited
  <2>2. CASE task[w] = "delete" /\ task'[w] = "await" /\ Marks(w)
    <3>1. Exists(seen, w)
      BY <2>2 DEF Marks, PassInv, CacheShowsVisited, Visited
    <3> QED BY <1>1, <1>3, <1>4, <1>5, <1>7, <2>2, <3>1 DEF Waited
  <2> QED BY <1>1, <1>3, <1>4, <1>5, <1>7, <2>1, <2>2 DEF Waited, Calls, UpdateTasks
<1> QED BY <1>1, <1>2, <1>8, <1>3 DEF WaitedInv

LEMMA WaitedStep ==
  ASSUME TypeInv, PassInv, ListedInv, WaitedInv, [Next]_vars, "delete" \notin FaultKinds,
         spec.expect \subseteq spec'.expect
  PROVE  WaitedInv'
<1>1. CASE Start
  <2>1. /\ pc' = "workers" /\ run'.list = seen /\ UNCHANGED <<spec, pods, seen>> /\ task = AllDone
        /\ \A w \in Workers :
             /\ task'[w] \in {"done", "create", "delete", "restart"}
             /\ task'[w] = "create" => ~Exists(seen, w)
             /\ task'[w] \in {"delete", "restart"} => Exists(seen, w) /\ ~seen[w].deleting
    BY <1>1, StartCalls DEF Start, PassInv, PassShape
  <2>2. ASSUME NEW w \in Workers PROVE Waited(w)'
    <3>1. Waited(w) /\ task[w] = "done"
      BY <2>1 DEF WaitedInv, AllDone
    <3> QED BY <2>1, <3>1 DEF Waited, Exists
  <2> QED BY <2>1, <2>2 DEF WaitedInv
<1>2. CASE StartRemoval
  <2>1. PICK w \in Workers : Exists(run.list, w) /\ w \notin run.spec.expect /\ pc = "workers"
    BY <1>2 DEF StartRemoval, Redundant
  <2>2. run.spec = spec /\ Waited(w)
    BY <2>1 DEF PassInv, PassShape, WaitedInv
  <2> QED BY <2>1, <2>2 DEF Waited
<1>3. CASE PatchStatus \/ PatchStatusFails \/ Crash
  <2>1. /\ pc' = "idle" /\ (\A w \in Workers : task'[w] = "done") /\ UNCHANGED <<spec, pods>>
        /\ (UNCHANGED seen /\ task = AllDone) \/ seen' = pods
        /\ run' = NoRun
    BY <1>3, PassEnds DEF PatchStatus, PatchStatusFails, Crash, EndPass
  <2>2. ASSUME NEW w \in Workers PROVE Waited(w)'
    <3>1. Waited(w) /\ ~Exists(NoRun.list, w)
      BY DEF WaitedInv, NoRun, NoPods, Exists
    <3>2. CASE UNCHANGED seen /\ task = AllDone
      BY <2>1, <3>1, <3>2 DEF Waited, AllDone
    <3>3. CASE seen' = pods
      <4>1. pods[w].deleting => Exists(pods, w)
        BY DEF Exists, NoPod
      <4>2. SamePod(pods[w], pods[w])
        BY DEF SamePod
      <4>3. ~Exists(run'.list, w)
        BY <2>1, <3>1 DEF Exists
      <4> QED BY <2>1, <3>1, <3>3, <4>1, <4>2, <4>3 DEF Waited
    <3> QED BY <2>1, <3>2, <3>3
  <2> QED BY <2>1, <2>2 DEF WaitedInv
<1>4. CASE Observe
  <2>1. seen' = pods /\ UNCHANGED <<spec, pods, pc, run, task>>
    BY <1>4 DEF Observe, Outside, passVars, cgVars
  <2>2. ASSUME NEW w \in Workers PROVE Waited(w)'
    <3>1. Waited(w) /\ (task[w] = "recreate" => ~Exists(pods, w))
      BY DEF WaitedInv, PassInv, RecreatedIsGone
    <3>2. pods[w].deleting => Exists(pods, w)
      BY DEF Exists, NoPod
    <3>3. SamePod(pods[w], pods[w])
      BY DEF SamePod
    <3> QED BY <2>1, <3>1, <3>2, <3>3 DEF Waited
  <2> QED BY <2>1, <2>2 DEF WaitedInv
<1>5. CASE EditSpec \/ CollectStats \/ UNCHANGED vars
  <2>1. UNCHANGED <<pods, seen, pc, run, task>>
    BY <1>5 DEF EditSpec, CollectStats, vars, Outside, passVars
  <2> QED BY <2>1 DEF WaitedInv, Waited
<1>6. CASE Tick
  <2>1. /\ UNCHANGED <<spec, pc, task>>
        /\ \A w \in Workers :
             /\ Exists(pods', w) <=> Exists(pods, w)
             /\ Exists(seen', w) <=> Exists(seen, w)
             /\ Exists(run'.list, w) <=> Exists(run.list, w)
             /\ pods'[w].deleting = pods[w].deleting /\ seen'[w].deleting = seen[w].deleting
             /\ SamePod(pods[w], seen[w]) => SamePod(pods'[w], seen'[w])
    BY <1>6, TickKeeps
  <2> QED BY <2>1 DEF WaitedInv, Waited
<1>7. ASSUME NEW w \in Workers, PodReady(w) \/ PodGone(w) \/ PodFails(w) \/ PodDeleted(w)
      PROVE  WaitedInv'
  <2>1. /\ Happens(w) /\ UNCHANGED <<spec, seen, pc, run, task>>
        /\ \A v \in Workers \ {w} : pods'[v] = pods[v]
    BY <1>7, PodHappens
  <2>2. \A v \in Workers \ {w} : Waited(v)'
    BY <2>1 DEF WaitedInv, Waited, Exists
  <2>3. Waited(w)
    BY DEF WaitedInv
  <2>4. /\ Exists(pods', w) => Exists(pods, w) /\ SamePod(pods'[w], pods[w])
        /\ Exists(pods, w) /\ ~pods[w].deleting => Exists(pods', w)
        /\ Exists(pods', w) /\ pods[w].deleting => pods'[w].deleting
        /\ pods'[w].deleting => pods[w].deleting
    BY <2>1, HappenedPods
  <2>5. Exists(pods', w) /\ ~pods'[w].deleting /\ Exists(seen, w) => SamePod(pods'[w], seen[w])
    BY <2>3, <2>4, SamePodTransitive DEF Waited
  <2>6. Waited(w)'
    <3>1. CASE pods[w].deleting
      BY <2>1, <2>3, <2>4, <2>5, <3>1 DEF Waited
    <3>2. CASE ~pods[w].deleting
      BY <2>1, <2>3, <2>4, <2>5, <3>2 DEF Waited
    <3> QED BY <3>1, <3>2
  <2> QED BY <2>1, <2>2, <2>6 DEF WaitedInv
<1> QED BY <1>1, <1>2, <1>3, <1>4, <1>5, <1>6, <1>7, WaitedWorker DEF Next

(***************************************************************************)
(* With lists that lag behind, too, a pass deletes what it listed, while   *)
(* the group only grows or changes its template and no one else deletes    *)
(* its workers.                                                            *)
(***************************************************************************)
THEOREM LaggingDeletes ==
  ASSUME "delete" \notin FaultKinds
  PROVE  Spec /\ [][spec.expect \subseteq spec'.expect]_vars => DeletesWhatItListed
<1> DEFINE Inv == TypeInv /\ PassInv /\ ListedInv /\ WaitedInv
<1>1. Init => Inv
  BY InitTypeInv, PassInit, ListedInit, WaitedInit
<1>2. Inv /\ [Next]_vars /\ [spec.expect \subseteq spec'.expect]_vars => Inv'
  <2> SUFFICES ASSUME Inv, [Next]_vars, [spec.expect \subseteq spec'.expect]_vars PROVE Inv'
    OBVIOUS
  <2>1. spec.expect \subseteq spec'.expect
    BY DEF vars
  <2>2. SeenIsThere
    BY DEF WaitedInv, Waited, SeenIsThere
  <2>3. TypeInv' /\ PassInv' /\ ListedInv'
    BY <2>2, TypeStep, PassStep, ListedStep
  <2>4. WaitedInv'
    BY <2>1, WaitedStep
  <2> QED BY <2>3, <2>4
<1>3. Inv /\ [Next]_vars =>
        [\A w \in Workers :
           task[w] \in {"delete", "remove"} /\ pods'[w] # pods[w] /\ ~pods[w].deleting
             => SamePod(pods[w], run.list[w])]_vars
  BY ListedDeleted
<1> QED BY <1>1, <1>2, <1>3, PTL DEF Spec, DeletesWhatItListed

----
(***************************************************************************)
(* What faults cost.                                                       *)
(***************************************************************************)

\* Workers that are down or that the pass may yet take down.
Covered == Down \cup {w \in spec.expect : task[w] # "done"}

\* Workers without a pod that stays, which the pass neither waits for nor recreates: only a fault
\* leaves one.
Stranded == {w \in spec.expect : /\ ~Exists(pods, w) \/ pods[w].deleting
                                 /\ task[w] \notin {"await", "recreate"}}

CostInv ==
  /\ Cardinality(Covered) <= Allowed + faults * FaultCost
  /\ Cardinality(Stranded) <= faults * FaultCost

\* Counting workers.
LEMMA CountSubset ==
  ASSUME NEW S \in SUBSET Workers, NEW T \in SUBSET S
  PROVE  Cardinality(T) <= Cardinality(S)
BY WorkersAssumption, FS_Subset DEF WorkersAssumption

LEMMA CountOneMore ==
  ASSUME NEW S \in SUBSET Workers, NEW w \in Workers, NEW T \in SUBSET (S \cup {w})
  PROVE  Cardinality(T) <= Cardinality(S) + 1
<1>1. IsFiniteSet(S) /\ S \cup {w} \in SUBSET Workers
  BY WorkersAssumption, FS_Subset DEF WorkersAssumption
<1>2. Cardinality(S \cup {w}) = Cardinality(S) \/ Cardinality(S \cup {w}) = Cardinality(S) + 1
  BY <1>1, FS_AddElement
<1>3. Cardinality(T) <= Cardinality(S \cup {w})
  BY <1>1, CountSubset
<1>4. Cardinality(T) \in Nat /\ Cardinality(S) \in Nat
  BY <1>1, CountType, WorkersAssumption
<1> QED BY <1>2, <1>3, <1>4

LEMMA CountUnion ==
  ASSUME NEW S \in SUBSET Workers, NEW T \in SUBSET Workers
  PROVE  Cardinality(S \cup T) <= Cardinality(S) + Cardinality(T)
<1>1. IsFiniteSet(S) /\ IsFiniteSet(T)
  BY WorkersAssumption, FS_Subset DEF WorkersAssumption
<1>2. Cardinality(S \cup T) = Cardinality(S) + Cardinality(T) - Cardinality(S \cap T)
  BY <1>1, FS_Union
<1>3. /\ Cardinality(S) \in Nat /\ Cardinality(T) \in Nat
      /\ Cardinality(S \cap T) \in Nat
  BY CountType
<1> QED BY <1>2, <1>3

\* Maximum and cost are numbers; a fault costs one worker at least, a crash what is allowed.
LEMMA CostType ==
  ASSUME TypeInv
  PROVE  /\ Allowed \in Nat /\ FaultCost \in Nat /\ FaultCost >= 1
         /\ "crash" \in FaultKinds => FaultCost >= Allowed
         /\ faults \in Nat /\ faults * FaultCost \in Nat
         /\ (faults + 1) * FaultCost = faults * FaultCost + FaultCost
         /\ Covered \in SUBSET Workers /\ Stranded \in SUBSET Workers
         /\ Cardinality(Covered) \in Nat /\ Cardinality(Stranded) \in Nat
<1>1. /\ spec.expect \in SUBSET Workers /\ faults \in Nat
      /\ MaxUnavailable \in Nat
  BY DurationsAssumption DEF TypeInv, TypeOK, Spec0, DurationsAssumption
<1>2. Allowed \in Nat
  <2> DEFINE n == Cardinality(spec.expect)
  <2>1. n \in Nat
    BY <1>1, CountType
  <2> HIDE DEF n
  <2>2. MaxUnavailable * n \in Nat
    BY <1>1, <2>1
  <2>3. (MaxUnavailable * n) \div 100 \in Nat
    BY <2>2
  <2> QED BY <1>1, <2>3 DEF Allowed, MaxUnavailableOf, n
<1>3. /\ FaultCost \in Nat /\ FaultCost >= 1
      /\ "crash" \in FaultKinds => FaultCost >= Allowed
  BY <1>2 DEF FaultCost
<1>4. faults * FaultCost \in Nat /\ (faults + 1) * FaultCost = faults * FaultCost + FaultCost
  BY <1>1, <1>3
<1>5. Covered \in SUBSET Workers /\ Stranded \in SUBSET Workers
  BY <1>1 DEF Covered, Down, Stranded
<1> QED BY <1>1, <1>2, <1>3, <1>4, <1>5, CountType

LEMMA CostInit == Init => CostInv
<1> SUFFICES ASSUME Init PROVE CostInv
  OBVIOUS
<1>1. TypeInv /\ faults = 0
  BY InitTypeInv DEF Init
<1>2. ASSUME NEW w \in spec.expect
      PROVE  Exists(pods, w) /\ Ready(pods[w]) /\ ~pods[w].deleting /\ task[w] = "done"
  <2>1. w \in InitWorkers /\ w \in Workers
    BY EnvironmentAssumption DEF Init, InitSpec, EnvironmentAssumption
  <2> QED BY <2>1 DEF Init, InitPods, AllDone, Exists, Ready, NoPod
<1>3. Covered = {} /\ Stranded = {}
  BY <1>2 DEF Covered, Down, Stranded
<1> QED BY <1>1, <1>3, CostType, FS_EmptySet DEF CostInv

\* The cost stays while what is allowed does.
LEMMA CostKept ==
  ASSUME TypeInv, TypeInv', Allowed' = Allowed
  PROVE  /\ FaultCost' = FaultCost
         /\ Cardinality(Covered') \in Nat /\ Cardinality(Stranded') \in Nat
         /\ faults' = faults \/ faults' = faults + 1 =>
              faults' * FaultCost' \in {faults * FaultCost, faults * FaultCost + FaultCost}
<1>1. FaultCost' = FaultCost
  BY DEF FaultCost
<1>2. Covered' \in SUBSET Workers /\ Stranded' \in SUBSET Workers
  BY DEF Covered, Down, Stranded, TypeInv, TypeOK, Spec0
<1> QED BY <1>1, <1>2, CountType, CostType

\* No worker more is down or without its pod.
LEMMA CostOfNothing ==
  ASSUME TypeInv, TypeInv', CostInv, Allowed' = Allowed, faults' = faults \/ faults' = faults + 1,
         Covered' \subseteq Covered, Stranded' \subseteq Stranded
  PROVE  CostInv'
<1>1. Cardinality(Covered') <= Cardinality(Covered) /\ Cardinality(Stranded') <= Cardinality(Stranded)
  BY CostType, CountSubset
<1>2. /\ faults * FaultCost \in Nat /\ FaultCost \in Nat /\ Allowed \in Nat
      /\ Cardinality(Covered) \in Nat /\ Cardinality(Stranded) \in Nat
      /\ Cardinality(Covered') \in Nat /\ Cardinality(Stranded') \in Nat
      /\ faults' * FaultCost' \in {faults * FaultCost, faults * FaultCost + FaultCost}
  BY CostType, CostKept
<1> QED BY <1>1, <1>2 DEF CostInv

\* A fault that hits one worker.
LEMMA CostOfOne ==
  ASSUME TypeInv, TypeInv', CostInv, Allowed' = Allowed, faults' = faults + 1, NEW w \in Workers,
         Covered' \subseteq Covered \cup {w}, Stranded' \subseteq Stranded \cup {w}
  PROVE  CostInv'
<1>1. /\ Cardinality(Covered') <= Cardinality(Covered) + 1
      /\ Cardinality(Stranded') <= Cardinality(Stranded) + 1
  BY CostType, CountOneMore
<1>2. /\ faults * FaultCost \in Nat /\ FaultCost \in Nat /\ FaultCost >= 1 /\ Allowed \in Nat
      /\ Cardinality(Covered) \in Nat /\ Cardinality(Stranded) \in Nat
      /\ Cardinality(Covered') \in Nat /\ Cardinality(Stranded') \in Nat
      /\ faults' * FaultCost' = faults * FaultCost + FaultCost
  BY CostType, CostKept
<1> QED BY <1>1, <1>2 DEF CostInv

\* A crash leaves without its pod whoever the pass had taken down.
LEMMA CostOfCrash ==
  ASSUME TypeInv, TypeInv', CostInv, Allowed' = Allowed, faults' = faults + 1,
         "crash" \in FaultKinds, Covered' \subseteq Covered, Stranded' \subseteq Covered
  PROVE  CostInv'
<1>1. /\ Cardinality(Covered') <= Cardinality(Covered)
      /\ Cardinality(Stranded') <= Cardinality(Covered)
  BY CostType, CountSubset
<1>2. /\ faults * FaultCost \in Nat /\ FaultCost \in Nat /\ FaultCost >= Allowed /\ Allowed \in Nat
      /\ Cardinality(Covered) \in Nat /\ Cardinality(Stranded) \in Nat
      /\ Cardinality(Covered') \in Nat /\ Cardinality(Stranded') \in Nat
      /\ faults' * FaultCost' = faults * FaultCost + FaultCost
  BY CostType, CostKept
<1> QED BY <1>1, <1>2 DEF CostInv

\* A pass with an up-to-date list updates so many more as its budget leaves beside those that are
\* listed as unavailable; those that are missing are stranded.
LEMMA CostOfStart ==
  ASSUME TypeInv, TypeInv', PassInv, CostInv, Start, FreshLists
  PROVE  CostInv'
<1>1. PICK batch : \E granted \in Grants(seen, batch) :
        /\ UNCHANGED <<spec, pods, seen, faults>>
        /\ \A w \in Workers :
             task'[w] # "done" => w \in spec.expect /\ (w \in granted \/ ~Ready(seen[w]))
  BY StartCalls
<1>2. PICK granted \in Grants(seen, batch) :
        /\ UNCHANGED <<spec, pods, seen, faults>>
        /\ \A w \in Workers :
             task'[w] # "done" => w \in spec.expect /\ (w \in granted \/ ~Ready(seen[w]))
  BY <1>1
<1>3. seen = pods /\ task = AllDone /\ Allowed' = Allowed /\ spec.expect \subseteq Workers
  BY <1>2 DEF Start, PassInv, PassShape, Allowed, TypeInv, TypeOK, Spec0
<1>4. Stranded' \subseteq Stranded
  BY <1>2, <1>3 DEF Stranded, AllDone
<1>5. Covered' \subseteq Down \cup granted
  BY <1>2, <1>3 DEF Covered, Down
<1>6. CASE granted = {}
  <2>1. Covered' \subseteq Covered
    BY <1>5, <1>6 DEF Covered
  <2> QED BY <1>2, <1>3, <1>4, <2>1, CostOfNothing
<1>7. CASE granted # {}
  <2>1. Cardinality(granted) + Cardinality(Unavailable(pods)) <= Allowed
    BY <1>3, <1>7, GrantsFit DEF Allowed
  <2>2. /\ granted \in SUBSET Workers /\ Unavailable(pods) \in SUBSET Workers
        /\ Stranded \in SUBSET Workers
    BY <1>3 DEF Grants, OutdatedReady, Outdated, Unavailable, Stranded
  <2>3. Covered' \subseteq (granted \cup Unavailable(pods)) \cup Stranded
    BY <1>3, <1>5 DEF Down, Unavailable, Stranded, AllDone, Exists
  <2>4. Cardinality(Covered') <= Cardinality((granted \cup Unavailable(pods)) \cup Stranded)
    BY <2>2, <2>3, CountSubset
  <2>5. /\ Cardinality((granted \cup Unavailable(pods)) \cup Stranded)
             <= Cardinality(granted \cup Unavailable(pods)) + Cardinality(Stranded)
        /\ Cardinality(granted \cup Unavailable(pods))
             <= Cardinality(granted) + Cardinality(Unavailable(pods))
    BY <2>2, CountUnion
  <2>6. /\ Cardinality(granted) \in Nat /\ Cardinality(Unavailable(pods)) \in Nat
        /\ Cardinality(granted \cup Unavailable(pods)) \in Nat
        /\ Cardinality((granted \cup Unavailable(pods)) \cup Stranded) \in Nat
        /\ Cardinality(Covered') \in Nat /\ Cardinality(Stranded) \in Nat
        /\ Cardinality(Stranded') \in Nat
        /\ Cardinality(Stranded') <= Cardinality(Stranded)
    BY <1>3, <1>4, <2>2, CountType, CountSubset, CostKept
  <2>7. /\ Allowed \in Nat /\ faults * FaultCost \in Nat
        /\ faults' * FaultCost' = faults * FaultCost
    BY <1>2, <1>3, CostType, CostKept
  <2>8. Cardinality(Stranded) <= faults * FaultCost
    BY DEF CostInv
  <2>9. /\ Cardinality(Covered') <= Allowed' + faults' * FaultCost'
        /\ Cardinality(Stranded') <= faults' * FaultCost'
    BY <1>3, <2>1, <2>4, <2>5, <2>6, <2>7, <2>8
  <2> QED BY <2>9 DEF CostInv
<1> QED BY <1>6, <1>7

\* The steps of a worker cost nothing, or a fault the worker itself.
LEMMA CostOfWorker ==
  ASSUME TypeInv, TypeInv', PassInv, CostInv, NEW w \in Workers,
         WorkerStep(w) \/ AwaitTimeout(w) \/ ApiError(w)
  PROVE  CostInv'
<1>1. /\ Calls(w) /\ UNCHANGED <<spec, pc>> /\ faults' \in {faults, faults + 1}
      /\ \A v \in Workers \ {w} : task'[v] = task[v] /\ pods'[v] = pods[v]
  BY WorkerCalls
<1>2. Allowed' = Allowed /\ spec.expect \subseteq Workers
  BY <1>1 DEF Allowed, TypeInv, TypeOK, Spec0
<1>3. w \in spec.expect => task[w] # "done" /\ task[w] \in UpdateTasks
  BY <1>1 DEF Calls, PassInv, PassShape, AllDone, TypeInv, TypeOK
<1>4. Covered' \subseteq Covered
  BY <1>1, <1>2, <1>3 DEF Covered, Down
<1>5. ASSUME NEW v \in Stranded'
      PROVE  v \in Stranded \/ (v = w /\ faults' = faults + 1)
  <2>1. v \in Workers /\ v \in spec.expect
    BY <1>1, <1>2 DEF Stranded
  <2>2. CASE v # w
    BY <1>1, <2>1, <2>2 DEF Stranded, Exists
  <2>3. CASE v = w
    <3>1. /\ ~Exists(pods', w) \/ pods'[w].deleting
          /\ task'[w] \notin {"await", "recreate"}
      BY <2>3 DEF Stranded
    <3>2. ~Exists(pods, w) \/ pods[w].deleting
      BY <1>1, <1>3, <2>1, <2>3, <3>1, CalledPods DEF UpdateTasks
    <3>3. CASE task[w] \notin {"await", "recreate"}
      BY <2>1, <2>3, <3>2, <3>3 DEF Stranded
    <3>4. CASE task[w] = "recreate" /\ faults' # faults + 1
      <4>1. Makes(w) /\ task'[w] = "done"
        BY <1>1, <3>4 DEF Calls, PassInv, RecreatedIsGone
      <4>2. Created(w) \in Pod
        BY <3>4, ListedPod, PodChanges DEF Created, TypeInv, TypeOK, Targets, Exists
      <4>3. Exists(pods', w) /\ ~Exists(pods, w)
        BY <4>1, <4>2, PodIsThere DEF Makes, Exists
      <4> QED BY <1>1, <3>1, <4>3, CalledPods
    <3>5. CASE task[w] = "await" /\ faults' # faults + 1
      BY <1>1, <3>1, <3>5 DEF Calls
    <3> QED BY <2>3, <3>3, <3>4, <3>5
  <2> QED BY <2>2, <2>3
<1>6. CASE faults' = faults + 1
  BY <1>2, <1>4, <1>5, <1>6, CostOfOne
<1>7. CASE faults' = faults
  <2>1. faults' # faults + 1
    BY <1>7, CostType
  <2> QED BY <1>2, <1>4, <1>5, <1>7, <2>1, CostOfNothing
<1> QED BY <1>1, <1>6, <1>7

LEMMA CostStep ==
  ASSUME TypeInv, PassInv, CostInv, [Next]_vars, FreshLists,
         spec'.expect \subseteq spec.expect /\ Allowed' = Allowed
  PROVE  CostInv'
<1>1. TypeInv'
  BY TypeStep
<1>2. CASE Start
  BY <1>1, <1>2, CostOfStart
<1>3. CASE StartRemoval \/ CollectStats \/ Observe \/ EditSpec \/ UNCHANGED vars
  <2>1. UNCHANGED <<pods, task>> /\ (faults' = faults \/ faults' = faults + 1)
    BY <1>3 DEF StartRemoval, CollectStats, Observe, EditSpec, Fault, vars, passVars, cgVars, Outside
  <2>2. Covered' \subseteq Covered /\ Stranded' \subseteq Stranded
    BY <2>1 DEF Covered, Down, Stranded
  <2> QED BY <1>1, <2>1, <2>2, CostOfNothing
<1>4. CASE PatchStatus \/ PatchStatusFails \/ Crash
  <2>1. /\ UNCHANGED <<spec, pods>> /\ \A w \in Workers : task'[w] = "done"
        /\ \/ task = AllDone /\ faults' \in {faults, faults + 1}
           \/ faults' = faults + 1 /\ "crash" \in FaultKinds
    BY <1>4, PassEnds
  <2>2. spec.expect \subseteq Workers
    BY DEF TypeInv, TypeOK, Spec0
  <2>3. Covered' \subseteq Covered
    BY <2>1, <2>2 DEF Covered, Down
  <2>4. CASE task = AllDone /\ faults' \in {faults, faults + 1}
    <3>1. Stranded' \subseteq Stranded
      BY <2>1, <2>2, <2>4 DEF Stranded, AllDone
    <3> QED BY <1>1, <2>3, <2>4, <3>1, CostOfNothing
  <2>5. CASE faults' = faults + 1 /\ "crash" \in FaultKinds
    <3>1. ~Ready(NoPod)
      BY DEF Ready, NoPod
    <3>2. Stranded' \subseteq Covered
      BY <2>1, <2>2, <3>1 DEF Stranded, Covered, Down, Exists
    <3> QED BY <1>1, <2>3, <2>5, <3>2, CostOfCrash
  <2> QED BY <2>1, <2>4, <2>5
<1>5. CASE Tick
  <2>1. /\ UNCHANGED <<spec, task, faults>>
        /\ \A w \in Workers :
             /\ Exists(pods', w) <=> Exists(pods, w)
             /\ Ready(pods'[w]) <=> Ready(pods[w])
             /\ pods'[w].deleting = pods[w].deleting
    BY <1>5, TickKeeps
  <2>2. spec.expect \subseteq Workers
    BY DEF TypeInv, TypeOK, Spec0
  <2>3. Covered' \subseteq Covered /\ Stranded' \subseteq Stranded
    BY <2>1, <2>2 DEF Covered, Down, Stranded
  <2> QED BY <1>1, <2>1, <2>3, CostOfNothing
<1>6. ASSUME NEW w \in Workers, PodReady(w) \/ PodGone(w) \/ PodFails(w) \/ PodDeleted(w)
      PROVE  CostInv'
  <2>1. /\ Happens(w) /\ UNCHANGED <<spec, task>>
        /\ \A v \in Workers \ {w} : pods'[v] = pods[v]
    BY <1>6, PodHappens
  <2>2. spec.expect \subseteq Workers
    BY DEF TypeInv, TypeOK, Spec0
  <2>3. CASE faults' = faults + 1
    <3>1. Covered' \subseteq Covered \cup {w} /\ Stranded' \subseteq Stranded \cup {w}
      BY <2>1, <2>2 DEF Covered, Down, Stranded, Exists
    <3> QED BY <1>1, <2>3, <3>1, CostOfOne
  <2>4. CASE faults' # faults + 1
    <3>1. faults' = faults
      BY <2>1, <2>4 DEF Happens
    <3>2. ~Ready(NoPod) /\ (~Exists(pods, w) => ~Ready(pods[w]))
      BY DEF Ready, NoPod, Exists
    <3>3. ~Ready(pods'[w]) \/ pods'[w].deleting => ~Ready(pods[w]) \/ pods[w].deleting
      BY <2>1, <2>4, <3>2, HappenedPods DEF Exists
    <3>4. ~Exists(pods', w) \/ pods'[w].deleting => ~Exists(pods, w) \/ pods[w].deleting
      BY <2>1, <2>4, HappenedPods
    <3>5. Covered' \subseteq Covered /\ Stranded' \subseteq Stranded
      BY <2>1, <2>2, <3>3, <3>4 DEF Covered, Down, Stranded, Exists
    <3> QED BY <1>1, <3>1, <3>5, CostOfNothing
  <2> QED BY <2>3, <2>4
<1>7. ASSUME NEW w \in Workers, WorkerStep(w) \/ AwaitTimeout(w) \/ ApiError(w)
      PROVE  CostInv'
  BY <1>1, <1>7, CostOfWorker
<1> QED BY <1>2, <1>3, <1>4, <1>5, <1>6, <1>7 DEF Next

(***************************************************************************)
(* With lists that are up to date, and while edits change the template or  *)
(* remove workers but leave what may be unavailable, faults cost no more   *)
(* workers than they hit, over any number of passes: what a fault leaves   *)
(* behind is not made worse by the passes that repair it.                  *)
(***************************************************************************)
THEOREM FaultsCost ==
  ASSUME FreshLists
  PROVE  Spec /\ [][spec'.expect \subseteq spec.expect /\ Allowed' = Allowed]_vars
           => []FaultsCostABoundedNumber
<1> DEFINE Inv == TypeInv /\ PassInv /\ CostInv
           Edits == spec'.expect \subseteq spec.expect /\ Allowed' = Allowed
<1>1. Init => Inv
  BY InitTypeInv, PassInit, CostInit
<1>2. Inv /\ [Next]_vars /\ [Edits]_vars => Inv'
  <2> SUFFICES ASSUME Inv, [Next]_vars, [Edits]_vars PROVE Inv'
    OBVIOUS
  <2>1. Edits
    BY DEF vars, Allowed
  <2> QED BY <2>1, TypeStep, PassStep, CostStep, FreshLists
<1>3. Inv => FaultsCostABoundedNumber
  <2> SUFFICES ASSUME Inv PROVE FaultsCostABoundedNumber
    OBVIOUS
  <2>1. Down \subseteq Covered
    BY DEF Covered
  <2>2. Cardinality(Down) <= Cardinality(Covered) /\ Cardinality(Down) \in Nat
    BY <2>1, CostType, CountSubset, CountType
  <2> QED BY <2>2, CostType DEF CostInv, FaultsCostABoundedNumber
<1> QED BY <1>1, <1>2, <1>3, PTL DEF Spec
====
