-------------------------- MODULE CronSync_proofs --------------------------
(* A CronSync never has two unfinished Syncs under Forbid and Replace, and,   *)
(* if no history limit is 0, it retains its history and starts one Sync for   *)
(* each time it is due: for every schedule, faults and lengths of the clock.  *)
EXTENDS CronSync, TLAPS, FiniteSetTheorems, Induction

TimerTimes == Times \cup {Never} \cup {NextRun(t) : t \in Times}

\* TypeOK bounds the edits of the CronSync; what bounds them is the faults.
EditsCounted == cron.edits <= faults

LEMMA InitType == Init => TypeOK /\ EditsCounted
<1> SUFFICES ASSUME Init
             PROVE  TypeOK /\ EditsCounted
  OBVIOUS
<1>1. 0 \in Times /\ 0 \in 0 .. MaxFaults
  BY ScheduleAssumption DEF Times
<1>2. NewCron \in Cron /\ [NewCron EXCEPT !.suspend = TRUE] \in Cron
  BY <1>1 DEF NewCron, Cron
<1>3. NoJobs \in [Times -> Phases]
  BY DEF NoJobs, Phases
<1>4. TypeOK
  BY <1>1, <1>2, <1>3 DEF Init, TypeOK
<1>5. NewCron.edits = 0 /\ [NewCron EXCEPT !.suspend = TRUE].edits = 0
  BY DEF NewCron
<1>6. cron.edits = 0
  BY <1>5, Zenon DEF Init
<1>7. faults = 0
  BY DEF Init
<1> QED
  BY <1>4, <1>6, <1>7 DEF EditsCounted

LEMMA TypeStep == TypeOK /\ EditsCounted /\ [Next]_vars => TypeOK'
<1> SUFFICES ASSUME TypeOK, EditsCounted, [Next]_vars
             PROVE  TypeOK'
  OBVIOUS
<1>1. 0 \in Times /\ NewCron \in Cron /\ NoJobs \in [Times -> Phases]
  BY ScheduleAssumption DEF Times, NewCron, Cron, NoJobs, Phases
<1>2. ASSUME NEW again \in BOOLEAN, NEW at \in TimerTimes, Return(again, at)
      PROVE  /\ pc' \in {"idle", "first", "history", "create", "record"}
             /\ queued' \in BOOLEAN
             /\ timer' \in TimerTimes
             /\ mine' \in Cron
             /\ start' \in Times
             /\ listed' \in [Times -> Phases]
  BY <1>1, <1>2 DEF Return, TypeOK, TimerTimes
<1>3. Never \in TimerTimes /\ NextRun(start) \in TimerTimes
  BY DEF TypeOK, TimerTimes
<1>4. ASSUME RecordStart
      PROVE  cron' \in Cron
  BY <1>4 DEF RecordStart, TypeOK, Cron
<1>5. ASSUME NEW t \in Times, DeleteListed(t)
      PROVE  TypeOK'
  BY <1>5 DEF DeleteListed, TypeOK, Phases, objects, cache, queue, local
<1>6. ASSUME NEW kind, Occurs(kind)
      PROVE  faults' \in 0 .. MaxFaults
  BY <1>6, ScheduleAssumption DEF Occurs, TypeOK
<1> USE DEF TypeOK, objects, cache, queue
<1>7. CASE Step
  <2>1. CASE Suspended
    BY <2>1 DEF Suspended, local
  <2>2. CASE ReadCron
    BY <2>2 DEF ReadCron
  <2>3. CASE FirstSchedule
    BY <2>3, <1>4 DEF FirstSchedule, Goto
  <2>4. CASE PruneHistory
    BY <2>4, <1>5 DEF PruneHistory, ToPrune, Excess, JobsIn
  <2>5. CASE PruneFails
    BY <2>5, <1>2, <1>3 DEF PruneFails, ReturnError, TimerTimes
  <2>6. CASE NotDue
    BY <2>6, <1>2, <1>3 DEF NotDue, RequeueAt, TimerTimes
  <2>7. CASE UpdateRefused
    BY <2>7, <1>2, <1>3 DEF UpdateRefused, ReturnError, TimerTimes
  <2>8. CASE SkipForbidden
    BY <2>8, <1>2, <1>3 DEF SkipForbidden, ReturnNothing, TimerTimes
  <2>9. CASE StartRun
    BY <2>9 DEF StartRun, Goto
  <2>10. CASE ReplaceRunning
    BY <2>10, <1>5 DEF ReplaceRunning, ToReplace, RunningJobs, JobsIn
  <2>11. CASE ReplaceFails
    BY <2>11, <1>2, <1>3 DEF ReplaceFails, ReturnError, TimerTimes
  <2>12. CASE CreateJob
    BY <2>12 DEF CreateJob, Goto, Phases, Running
  <2>13. CASE CreateExisting
    BY <2>13, <1>2, <1>3 DEF CreateExisting, ReturnNothing, TimerTimes
  <2>14. CASE RecordRun
    BY <2>14, <1>2, <1>3, <1>4 DEF RecordRun, RequeueAt, TimerTimes
  <2>15. CASE RecordRunFails
    BY <2>15, <1>2, <1>3 DEF RecordRunFails, ReturnError, TimerTimes
  <2> QED
    BY <1>7, <2>1, <2>2, <2>3, <2>4, <2>5, <2>6, <2>7, <2>8, <2>9, <2>10, <2>11, <2>12,
       <2>13, <2>14, <2>15 DEF Step
<1>8. CASE CallFails
  BY <1>8, <1>2, <1>3, <1>6 DEF CallFails, ReturnError, TimerTimes
<1>9. CASE CreateFails
  BY <1>9, <1>2, <1>3, <1>6 DEF CreateFails, Conflict, TimerTimes
<1>10. CASE Crash
  BY <1>10, <1>1, <1>6 DEF Crash
<1>11. CASE ObserveCron
  BY <1>11 DEF ObserveCron, local
<1>12. CASE Surroundings
  <2>1. CASE ObserveJobs
    BY <2>1 DEF ObserveJobs, local
  <2>2. CASE TimerFires
    BY <2>2 DEF TimerFires, local
  <2>3. ASSUME NEW t \in Times, JobMoves(t)
        PROVE  TypeOK'
    <3>1. Follows(jobs[t]) \subseteq Phases
      BY DEF Follows, Phases, Running
    <3> QED
      BY <2>3, <3>1 DEF JobMoves, local
  <2>4. CASE Tick
    BY <2>4, ScheduleAssumption DEF Tick, Times, local
  <2> QED
    BY <1>12, <2>1, <2>2, <2>3, <2>4 DEF Surroundings
<1>13. CASE UserEdits
  <2>1. cron' = [last |-> cron.last, suspend |-> ~cron.suspend, edits |-> cron.edits + 1]
    BY <1>13, Zenon DEF UserEdits, Cron
  <2>2. cron.edits + 1 \in 0 .. MaxFaults
    BY <1>13, ScheduleAssumption DEF UserEdits, Occurs, Cron, EditsCounted
  <2>3. cron' \in Cron
    BY <2>1, <2>2, Zenon DEF Cron
  <2> QED
    BY <1>13, <1>6, <2>3 DEF UserEdits, local
<1>14. CASE UNCHANGED vars
  BY <1>14 DEF vars, local
<1> QED
  BY <1>7, <1>8, <1>9, <1>10, <1>11, <1>12, <1>13, <1>14 DEF Next

LEMMA EditsStep == TypeOK /\ EditsCounted /\ [Next]_vars => EditsCounted'
<1> SUFFICES ASSUME TypeOK, EditsCounted, [Next]_vars
             PROVE  EditsCounted'
  OBVIOUS
<1>1. cron.edits \in Nat /\ faults \in Nat
  BY ScheduleAssumption DEF TypeOK, Cron
<1>2. ASSUME RecordStart, UNCHANGED faults
      PROVE  EditsCounted'
  BY <1>2 DEF RecordStart, EditsCounted, TypeOK, Cron
<1>3. ASSUME UNCHANGED <<cron, faults>>
      PROVE  EditsCounted'
  BY <1>3 DEF EditsCounted
<1>4. ASSUME UNCHANGED cron, faults' = faults + 1
      PROVE  EditsCounted'
  BY <1>1, <1>4 DEF EditsCounted
<1>5. CASE Step
  BY <1>5, <1>2, <1>3 DEF Step, Suspended, ReadCron, FirstSchedule, PruneHistory, PruneFails,
    NotDue, UpdateRefused, SkipForbidden, StartRun, ReplaceRunning, ReplaceFails, CreateJob,
    CreateExisting, RecordRun, RecordRunFails, DeleteListed, objects
<1>6. CASE CallFails \/ CreateFails \/ Crash
  BY <1>6, <1>4 DEF CallFails, CreateFails, Crash, Occurs
<1>7. CASE ObserveCron \/ Surroundings
  BY <1>7, <1>3 DEF ObserveCron, Surroundings, ObserveJobs, TimerFires, JobMoves, Tick, objects
<1>8. CASE UserEdits
  <2>1. cron'.edits = cron.edits + 1
    BY <1>8, Zenon DEF UserEdits, TypeOK, Cron
  <2> QED
    BY <1>8, <1>1, <2>1 DEF UserEdits, Occurs, EditsCounted
<1>9. CASE UNCHANGED vars
  BY <1>9, <1>3 DEF vars, objects
<1> QED
  BY <1>5, <1>6, <1>7, <1>8, <1>9 DEF Next

\* The variables stay in their types, whatever the schedule and the faults.
THEOREM TypeCorrect == Spec => []TypeOK
BY InitType, TypeStep, EditsStep, PTL DEF Spec

-----------------------------------------------------------------------------
(* One Sync at a time *)

\* The informer may lag, but it has caught up before the clock has moved: what it
\* does not show as running was created in this second.
CacheShowsRunning == \A t \in Times : jobs[t] \in Running => seenJobs[t] \in Running \/ t = now

\* So the list of a reconcile lacks at most a Sync of the name it would use itself.
ListShowsRunning ==
  pc \in {"first", "history", "create"} =>
    \A t \in Times : jobs[t] \in Running => listed[t] \in Running \/ t = start

StartIsNow == pc # "idle" => start = now
ForbidHasLooked == pc = "create" /\ policy = "Forbid" => RunningJobs = {}
OneRuns ==
  policy # "Allow" =>
    \A t, u \in Times : jobs[t] \in Running /\ jobs[u] \in Running => t = u

OneInv ==
  /\ CacheShowsRunning
  /\ ListShowsRunning
  /\ StartIsNow
  /\ ForbidHasLooked
  /\ OneRuns

LEMMA InitOne == Init => OneInv
BY DEF Init, OneInv, CacheShowsRunning, ListShowsRunning, StartIsNow, ForbidHasLooked, OneRuns,
  NoJobs, Running

\* Steps after which the reconcile is idle and the Syncs are as they were.
LEMMA IdleOne ==
  ASSUME OneInv, pc' = "idle", UNCHANGED <<policy, jobs, now>>,
         UNCHANGED seenJobs \/ seenJobs' = jobs
  PROVE  OneInv'
BY DEF OneInv, CacheShowsRunning, ListShowsRunning, StartIsNow, ForbidHasLooked, OneRuns

\* Steps that remove Syncs, in the world and in the list.
LEMMA DeleteOne ==
  ASSUME TypeOK, OneInv, NEW t \in Times, DeleteListed(t)
  PROVE  OneInv'
<1>1. \A u \in Times : /\ jobs'[u] = IF u = t THEN "none" ELSE jobs[u]
                       /\ listed'[u] = IF u = t THEN "none" ELSE listed[u]
  BY DEF DeleteListed, TypeOK
<1>2. "none" \notin Running
  BY DEF Running
<1> QED
  BY <1>1, <1>2 DEF OneInv, CacheShowsRunning, ListShowsRunning, StartIsNow, ForbidHasLooked,
    OneRuns, DeleteListed, RunningJobs, JobsIn, cache

\* The creation: the list has no running Sync, under Forbid because it has been
\* looked at, under Replace because they have been deleted, and the one the list
\* may lack has the name that is free.
LEMMA CreateOne ==
  ASSUME TypeOK, OneInv, CreateJob
  PROVE  OneInv'
<1>1. \A u \in Times : jobs'[u] = IF u = start THEN "Pending" ELSE jobs[u]
  BY DEF CreateJob, TypeOK
<1>2. ASSUME policy # "Allow", NEW t \in Times, jobs[t] \in Running
      PROVE  FALSE
  <2>1. RunningJobs = {}
    BY <1>2, ScheduleAssumption
    DEF CreateJob, ToReplace, OneInv, ForbidHasLooked, TypeOK
  <2>2. t = start
    BY <1>2, <2>1 DEF OneInv, ListShowsRunning, CreateJob, RunningJobs, JobsIn
  <2> QED
    BY <1>2, <2>2 DEF CreateJob, Running
<1>3. start = now
  BY DEF OneInv, StartIsNow, CreateJob
<1> QED
  BY <1>1, <1>2, <1>3 DEF OneInv, CacheShowsRunning, ListShowsRunning, StartIsNow,
    ForbidHasLooked, OneRuns, CreateJob, Goto, cache

LEMMA OneStep == TypeOK /\ OneInv /\ [Next]_vars => OneInv'
<1> SUFFICES ASSUME TypeOK, OneInv, [Next]_vars
             PROVE  OneInv'
  OBVIOUS
<1> USE DEF objects, cache, queue
<1>1. CASE Suspended
  BY <1>1, IdleOne DEF Suspended, local
<1>2. CASE ReadCron
  BY <1>2 DEF ReadCron, OneInv, CacheShowsRunning, ListShowsRunning, StartIsNow,
    ForbidHasLooked, OneRuns
<1>3. CASE FirstSchedule
  BY <1>3 DEF FirstSchedule, Goto, OneInv, CacheShowsRunning, ListShowsRunning, StartIsNow,
    ForbidHasLooked, OneRuns
<1>4. CASE StartRun
  BY <1>4 DEF StartRun, Goto, OneInv, CacheShowsRunning, ListShowsRunning, StartIsNow,
    ForbidHasLooked, OneRuns, Forbidden, RunningJobs, JobsIn
<1>5. CASE PruneHistory
  BY <1>5, DeleteOne DEF PruneHistory, ToPrune, Excess, JobsIn
<1>6. CASE ReplaceRunning
  BY <1>6, DeleteOne DEF ReplaceRunning, ToReplace, RunningJobs, JobsIn
<1>7. CASE CreateJob
  BY <1>7, CreateOne
<1>8. CASE PruneFails \/ NotDue \/ UpdateRefused \/ SkipForbidden \/ ReplaceFails
           \/ CreateExisting \/ RecordRun \/ RecordRunFails
  BY <1>8, IdleOne DEF PruneFails, NotDue, UpdateRefused, SkipForbidden, ReplaceFails,
    CreateExisting, RecordRun, RecordRunFails, ReturnError, ReturnNothing, RequeueAt, Return
<1>9. CASE CallFails \/ CreateFails \/ Crash
  BY <1>9, IdleOne DEF CallFails, CreateFails, Crash, ReturnError, Return
<1>10. CASE ObserveCron \/ ObserveJobs \/ TimerFires
  BY <1>10, IdleOne DEF ObserveCron, ObserveJobs, TimerFires, local
<1>11. ASSUME NEW t \in Times, JobMoves(t)
       PROVE  OneInv'
  <2>1. PICK next \in Follows(jobs[t]) : jobs' = [jobs EXCEPT ![t] = next]
    BY <1>11 DEF JobMoves
  <2>2. jobs[t] \in Running
    BY DEF Follows, Running
  <2>3. \A u \in Times : jobs'[u] \in Running => jobs[u] \in Running
    BY <2>1, <2>2 DEF TypeOK
  <2> QED
    BY <1>11, <2>3 DEF JobMoves, local, OneInv, CacheShowsRunning, ListShowsRunning,
      StartIsNow, ForbidHasLooked, OneRuns
<1>12. CASE Tick
  BY <1>12 DEF Tick, local, OneInv, CacheShowsRunning, ListShowsRunning, StartIsNow,
    ForbidHasLooked, OneRuns
<1>13. CASE UserEdits
  BY <1>13, IdleOne DEF UserEdits, local
<1>14. CASE UNCHANGED vars
  BY <1>14 DEF vars, local, OneInv, CacheShowsRunning, ListShowsRunning, StartIsNow,
    ForbidHasLooked, OneRuns, RunningJobs, JobsIn
<1> QED
  BY <1>1, <1>2, <1>3, <1>4, <1>5, <1>6, <1>7, <1>8, <1>9, <1>10, <1>11, <1>12, <1>13, <1>14
  DEF Next, Step, Surroundings

\* Under Forbid and Replace at most one Sync of a CronSync is unfinished, whatever
\* stale lists, errors and crashes do to the reconcile that creates them.
THEOREM OneSyncAtATime == Spec => []OneAtATime
<1>1. OneInv => OneAtATime
  <2> SUFFICES ASSUME OneInv, policy # "Allow"
               PROVE  Cardinality(JobsIn(jobs, Running)) <= 1
    BY DEF OneAtATime
  <2>1. CASE JobsIn(jobs, Running) = {}
    BY <2>1, FS_EmptySet
  <2>2. CASE JobsIn(jobs, Running) # {}
    <3>1. PICK t \in JobsIn(jobs, Running) : TRUE
      BY <2>2
    <3>2. JobsIn(jobs, Running) = {t}
      BY <3>1 DEF OneInv, OneRuns, JobsIn
    <3> QED
      BY <3>2, FS_Singleton
  <2> QED
    BY <2>1, <2>2
<1> QED
  BY <1>1, InitOne, OneStep, TypeCorrect, PTL DEF Spec

-----------------------------------------------------------------------------
(* The history that is retained *)

\* A history limit of 0 lets a Sync be pruned, and its name be used again, in the
\* second of its creation: what follows is not so then.
KeepsSome == SuccessfulLimit # 0 /\ FailedLimit # 0

Finished == {"Completed", "Failed"}
Limit(phase) == IF phase = "Completed" THEN SuccessfulLimit ELSE FailedLimit
Newer(list, t) == {u \in JobsIn(list, {list[t]}) : u > t}

\* Between two looks of the informer only those finished Syncs go that the last one
\* has shown to be too many.
NoneFromLater == \A t \in Times : jobs[t] # "none" \/ seenJobs[t] # "none" => t <= now
ListIsOfCache == pc # "idle" => \A t \in Times : listed[t] \in {"none", seenJobs[t]}
OnlyExcessGoes(list, seen) ==
  \A t \in Times : seen[t] \in Finished =>
    \/ list[t] = seen[t]
    \/ list[t] = "none" /\ Cardinality(Newer(seen, t)) >= Limit(seen[t])

HistoryInv == StartIsNow /\ NoneFromLater /\ ListIsOfCache /\ OnlyExcessGoes(jobs, seenJobs)

LEMMA TimesFinite ==
  /\ IsFiniteSet(Times)
  /\ \A S \in SUBSET Times : IsFiniteSet(S) /\ Cardinality(S) \in Nat
  /\ \A S, T \in SUBSET Times : S \subseteq T => Cardinality(S) <= Cardinality(T)
<1>1. IsFiniteSet(Times)
  BY ScheduleAssumption, FS_Interval DEF Times
<1>2. \A S \in SUBSET Times : IsFiniteSet(S) /\ Cardinality(S) \in Nat
  BY <1>1, FS_Subset, FS_CardinalityType
<1> QED BY <1>1, <1>2, FS_Subset

LEMMA GreatestExists ==
  ASSUME NEW T \in SUBSET Times, T # {}
  PROVE  \E x \in T : \A y \in T : y <= x
<1> DEFINE D == {MaxTime - x : x \in T}
<1>1. MaxTime \in Nat /\ T \subseteq 0 .. MaxTime
  BY ScheduleAssumption DEF Times
<1>5. D \in SUBSET Nat
  <2> SUFFICES ASSUME NEW x \in T PROVE MaxTime - x \in Nat
    OBVIOUS
  <2> QED BY <1>1
<1>6. D # {}
  OBVIOUS
<1>2. PICK d \in D : \A e \in D : d <= e
  <2> HIDE DEF D
  <2> QED BY <1>5, <1>6, LeastExists
<1>3. PICK x \in T : d = MaxTime - x
  BY <1>2
<1>4. ASSUME NEW y \in T PROVE y <= x
  <2>1. MaxTime - y \in D
    OBVIOUS
  <2>2. MaxTime - x <= MaxTime - y
    BY <1>2, <1>3, <2>1
  <2> QED BY <1>1, <1>3, <2>2
<1> QED BY <1>4

\* What the list has too many of, the cache has.
LEMMA ExcessOfCache ==
  ASSUME KeepsSome, TypeOK, HistoryInv, pc = "history", NEW t \in ToPrune
  PROVE  /\ t \in Times /\ t < now
         /\ listed[t] = seenJobs[t] /\ seenJobs[t] \in Finished
         /\ Cardinality(Newer(seenJobs, t)) >= Limit(seenJobs[t])
<1>1. PICK phase \in Finished : t \in Excess(phase, Limit(phase))
  BY DEF ToPrune, Finished, Limit
<1> DEFINE later == {u \in JobsIn(listed, {phase}) : u > t}
<1>2. t \in Times /\ listed[t] = phase /\ Cardinality(later) >= Limit(phase)
  BY <1>1 DEF Excess, JobsIn
<1>3. listed[t] = seenJobs[t]
  BY <1>2 DEF HistoryInv, ListIsOfCache, Finished
<1>4. later \subseteq Newer(seenJobs, t)
  BY <1>2, <1>3 DEF HistoryInv, ListIsOfCache, Newer, JobsIn, Finished
<1>5. later \subseteq Times /\ Newer(seenJobs, t) \subseteq Times
  BY DEF JobsIn, Newer
<1>6. Cardinality(later) \in Nat /\ Cardinality(Newer(seenJobs, t)) \in Nat
      /\ Cardinality(later) <= Cardinality(Newer(seenJobs, t)) /\ Limit(phase) \in Nat
  <2> HIDE DEF later
  <2> QED BY <1>4, <1>5, TimesFinite, ScheduleAssumption DEF Limit
<1>7. later # {}
  <2>1. Cardinality(later) # 0
    <3> HIDE DEF later
    <3> QED BY <1>2, <1>6, ScheduleAssumption DEF KeepsSome, Limit
  <2> HIDE DEF later
  <2> QED BY <2>1, FS_EmptySet
<1>8. PICK u \in Times : u > t /\ seenJobs[u] = phase
  BY <1>4, <1>5, <1>7, <1>2, <1>3 DEF Newer, JobsIn
<1>9. t < now
  BY <1>2, <1>8, ScheduleAssumption DEF HistoryInv, NoneFromLater, Finished, Times, TypeOK
<1> QED BY <1>2, <1>3, <1>6, <1>9

LEMMA InitHistory == Init => HistoryInv
<1> SUFFICES ASSUME Init PROVE HistoryInv
  OBVIOUS
<1>1. \A t \in Times : jobs[t] = "none" /\ seenJobs[t] = "none"
  BY DEF Init, NoJobs
<1> QED BY <1>1 DEF Init, HistoryInv, StartIsNow, NoneFromLater, ListIsOfCache,
    OnlyExcessGoes, Finished

\* A step that leaves the Syncs and the cache of them, and the list unless it ends.
LEMMA SameHistory ==
  ASSUME HistoryInv, UNCHANGED <<jobs, seenJobs, now>>,
         pc' = "idle" \/ (pc # "idle" /\ UNCHANGED <<start, listed>>)
  PROVE  HistoryInv'
BY DEF HistoryInv, StartIsNow, NoneFromLater, ListIsOfCache,
    OnlyExcessGoes, Newer, JobsIn

LEMMA HistoryStep == KeepsSome /\ TypeOK /\ HistoryInv /\ [Next]_vars => HistoryInv'
<1> SUFFICES ASSUME KeepsSome, TypeOK, HistoryInv, [Next]_vars PROVE HistoryInv'
  OBVIOUS
<1> USE DEF objects, cache, queue
<1>1. CASE Suspended
  BY <1>1, SameHistory DEF Suspended, local
<1>2. CASE ReadCron
  BY <1>2 DEF ReadCron, HistoryInv, StartIsNow, NoneFromLater, ListIsOfCache,
    OnlyExcessGoes, Newer, JobsIn
<1>3. CASE FirstSchedule \/ StartRun
  BY <1>3, SameHistory DEF FirstSchedule, StartRun, Goto
<1>4. CASE PruneFails \/ NotDue \/ UpdateRefused \/ SkipForbidden \/ ReplaceFails
           \/ CreateExisting \/ RecordRun \/ RecordRunFails
  BY <1>4, SameHistory DEF PruneFails, NotDue, UpdateRefused, SkipForbidden, ReplaceFails,
    CreateExisting, RecordRun, RecordRunFails, ReturnError, ReturnNothing, RequeueAt, Return
<1>5. CASE CallFails \/ CreateFails
  BY <1>5, SameHistory DEF CallFails, CreateFails, ReturnError, Return
<1>6. ASSUME UNCHANGED <<jobs, now>>, seenJobs' = jobs, pc' = "idle" PROVE HistoryInv'
  BY <1>6 DEF HistoryInv, StartIsNow, NoneFromLater, ListIsOfCache, OnlyExcessGoes
<1>7. CASE Crash \/ ObserveJobs
  BY <1>6, <1>7 DEF Crash, ObserveJobs, local
<1>8. CASE ObserveCron \/ TimerFires \/ UserEdits
  BY <1>8, SameHistory DEF ObserveCron, TimerFires, UserEdits, local
<1>9. ASSUME NEW t \in Times, JobMoves(t) PROVE HistoryInv'
  <2>1. PICK next \in Follows(jobs[t]) : jobs' = [jobs EXCEPT ![t] = next]
    BY <1>9 DEF JobMoves
  <2>2. jobs[t] \in Running /\ jobs[t] # "none"
    BY DEF Follows, Running
  <2>3. UNCHANGED <<seenJobs, now, pc, start, listed>> /\ pc = "idle"
    BY <1>9 DEF JobMoves, local
  <2>4. \A u \in Times : u = t \/ jobs'[u] = jobs[u]
    BY <2>1 DEF TypeOK
  <2>5. seenJobs[t] \notin Finished
    BY <2>2 DEF HistoryInv, OnlyExcessGoes, Running, Finished
  <2> QED BY <2>2, <2>3, <2>4, <2>5
          DEF HistoryInv, StartIsNow, NoneFromLater, ListIsOfCache,
    OnlyExcessGoes, Newer, JobsIn
<1>10. CASE Tick
  <2>1. UNCHANGED <<jobs, seenJobs>> /\ pc = "idle" /\ pc' = "idle" /\ now' = now + 1
    BY <1>10 DEF Tick, local
  <2>2. \A t \in Times : t <= now => t <= now'
    BY <2>1, ScheduleAssumption DEF TypeOK, Times
  <2> QED BY <2>1, <2>2 DEF HistoryInv, StartIsNow, NoneFromLater, ListIsOfCache,
    OnlyExcessGoes, Newer, JobsIn
<1>11. ASSUME NEW t \in Times, DeleteListed(t), pc # "idle",
              seenJobs[t] \in Finished => Cardinality(Newer(seenJobs, t)) >= Limit(seenJobs[t])
       PROVE  HistoryInv'
  <2>1. \A u \in Times : /\ jobs'[u] = IF u = t THEN "none" ELSE jobs[u]
                         /\ listed'[u] = IF u = t THEN "none" ELSE listed[u]
    BY <1>11 DEF DeleteListed, TypeOK
  <2>2. UNCHANGED <<seenJobs, now, pc, start>>
    BY <1>11 DEF DeleteListed
  <2> QED BY <1>11, <2>1, <2>2
          DEF HistoryInv, StartIsNow, NoneFromLater, ListIsOfCache,
    OnlyExcessGoes, Newer, JobsIn
<1>12. CASE PruneHistory
  BY <1>11, <1>12, ExcessOfCache DEF PruneHistory
<1>13. CASE ReplaceRunning
  <2>1. PICK t \in ToReplace : DeleteListed(t) /\ pc = "create"
    BY <1>13 DEF ReplaceRunning
  <2>2. t \in Times /\ listed[t] \in Running
    BY <2>1 DEF ToReplace, RunningJobs, JobsIn
  <2>3. seenJobs[t] \notin Finished
    BY <2>1, <2>2 DEF HistoryInv, ListIsOfCache, Running, Finished
  <2> QED BY <1>11, <2>1, <2>2, <2>3
<1>14. CASE CreateJob
  <2>1. \A u \in Times : jobs'[u] = IF u = start THEN "Pending" ELSE jobs[u]
    BY <1>14 DEF CreateJob, TypeOK
  <2>2. /\ UNCHANGED <<seenJobs, now, start, listed>>
      /\ pc = "create" /\ jobs[start] = "none" /\ start \in Times
    BY <1>14 DEF CreateJob, Goto, TypeOK
  <2>3. start = now
    BY <2>2 DEF HistoryInv, StartIsNow
  <2>4. seenJobs[start] \notin Finished
    <3> SUFFICES ASSUME seenJobs[start] \in Finished PROVE FALSE
      OBVIOUS
    <3>1. Cardinality(Newer(seenJobs, start)) >= Limit(seenJobs[start])
      BY <2>2 DEF HistoryInv, OnlyExcessGoes, Finished
    <3>2. Newer(seenJobs, start) = {}
      BY <2>3, ScheduleAssumption
      DEF Newer, JobsIn, HistoryInv, NoneFromLater, Times, TypeOK, Finished
    <3>3. Limit(seenJobs[start]) \in Nat \ {0}
      BY ScheduleAssumption DEF Limit, KeepsSome
    <3> QED BY <3>1, <3>2, <3>3, FS_EmptySet
  <2>5. pc' # "idle"
    BY <1>14 DEF CreateJob, Goto
  <2>6. start <= now
    BY <2>3 DEF TypeOK, Times
  <2> QED BY <2>1, <2>2, <2>3, <2>4, <2>5, <2>6
          DEF HistoryInv, StartIsNow, NoneFromLater, ListIsOfCache,
    OnlyExcessGoes, Newer, JobsIn
<1>15. CASE UNCHANGED vars
  BY <1>15 DEF vars, local, HistoryInv, StartIsNow, NoneFromLater, ListIsOfCache,
    OnlyExcessGoes, Newer, JobsIn
<1> QED
  BY <1>1, <1>2, <1>3, <1>4, <1>5, <1>7, <1>8, <1>9, <1>10, <1>12, <1>13, <1>14, <1>15
  DEF Next, Step, Surroundings

\* Of the Syncs that are too many take the newest: all newer ones are still there.
LEMMA EnoughRemain ==
  ASSUME NEW list, NEW seen, OnlyExcessGoes(list, seen),
         NEW t \in Times, seen[t] \in Finished, list[t] = "none"
  PROVE  Count(list, seen[t]) >= Limit(seen[t])
<1> DEFINE phase == seen[t]
           Many == {u \in Times : seen[u] = phase /\ Cardinality(Newer(seen, u)) >= Limit(phase)}
<1>1. Many \subseteq Times /\ t \in Many
  BY DEF OnlyExcessGoes, Finished
<1>2. PICK m \in Many : \A u \in Many : u <= m
  <2> HIDE DEF Many
  <2> QED BY <1>1, GreatestExists
<1>3. Newer(seen, m) \subseteq JobsIn(list, {phase})
  <2> SUFFICES ASSUME NEW u \in Newer(seen, m) PROVE u \in Times /\ list[u] = phase
    BY DEF JobsIn
  <2>1. u \in Times /\ seen[u] = phase /\ u > m
    BY DEF Newer, JobsIn
  <2>2. u \notin Many
    BY <1>1, <1>2, <2>1, ScheduleAssumption DEF Times
  <2> QED BY <2>1, <2>2 DEF OnlyExcessGoes
<1>4. Newer(seen, m) \in SUBSET Times /\ JobsIn(list, {phase}) \in SUBSET Times
  BY DEF Newer, JobsIn
<1>5. /\ Cardinality(Newer(seen, m)) <= Cardinality(JobsIn(list, {phase}))
      /\ Cardinality(Newer(seen, m)) \in Nat /\ Cardinality(JobsIn(list, {phase})) \in Nat
  BY <1>3, <1>4, TimesFinite
<1>6. Cardinality(Newer(seen, m)) >= Limit(phase) /\ Limit(phase) \in Nat
  BY <1>2, ScheduleAssumption DEF Limit
<1> QED BY <1>5, <1>6 DEF Count

LEMMA RemovalRetains ==
  ASSUME KeepsSome, TypeOK, HistoryInv, HistoryInv', [Next]_vars,
         NEW phase \in Finished, Removed(phase) # {}
  PROVE  Count(jobs', phase) >= Limit(phase)
<1>1. PICK t \in Times : pc = "history" /\ jobs[t] = phase /\ jobs'[t] = "none"
  BY DEF Removed
<1>2. jobs' # jobs /\ phase # "none"
  BY <1>1 DEF Finished
<1>3. PruneHistory
  BY <1>1, <1>2 DEF Next, Step, Surroundings, Suspended, ReadCron, FirstSchedule, PruneFails,
    NotDue, UpdateRefused, SkipForbidden, StartRun, ReplaceRunning, ReplaceFails, CreateJob,
    CreateExisting, RecordRun, RecordRunFails, CallFails, CreateFails, Crash, ObserveCron,
    ObserveJobs, TimerFires, JobMoves, Tick, UserEdits, vars, objects
<1>4. PICK u \in ToPrune : DeleteListed(u)
  BY <1>3 DEF PruneHistory
<1>5. u = t
  BY <1>1, <1>2, <1>4 DEF DeleteListed, TypeOK
<1>6. seenJobs[t] \in Finished
  BY <1>1, <1>4, <1>5, ExcessOfCache
<1>7. seenJobs[t] = phase /\ seenJobs' = seenJobs
  BY <1>1, <1>2, <1>4, <1>6 DEF HistoryInv, OnlyExcessGoes, DeleteListed, cache
<1>8. OnlyExcessGoes(jobs', seenJobs)
  BY <1>7 DEF HistoryInv, OnlyExcessGoes, Newer, JobsIn
<1> QED BY <1>1, <1>6, <1>7, <1>8, EnoughRemain

\* Pruning leaves as many finished Syncs of each kind as are to be retained,
\* whatever the lag of the list, if some are to be.
THEOREM HistoryRetained ==
  ASSUME KeepsSome
  PROVE  Spec => RetainsHistory
<1>1. Init => HistoryInv
  BY InitHistory
<1>2. TypeOK /\ HistoryInv /\ [Next]_vars => HistoryInv'
  BY HistoryStep
<1>3. TypeOK /\ HistoryInv /\ HistoryInv' /\ [Next]_vars =>
        [/\ Removed("Completed") # {} => Count(jobs', "Completed") >= SuccessfulLimit
         /\ Removed("Failed") # {} => Count(jobs', "Failed") >= FailedLimit]_vars
  BY RemovalRetains DEF Finished, Limit
<1> QED BY <1>1, <1>2, <1>3, TypeCorrect, PTL DEF Spec, RetainsHistory

-----------------------------------------------------------------------------
(* One Sync for each time the schedule is due *)

LEMMA NextRunGrows ==
  ASSUME NEW s \in Times, NEW t \in Times, s <= t
  PROVE  NextRun(s) \in Nat /\ NextRun(t) \in Nat /\ NextRun(s) <= NextRun(t) /\ s < NextRun(s)
<1> DEFINE a == s \div Period
           b == t \div Period
<1>1. Period \in Nat /\ Period > 0 /\ s \in Nat /\ t \in Nat
  BY ScheduleAssumption DEF Times
<1>2. /\ a \in Nat /\ a * Period <= s /\ s < (a + 1) * Period
      /\ b \in Nat /\ b * Period <= t /\ t < (b + 1) * Period
  BY <1>1
<1> HIDE DEF a, b
<1>3. a <= b
  <2> SUFFICES ASSUME b + 1 <= a PROVE FALSE
    BY <1>2
  <2>1. (b + 1) * Period <= a * Period
    BY <1>1, <1>2
  <2> QED BY <1>1, <1>2, <2>1
<1>4. (a + 1) * Period <= (b + 1) * Period /\ (a + 1) * Period \in Nat /\ (b + 1) * Period \in Nat
  BY <1>1, <1>2, <1>3
<1>5. NextRun(s) = (a + 1) * Period /\ NextRun(t) = (b + 1) * Period
  BY DEF NextRun, a, b
<1> QED BY <1>1, <1>2, <1>4, <1>5

\* What a reconcile reads of the last run is the truth, or of a second ago: then
\* the Sync of this second has the name it would use.
RunRecorded == lost \/ pc = "record" \/ ran <= cron.last
CacheOfBefore ==
  seenCron.last # cron.last =>
    /\ cron.last = now
    /\ seenCron.last = Never \/ jobs[now] # "none" \/ policy = "Replace"
ReadOrWritten ==
  /\ pc # "idle" => mine.last \in {seenCron.last, cron.last}
  /\ pc = "first" => mine.last = Never /\ seenCron.last = Never
  /\ pc \in {"history", "create", "record"} => mine.last # Never
  /\ pc = "create" => Due
  /\ pc = "record" => ran = start /\ jobs[start] # "none"

OnceInv == ran <= now /\ RunRecorded /\ CacheOfBefore /\ ReadOrWritten

LEMMA NotNever == Never \notin Times
BY ScheduleAssumption DEF Never, Times

LEMMA InitOnce == Init => OnceInv
BY ScheduleAssumption
DEF Init, OnceInv, RunRecorded, CacheOfBefore, ReadOrWritten, NewCron, Never

LEMMA SameOnce ==
  ASSUME OnceInv, UNCHANGED <<policy, ran, now, jobs>>,
         cron'.last = cron.last, seenCron'.last \in {seenCron.last, cron.last},
         pc' = "idle", pc = "record" => lost', lost => lost'
  PROVE  OnceInv'
BY DEF OnceInv, RunRecorded, CacheOfBefore, ReadOrWritten

LEMMA OnceStep == KeepsSome /\ TypeOK /\ HistoryInv /\ OnceInv /\ [Next]_vars => OnceInv'
<1> SUFFICES ASSUME KeepsSome, TypeOK, HistoryInv, OnceInv, [Next]_vars PROVE OnceInv'
  OBVIOUS
<1> USE DEF objects, cache, queue
<1>1. CASE Suspended
  BY <1>1, SameOnce DEF Suspended, local
<1>2. CASE ReadCron
  BY <1>2 DEF ReadCron, OnceInv, RunRecorded, CacheOfBefore, ReadOrWritten
<1>3. ASSUME RecordStart, pc # "idle" PROVE cron'.last = now /\ start = now
  BY <1>3 DEF RecordStart, HistoryInv, StartIsNow, TypeOK, Cron
<1>4. CASE FirstSchedule
  <2>1. cron'.last = now /\ mine' = cron' /\ pc' = "history" /\ now # Never
    BY <1>3, <1>4, NotNever DEF FirstSchedule, Goto, TypeOK
  <2> QED
    BY <1>4, <2>1 DEF FirstSchedule, Goto, OnceInv, RunRecorded, CacheOfBefore, ReadOrWritten
<1>5. CASE PruneFails \/ NotDue \/ UpdateRefused \/ SkipForbidden \/ ReplaceFails
           \/ CreateExisting \/ RecordRunFails
  BY <1>5, SameOnce DEF PruneFails, NotDue, UpdateRefused, SkipForbidden, ReplaceFails,
    CreateExisting, RecordRunFails, ReturnError, ReturnNothing, RequeueAt, Return
<1>6. CASE StartRun
  BY <1>6 DEF StartRun, Goto, OnceInv, RunRecorded, CacheOfBefore, ReadOrWritten, Due
<1>7. CASE CallFails \/ CreateFails \/ Crash
  BY <1>7, SameOnce DEF CallFails, CreateFails, Crash, ReturnError, Return
<1>8. CASE ObserveCron \/ ObserveJobs \/ TimerFires
  BY <1>8, SameOnce DEF ObserveCron, ObserveJobs, TimerFires, local
<1>9. ASSUME NEW t \in Times, JobMoves(t) PROVE OnceInv'
  <2>1. PICK next \in Follows(jobs[t]) : jobs' = [jobs EXCEPT ![t] = next]
    BY <1>9 DEF JobMoves
  <2>2. next # "none" /\ pc = "idle" /\ UNCHANGED <<policy, cron, seenCron, now, ran, lost, pc>>
    BY <1>9, <2>1 DEF JobMoves, Follows, local
  <2>3. \A u \in Times : jobs[u] # "none" => jobs'[u] # "none"
    BY <2>1, <2>2 DEF TypeOK
  <2>4. now \in Times
    BY DEF TypeOK
  <2> QED BY <2>2, <2>3, <2>4 DEF OnceInv, RunRecorded, CacheOfBefore, ReadOrWritten
<1>10. CASE Tick
  <2>1. /\ UNCHANGED <<cron, seenCron, ran, lost, pc>>
        /\ pc = "idle" /\ seenCron = cron /\ now' = now + 1
    BY <1>10 DEF Tick, local
  <2>2. ran <= now => ran <= now'
    BY <2>1, ScheduleAssumption DEF TypeOK, Times
  <2> QED BY <2>1, <2>2 DEF OnceInv, RunRecorded, CacheOfBefore, ReadOrWritten
<1>11. CASE UserEdits
  <2>1. cron'.last = cron.last
    BY <1>11 DEF UserEdits, TypeOK, Cron
  <2> QED BY <1>11, <2>1, SameOnce DEF UserEdits, local
<1>12. ASSUME NEW t \in Times, DeleteListed(t), pc \in {"history", "create"},
              t # now \/ policy = "Replace"
       PROVE  OnceInv'
  <2>1. now \in Times /\ (t # now => jobs'[now] = jobs[now])
    BY <1>12 DEF DeleteListed, TypeOK
  <2> QED
    BY <1>12, <2>1 DEF DeleteListed, OnceInv, RunRecorded, CacheOfBefore, ReadOrWritten, Due
<1>13. CASE PruneHistory
  <2>1. PICK t \in ToPrune : DeleteListed(t) /\ pc = "history"
    BY <1>13 DEF PruneHistory
  <2>2. t \in Times /\ t < now
    BY <2>1, ExcessOfCache
  <2>3. t # now
    BY <2>2, ScheduleAssumption DEF Times
  <2> QED BY <1>12, <2>1, <2>2, <2>3
<1>14. CASE ReplaceRunning
  BY <1>12, <1>14 DEF ReplaceRunning, ToReplace, RunningJobs, JobsIn
<1>15. CASE CreateJob
  <2>1. start = now /\ start \in Times /\ now <= now
    BY <1>15 DEF CreateJob, HistoryInv, StartIsNow, TypeOK, Times
  <2>2. jobs'[start] = "Pending"
    BY <1>15, <2>1 DEF CreateJob, TypeOK
  <2> QED
    BY <1>15, <2>1, <2>2 DEF CreateJob, Goto, OnceInv, RunRecorded, CacheOfBefore, ReadOrWritten
<1>16. CASE RecordRun
  <2>1. /\ cron'.last = now /\ start = now /\ pc = "record" /\ pc' = "idle"
        /\ UNCHANGED <<policy, jobs, now, ran, lost, seenCron>>
    BY <1>3, <1>16 DEF RecordRun, RequeueAt, Return
  <2> QED BY <2>1 DEF OnceInv, RunRecorded, CacheOfBefore, ReadOrWritten
<1>17. CASE UNCHANGED vars
  BY <1>17 DEF vars, local, OnceInv, RunRecorded, CacheOfBefore, ReadOrWritten, Due
<1> QED
  BY <1>1, <1>2, <1>4, <1>5, <1>6, <1>7, <1>8, <1>9, <1>10, <1>11, <1>13, <1>14, <1>15, <1>16, <1>17
  DEF Next, Step, Surroundings

LEMMA OnlyCreateJobCreates ==
  ASSUME TypeOK, [Next]_vars, Creates
  PROVE  CreateJob
<1>1. PICK t \in Times : jobs[t] = "none" /\ jobs'[t] = "Pending"
  BY DEF Creates
<1>2. ASSUME NEW u \in Times, DeleteListed(u) PROVE FALSE
  BY <1>1, <1>2 DEF DeleteListed, TypeOK
<1>3. ASSUME NEW u \in Times, JobMoves(u) PROVE FALSE
  BY <1>1, <1>3 DEF JobMoves, Follows, TypeOK
<1>4. jobs' # jobs
  BY <1>1
<1>5. ~PruneHistory /\ ~ReplaceRunning
  BY <1>2 DEF PruneHistory, ReplaceRunning, ToPrune, Excess, ToReplace, RunningJobs, JobsIn
<1> QED
  BY <1>3, <1>4, <1>5 DEF Next, Step, Surroundings, Suspended, ReadCron, FirstSchedule, PruneFails,
    NotDue, UpdateRefused, SkipForbidden, StartRun, ReplaceFails,
    CreateExisting, RecordRun, RecordRunFails, CallFails, CreateFails, Crash, ObserveCron,
    ObserveJobs, TimerFires, Tick, UserEdits, vars, objects

LEMMA CreatesOnce ==
  ASSUME TypeOK, HistoryInv, OnceInv, CreateJob, policy # "Replace", ~lost
  PROVE  NextRun(ran) <= now
<1>1. start = now /\ pc = "create" /\ jobs[now] = "none"
  BY DEF CreateJob, HistoryInv, StartIsNow
<1>2. mine.last # Never /\ NextRun(mine.last) <= now /\ ran <= cron.last
  BY <1>1 DEF OnceInv, ReadOrWritten, RunRecorded, Due
<1>3. mine.last = cron.last
  BY <1>1, <1>2 DEF OnceInv, ReadOrWritten, CacheOfBefore
<1>4. ran \in Times /\ cron.last \in Times /\ now \in Nat
  BY <1>2, <1>3, ScheduleAssumption DEF TypeOK, Cron, Times
<1>5. NextRun(ran) \in Nat /\ NextRun(cron.last) \in Nat /\ NextRun(ran) <= NextRun(cron.last)
  BY <1>2, <1>4, NextRunGrows
<1> QED BY <1>2, <1>3, <1>4, <1>5

\* Under Allow and Forbid each time the schedule is due starts one Sync at most,
\* if no history limit is 0 and the creation of the last one could be recorded.
THEOREM OnceIfKept ==
  ASSUME KeepsSome
  PROVE  Spec => OncePerDueTimeUnlessReplace
<1>1. Init => HistoryInv /\ OnceInv
  BY InitHistory, InitOnce
<1>2. TypeOK /\ HistoryInv /\ OnceInv /\ [Next]_vars => HistoryInv' /\ OnceInv'
  BY HistoryStep, OnceStep
<1>3. TypeOK /\ HistoryInv /\ OnceInv /\ [Next]_vars =>
        [policy # "Replace" /\ Creates => lost \/ NextRun(ran) <= now]_vars
  BY OnlyCreateJobCreates, CreatesOnce
<1> QED BY <1>1, <1>2, <1>3, TypeCorrect, PTL DEF Spec, OncePerDueTimeUnlessReplace
=============================================================================
