----------------------------- MODULE CronSync -----------------------------
(* The CronSync controller: the Syncs of one CronSync, started by a schedule  *)
(* under a concurrency policy and pruned to its history limits.               *)
(* internal/controller/cronsync_controller.go.  A Sync is what SyncPromise    *)
(* says of its phase.                                                         *)
EXTENDS Naturals, FiniteSets

CONSTANTS
  Period,           \* the schedule is due whenever the clock is a multiple of it
  Policies,         \* the concurrency policies to look at
  SuccessfulLimit,  \* SuccessfulJobsHistoryLimit
  FailedLimit,      \* FailedJobsHistoryLimit
  MaxTime,          \* where the clock stops
  FaultKinds,       \* which faults and interventions happen
  MaxFaults         \* and how many

ASSUME ScheduleAssumption ==
  /\ Period \in Nat \ {0}
  /\ Policies \subseteq {"Allow", "Forbid", "Replace"}
  /\ {SuccessfulLimit, FailedLimit, MaxTime, MaxFaults} \subseteq Nat
  /\ FaultKinds \subseteq {"error", "create", "crash", "edit"}

VARIABLES
  policy,    \* Spec.ConcurrencyPolicy
  cron,      \* the CronSync at the API server
  seenCron,  \* the CronSync in the informer cache
  jobs,      \* its Syncs at the API server, by the time in their name
  seenJobs,  \* its Syncs in the informer cache
  queued,    \* the key is in the work queue
  timer,     \* when RequeueAfter brings it back
  pc,        \* the next step of the reconcile
  mine,      \* the CronSync as the reconcile has read and written it
  start,     \* time.Now() of the reconcile
  listed,    \* the Syncs as the reconcile has listed them
  now,       \* the clock
  ran,       \* when a job was last created
  lost,      \* a job was not created, or its creation was not recorded
  faults

objects == <<policy, cron, jobs, now, ran, lost, faults>>
cache == <<seenCron, seenJobs>>
queue == <<queued, timer>>
local == <<pc, mine, start, listed>>
vars == <<objects, cache, queue, local>>

Times == 0 .. MaxTime
Never == MaxTime + Period + 1     \* no LastScheduleTime; no timer
NextRun(t) == (t \div Period + 1) * Period

\* "Progressing" stands for Preparing, too: no decision tells them apart.
Running == {"Pending", "Progressing"}
Phases == {"none"} \cup Running \cup {"Completed", "Failed"}
Cron == [last : Times \cup {Never}, suspend : BOOLEAN, edits : 0 .. MaxFaults]
NewCron == [last |-> Never, suspend |-> FALSE, edits |-> 0]
NoJobs == [t \in Times |-> "none"]
JobsIn(list, phases) == {t \in Times : list[t] \in phases}

TypeOK ==
  /\ policy \in Policies
  /\ {cron, seenCron, mine} \subseteq Cron
  /\ {jobs, seenJobs, listed} \subseteq [Times -> Phases]
  /\ {queued, lost} \subseteq BOOLEAN
  /\ timer \in Times \cup {Never} \cup {NextRun(t) : t \in Times}
  /\ pc \in {"idle", "first", "history", "create", "record"}
  /\ {start, now, ran} \subseteq Times
  /\ faults \in 0 .. MaxFaults

Init ==
  /\ policy \in Policies
  /\ cron \in {NewCron, [NewCron EXCEPT !.suspend = TRUE]}
  /\ seenCron = cron
  /\ jobs = NoJobs
  /\ seenJobs = jobs
  /\ queued = TRUE
  /\ timer = Never
  /\ pc = "idle"
  /\ mine = NewCron
  /\ start = 0
  /\ listed = NoJobs
  /\ now = 0
  /\ ran = 0
  /\ lost = FALSE
  /\ faults = 0

-----------------------------------------------------------------------------
(* The reconcile *)

Return(again, at) ==
  /\ pc' = "idle"
  /\ queued' = (queued \/ again)
  /\ timer' = IF at < timer THEN at ELSE timer
  /\ mine' = NewCron
  /\ start' = 0
  /\ listed' = NoJobs

ReturnError == Return(TRUE, Never)
ReturnNothing == Return(FALSE, Never)
RequeueAt(t) == Return(FALSE, t)

Goto(step) == pc' = step /\ UNCHANGED queue

Suspended ==
  /\ pc = "idle"
  /\ queued
  /\ seenCron.suspend
  /\ queued' = FALSE
  /\ UNCHANGED <<objects, cache, timer, local>>

\* The CronSync is read; its Syncs are listed from a cache that shows them as
\* they were when the reconcile began.
ReadCron ==
  /\ pc = "idle"
  /\ queued
  /\ ~seenCron.suspend
  /\ queued' = FALSE
  /\ mine' = seenCron
  /\ start' = now
  /\ listed' = seenJobs
  /\ pc' = IF seenCron.last = Never THEN "first" ELSE "history"
  /\ UNCHANGED <<objects, cache, timer>>

\* Status().Update is refused if the object has changed since it was read.
Conflict == mine # cron
\* A mutant: the time of the next run is recorded.
RecordNextRun == ~Conflict /\ cron' = [cron EXCEPT !.last = NextRun(start)]
RecordStart ==
  /\ ~Conflict
  /\ cron' = [cron EXCEPT !.last = start]

FirstSchedule ==
  /\ pc = "first"
  /\ RecordStart
  /\ mine' = cron'
  /\ Goto("history")
  /\ UNCHANGED <<policy, jobs, now, ran, lost, faults, cache, start, listed>>

\* Mutants: one job too many is deleted, or one too few.
ExcessAndOne(phase, limit) == {t \in JobsIn(listed, {phase}) :
  Cardinality({u \in JobsIn(listed, {phase}) : u > t}) + 1 >= limit}
ExcessButOne(phase, limit) == {t \in JobsIn(listed, {phase}) :
  Cardinality({u \in JobsIn(listed, {phase}) : u > t}) > limit}

\* SyncHistory deletes the oldest jobs of a phase beyond its limit.
Excess(phase, limit) == {t \in JobsIn(listed, {phase}) :
  Cardinality({u \in JobsIn(listed, {phase}) : u > t}) >= limit}
ToPrune == Excess("Completed", SuccessfulLimit) \cup Excess("Failed", FailedLimit)

\* The deletion of a job that is gone already is an error.
DeleteListed(t) ==
  /\ jobs[t] # "none"
  /\ jobs' = [jobs EXCEPT ![t] = "none"]
  /\ listed' = [listed EXCEPT ![t] = "none"]
  /\ UNCHANGED <<policy, cron, now, ran, lost, faults, cache, queue, pc, mine, start>>

\* Completed jobs come first.
PruneHistory ==
  /\ pc = "history"
  /\ \E t \in ToPrune :
       /\ \A u \in ToPrune : listed[u] = "Completed" \/ listed[u] = listed[t] => t <= u
       /\ DeleteListed(t)

PruneFails ==
  /\ pc = "history"
  /\ \E t \in ToPrune : jobs[t] = "none"
  /\ ReturnError
  /\ UNCHANGED <<objects, cache>>

Due == NextRun(mine.last) <= start
RunningJobs == JobsIn(listed, Running)
\* A mutant: a Sync that has not been looked at yet does not count.
ForbiddenByProgressing == policy = "Forbid" /\ JobsIn(listed, {"Progressing"}) # {}
Forbidden == policy = "Forbid" /\ RunningJobs # {}

\* Before the creation, Replace deletes the running Syncs of the list.
ToReplace == IF policy = "Replace" THEN RunningJobs ELSE {}

\* A mutant: it waits for an event.
NotDueNoRequeue ==
  /\ pc = "history"
  /\ ToPrune = {}
  /\ ~Due
  /\ ~Conflict
  /\ ReturnNothing
  /\ UNCHANGED <<objects, cache>>

NotDue ==
  /\ pc = "history"
  /\ ToPrune = {}
  /\ ~Due
  /\ ~Conflict
  /\ RequeueAt(NextRun(start))
  /\ UNCHANGED <<objects, cache>>

\* The update of the status is refused.
UpdateRefused ==
  /\ Conflict
  /\ \/ pc = "first"
     \/ pc = "history" /\ ToPrune = {} /\ ~Due
     \/ pc = "create" /\ ToReplace = {} /\ jobs[start] # "none"
  /\ ReturnError
  /\ UNCHANGED <<objects, cache>>

\* Nothing is requeued: the end of the running job will be an event.
SkipForbidden ==
  /\ pc = "history"
  /\ ToPrune = {}
  /\ Due
  /\ Forbidden
  /\ ReturnNothing
  /\ UNCHANGED <<objects, cache>>

StartRun ==
  /\ pc = "history"
  /\ ToPrune = {}
  /\ Due
  /\ ~Forbidden
  /\ Goto("create")
  /\ UNCHANGED <<objects, cache, mine, start, listed>>

ReplaceRunning ==
  /\ pc = "create"
  /\ \E t \in ToReplace : DeleteListed(t)

ReplaceFails ==
  /\ pc = "create"
  /\ \E t \in ToReplace : jobs[t] = "none"
  /\ ReturnError
  /\ UNCHANGED <<objects, cache>>

CreateJob ==
  /\ pc = "create"
  /\ ToReplace = {}
  /\ jobs[start] = "none"
  /\ jobs' = [jobs EXCEPT ![start] = "Pending"]
  /\ ran' = start
  /\ Goto("record")
  /\ UNCHANGED <<policy, cron, now, lost, faults, cache, mine, start, listed>>

\* There is a job of this name, from this second.  The error is not returned.
CreateExisting ==
  /\ pc = "create"
  /\ ToReplace = {}
  /\ jobs[start] # "none"
  /\ ~Conflict
  /\ ReturnNothing
  /\ UNCHANGED <<objects, cache>>

\* A mutant: the status is not written.
RecordRunNowhere ==
  /\ pc = "record"
  /\ ~Conflict
  /\ RequeueAt(NextRun(start))
  /\ UNCHANGED <<objects, cache>>

RecordRun ==
  /\ pc = "record"
  /\ RecordStart
  /\ RequeueAt(NextRun(start))
  /\ UNCHANGED <<policy, jobs, now, ran, lost, faults, cache>>

RecordRunFails ==
  /\ pc = "record"
  /\ Conflict
  /\ lost' = TRUE
  /\ ReturnError
  /\ UNCHANGED <<policy, cron, jobs, now, ran, faults, cache>>

-----------------------------------------------------------------------------
(* Faults *)

Occurs(kind) ==
  /\ kind \in FaultKinds
  /\ faults < MaxFaults
  /\ faults' = faults + 1

\* An API call fails, except the creation.
CallFails ==
  /\ Occurs("error")
  /\ pc # "idle"
  /\ pc = "create" => ToReplace # {}
  /\ lost' = (lost \/ pc = "record")
  /\ ReturnError
  /\ UNCHANGED <<policy, cron, jobs, now, ran, cache>>

\* The creation fails, and the update that is tried instead has nothing to write.
CreateFails ==
  /\ Occurs("create")
  /\ pc = "create"
  /\ ToReplace = {}
  /\ lost' = TRUE
  /\ Return(Conflict, Never)
  /\ UNCHANGED <<policy, cron, jobs, now, ran, cache>>

\* The operator restarts with a cache that is up to date.
Crash ==
  /\ Occurs("crash")
  /\ lost' = (lost \/ pc = "record")
  /\ pc' = "idle"
  /\ queued' = TRUE
  /\ timer' = Never
  /\ mine' = NewCron
  /\ start' = 0
  /\ listed' = NoJobs
  /\ seenCron' = cron
  /\ seenJobs' = jobs
  /\ UNCHANGED <<policy, cron, jobs, now, ran>>

-----------------------------------------------------------------------------
(* What surrounds the reconcile.  It happens between reconciles: a Sync that  *)
(* moves while one runs has moved before, and the list does not show it yet;  *)
(* an edit during it is one the cache did not show when it began, and an event *)
(* that comes meanwhile is queued, and taken, after it.                       *)

ObserveCron ==
  /\ pc = "idle"
  /\ seenCron # cron
  /\ seenCron' = cron
  /\ queued' = TRUE
  /\ UNCHANGED <<objects, seenJobs, timer, local>>

\* The controller owns its jobs: their events queue the CronSync.
ObserveJobs ==
  /\ pc = "idle"
  /\ seenJobs # jobs
  /\ seenJobs' = jobs
  /\ queued' = TRUE
  /\ UNCHANGED <<objects, seenCron, timer, local>>

TimerFires ==
  /\ pc = "idle"
  /\ timer <= now
  /\ timer' = Never
  /\ queued' = TRUE
  /\ UNCHANGED <<objects, cache, local>>

\* What SyncPromise allows a Sync to do.
Follows(phase) ==
  CASE phase = "Pending" -> {"Progressing", "Failed"}
    [] phase = "Progressing" -> {"Completed", "Failed"}
    [] OTHER -> {}

JobMoves(t) ==
  /\ pc = "idle"
  /\ \E next \in Follows(jobs[t]) : jobs' = [jobs EXCEPT ![t] = next]
  /\ UNCHANGED <<policy, cron, now, ran, lost, faults, cache, queue, local>>

\* The user suspends or resumes.
UserEdits ==
  /\ Occurs("edit")
  /\ pc = "idle"
  /\ cron' = [cron EXCEPT !.suspend = ~@, !.edits = @ + 1]
  /\ UNCHANGED <<policy, jobs, now, ran, lost, cache, queue, local>>

\* A tick, at least a second, is long against a reconcile and against the lag of
\* the informer.
Tick ==
  /\ now < MaxTime
  /\ pc = "idle"
  /\ seenCron = cron
  /\ seenJobs = jobs
  /\ now' = now + 1
  /\ UNCHANGED <<policy, cron, jobs, ran, lost, faults, cache, queue, local>>

Step ==
  \/ Suspended \/ ReadCron \/ FirstSchedule
  \/ PruneHistory \/ PruneFails
  \/ NotDue \/ UpdateRefused \/ SkipForbidden \/ StartRun
  \/ ReplaceRunning \/ ReplaceFails
  \/ CreateJob \/ CreateExisting \/ RecordRun \/ RecordRunFails

Surroundings == ObserveJobs \/ TimerFires \/ (\E t \in Times : JobMoves(t)) \/ Tick

Next == Step \/ CallFails \/ CreateFails \/ Crash \/ ObserveCron \/ Surroundings \/ UserEdits

Spec == Init /\ [][Next]_vars

\* The queue runs what is queued.  The informers and timers come, Syncs end and
\* time passes when the reconcile is idle, which it is again and again: hence
\* strong fairness, of these together as none of them can go on for ever.
Fairness ==
  /\ WF_vars(Step)
  /\ SF_vars(ObserveCron)
  /\ SF_vars(Surroundings)

FairSpec == Spec /\ Fairness

-----------------------------------------------------------------------------
(* Properties *)

\* Under Forbid and Replace there is at most one unfinished Sync, although the
\* controller judges by a list from the cache, fails between the creation of a
\* Sync and its record, and tries again.
OneAtATime == policy # "Allow" => Cardinality(JobsIn(jobs, Running)) <= 1

\* Each time the schedule is due it starts one Sync at most: between the
\* creation of two Syncs there is a time it was due, if the creation of the first
\* could be recorded.  A reconcile for an event of the Sync just created, which
\* may still read the CronSync of before, starts no other.
Creates == \E t \in Times : jobs[t] = "none" /\ jobs'[t] = "Pending"
OncePerDueTime == [][Creates => lost \/ NextRun(ran) <= now]_vars

\* The same for the policies that leave running Syncs alone: what saves them is
\* the name of a Sync, the second it is made in, and that Forbid looks for it.
\* It is so if no history limit is 0: with such a limit a Sync that ends in this
\* second may be pruned and its name be free again.
OncePerDueTimeUnlessReplace ==
  [][policy # "Replace" /\ Creates => lost \/ NextRun(ran) <= now]_vars

\* Pruning leaves as many finished Syncs of each kind as are to be retained,
\* although the list it goes by is old and shows Syncs it has deleted itself, if
\* no history limit is 0.
Count(list, phase) == Cardinality(JobsIn(list, {phase}))
Removed(phase) == {t \in Times : pc = "history" /\ jobs[t] = phase /\ jobs'[t] = "none"}
RetainsHistory ==
  [][/\ Removed("Completed") # {} => Count(jobs', "Completed") >= SuccessfulLimit
     /\ Removed("Failed") # {} => Count(jobs', "Failed") >= FailedLimit]_vars

\* And no more than these remain, when all is done.
PrunesHistory ==
  <>[](cron.suspend \/ /\ Count(jobs, "Completed") <= SuccessfulLimit
                       /\ Count(jobs, "Failed") <= FailedLimit)

\* The schedule goes on: no run stays due, not one that a running Sync forbade,
\* nor one that came while the controller was down or suspended.  It may stop
\* after a Sync could not be created or recorded.
ScheduleGoesOn == <>lost \/ <>[](cron.suspend \/ NextRun(cron.last) > now)
=============================================================================
