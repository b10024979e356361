------------------------------- MODULE WarmUp -------------------------------
(* The WarmUp controller: one WarmUp, the reconcile that drives it (it reads  *)
(* informer caches and makes one API call a step), its Job or CronJob, the    *)
(* pods of its cache group, and the user.                                     *)
(* internal/controller/warmup_controller.go, pkg/utils/warmup.go.             *)
EXTENDS Naturals, WarmUpJob

CONSTANTS
  Specs,        \* names of specs of the WarmUp, as the user may write them
  SpecOf(_),    \* and the specs
  Workers,      \* names of pods of workers in the cache group
  PodOf(_),     \* and the pods
  Cleaner,      \* a pod of a clean-cache job: it carries the label of the group
  Secret,       \* stands for the pod of a WarmUp with a secretRef
  MaxProgress,  \* the progress of a job, as its log shows it
  Kinds,        \* the kinds of faults and of interventions that happen
  MaxFaults     \* and how many of them

FaultKinds == {"error", "log", "crash", "retry", "deleteJob", "delete", "edit", "group"}

ASSUME NamesAssumption ==
  /\ Cleaner \notin Workers
  /\ Secret \notin Workers \cup {Cleaner}

ASSUME BoundsAssumption ==
  /\ Kinds \subseteq FaultKinds
  /\ MaxProgress \in Nat
  /\ MaxFaults \in Nat

ASSUME OptionsAssumption ==
  LET IsSeq(options) == options \in Seq(Range(options)) IN
  /\ \A s \in Specs : IsSeq(SpecOf(s).mountOpts)
  /\ \A p \in Workers : IsSeq(PodOf(p).mountOpts)

VARIABLES
  wu,       \* the WarmUp at the API server
  seenWu,   \* the WarmUp in the informer cache
  fresh,    \* which copies have the latest resource version: "cache", "mine"
  job,      \* the Job at the API server, with what its pods have logged
  seenJob,  \* the Job in the informer cache
  cron,     \* the CronJob at the API server
  seenCron, \* the CronJob in the informer cache
  group,    \* the pods with the label of the cache group
  warmed,   \* a job has ended well, and a log of it tells of no failed block
  expired,  \* TTLSecondsAfterFinished is over
  queued,   \* the key is in the work queue
  timer,    \* the key will be, at some time
  pc,       \* the next step of the reconcile
  mine,     \* the status as the reconcile has read it
  what,     \* the Job or the CronJob it has read, or is about to write
  faults    \* how many faults and interventions there were

user == <<group, warmed, expired, faults>>
cache == <<seenWu, seenJob, seenCron>>
reconcile == <<queued, timer, pc, mine, what>>
vars == <<wu, fresh, job, cron, user, cache, reconcile>>

Finished == {"Complete", "Failed"}
Progress == 0 .. MaxProgress
Status == [phase : {"", "Running", "Gone"} \cup Finished, progress : Progress]
NoStatus == [phase |-> "", progress |-> 0]
WarmUpObj == [spec : Specs, status : Status]

\* What was rendered: the spec, and the pod the builder has taken.
Origin ==
  LET WithSecret == {s \in Specs : SpecOf(s).secret # None} IN
  {[spec |-> s, pod |-> Secret] : s \in WithSecret}
  \cup {[spec |-> s, pod |-> p] : s \in Specs \ WithSecret, p \in Workers}
\* What a pod has logged; "cold": some blocks have failed; "lost": it cannot be
\* read, or has no statistics.
Logs == {"clean", "cold", "lost"}
Job == [from : Origin, state : {"active", "complete", "failed"}, logs : SUBSET Logs,
        progress : Progress]
CronJob == [from : Origin]
NoObject == [from |-> None]
NewJob(from) == [from |-> from, state |-> "active", logs |-> {}, progress |-> 0]
NewCronJob(from) == [from |-> from]

Worker(from) == IF from.pod = Secret THEN None ELSE PodOf(from.pod)
JobTemplate(from) == NewWarmUpJob(SpecOf(from.spec), Worker(from))
CronTemplate(from) == NewWarmUpCronJob(SpecOf(from.spec), Worker(from))
ImageOf(from) == Image(SpecOf(from.spec), Worker(from))
Supported(from) == WarmupSupportStats(ImageOf(from))
\* The hash is of all that is rendered.
SameHash(a, b) == a = b \/ (ImageOf(a) = ImageOf(b) /\ CronTemplate(a) = CronTemplate(b))

WuSpec == SpecOf(wu.spec)
SeenSpec == SpecOf(seenWu.spec)
Scheduled == WuSpec.policy = "Cron"
Gone == wu.status.phase = "Gone"

Steps == {"idle", "delete", "createJob", "writeStatus", "createCron", "updateCron", "writeRunning"}

TypeOK ==
  /\ wu \in WarmUpObj
  /\ seenWu \in WarmUpObj
  /\ fresh \subseteq {"cache", "mine"}
  /\ job \in Job \cup {NoObject}
  /\ seenJob \in Job \cup {NoObject}
  /\ cron \in CronJob \cup {NoObject}
  /\ seenCron \in CronJob \cup {NoObject}
  /\ group \subseteq Workers \cup {Cleaner}
  /\ warmed \in BOOLEAN
  /\ expired \in BOOLEAN
  /\ queued \in BOOLEAN
  /\ timer \in BOOLEAN
  /\ pc \in Steps
  /\ mine \in Status
  /\ what \in Job \cup CronJob \cup {NoObject}
  /\ faults \in 0 .. MaxFaults

Init ==
  /\ wu \in [spec : Specs, status : {NoStatus}]
  /\ seenWu = wu
  /\ fresh = {"cache"}
  /\ job = NoObject
  /\ seenJob = NoObject
  /\ cron = NoObject
  /\ seenCron = NoObject
  /\ group \in {{}, Workers}
  /\ warmed = FALSE
  /\ expired = FALSE
  /\ queued = TRUE
  /\ timer = FALSE
  /\ pc = "idle"
  /\ mine = NoStatus
  /\ what = NoObject
  /\ faults = 0

Occurs(kind) ==
  /\ kind \in Kinds
  /\ faults < MaxFaults
  /\ faults' = faults + 1

-----------------------------------------------------------------------------
(* The reconcile *)

\* What a reconcile leaves behind when it returns: it is done, it asks to be
\* called after a while, or its error is retried.
Forget ==
  /\ pc' = "idle"
  /\ mine' = NoStatus
  /\ what' = NoObject

Return == Forget /\ UNCHANGED <<queued, timer>>
ReturnAfter == Forget /\ timer' = TRUE /\ UNCHANGED queued
\* A mutant: the error is logged and that is all.
ReturnWithoutRetry == Forget /\ UNCHANGED <<queued, timer>>
ReturnError == Forget /\ queued' = TRUE /\ UNCHANGED timer

Goto(step) == pc' = step /\ UNCHANGED <<queued, timer, mine, what>>

\* A copy of the WarmUp is dropped, or all of them are out of date.
Drop == fresh' = fresh \ {"mine"}
Outdate == fresh' = {}

\* A reconcile begins with the WarmUp in the cache, and goes on to an API call.
Taken == pc = "idle" /\ queued
Take(step, object) ==
  /\ pc' = step
  /\ queued' = FALSE
  /\ mine' = seenWu.status
  /\ what' = object
  /\ fresh' = IF "cache" \in fresh THEN {"cache", "mine"} ELSE {}
  /\ UNCHANGED <<wu, job, cron, user, cache, timer>>

\* It makes none, and is done, or asks to be called after a while.
Skip(again) ==
  /\ queued' = FALSE
  /\ timer' = (timer \/ again)
  /\ UNCHANGED <<wu, fresh, job, cron, user, cache, pc, mine, what>>

Seen(policy) ==
  /\ Taken
  /\ seenWu.status.phase # "Gone"
  /\ SeenSpec.policy = policy

SyncGone ==
  /\ Taken
  /\ seenWu.status.phase = "Gone"
  /\ Skip(FALSE)

\* resolveWarmUpJobBuilder takes a secret with an image, or any pod that has the
\* label.  The command of one that cleans a cache cannot be parsed: the panic is
\* recovered from and becomes an error.
\* A mutant: whatever has the label is a worker.
PodsOfTheLabel == IF SeenSpec.secret # None THEN {Secret} ELSE group
Pods == IF SeenSpec.secret # None THEN {Secret} ELSE group \ {Cleaner}
Resolvable == SeenSpec.secret # None => SeenSpec.image # None
Unresolvable == ~Resolvable \/ (SeenSpec.secret = None /\ (group = {} \/ Cleaner \in group))

\* The origins of what the builder may render now.
Origins == IF Resolvable THEN {[spec |-> seenWu.spec, pod |-> p] : p \in Pods} ELSE {}

ResolveFails ==
  /\ \/ Seen("Once") /\ seenWu.status.phase \notin Finished /\ seenJob = NoObject
     \/ Seen("Cron")
  /\ Unresolvable
  /\ UNCHANGED vars

(* Policy Once *)

OnceFinished ==
  /\ Seen("Once")
  /\ seenWu.status.phase = "Failed" \/ (seenWu.status.phase = "Complete" /\ ~SeenSpec.ttl)
  /\ Skip(FALSE)

OnceAwaitTTL ==
  /\ Seen("Once")
  /\ seenWu.status.phase = "Complete"
  /\ SeenSpec.ttl
  /\ ~expired
  /\ Skip(TRUE)

OnceExpire ==
  /\ Seen("Once")
  /\ seenWu.status.phase = "Complete"
  /\ SeenSpec.ttl
  /\ expired
  /\ Take("delete", NoObject)

\* By name, whatever it has become since it was read.
DeleteWarmUp ==
  /\ pc = "delete"
  /\ wu' = [wu EXCEPT !.status = [phase |-> "Gone", progress |-> 0]]
  /\ Outdate
  /\ Return
  /\ UNCHANGED <<job, cron, user, cache>>

OnceFindJob ==
  /\ Seen("Once")
  /\ seenWu.status.phase \notin Finished
  /\ seenJob # NoObject
  /\ Take("writeStatus", seenJob)

OnceBuildJob ==
  /\ Seen("Once")
  /\ seenWu.status.phase \notin Finished
  /\ seenJob = NoObject
  /\ \E from \in Origins : Take("createJob", NewJob(from))

CreateJob ==
  /\ pc = "createJob"
  /\ job = NoObject
  /\ job' = what
  /\ Goto("writeStatus")
  /\ UNCHANGED <<wu, fresh, cron, user, cache>>

\* It exists already, which the cache does not show, and that is an error; or it
\* does not, and an update is one.
ObjectUnexpected ==
  \/ pc = "createJob" /\ job # NoObject
  \/ pc = "createCron" /\ cron # NoObject
  \/ pc = "updateCron" /\ cron = NoObject
WriteObjectFails ==
  /\ ObjectUnexpected
  /\ Drop
  /\ ReturnError
  /\ UNCHANGED <<wu, job, cron, user, cache>>

\* GetWarmupJobStats: the log of one of the pods, as it is now.  Without
\* statistics, nothing has failed and nothing is done.
NoStats == [cold |-> FALSE, progress |-> 0]
JobStats ==
  IF job = NoObject \/ ~Supported(what.from) THEN {NoStats}
  ELSE {IF log = "lost" THEN NoStats ELSE [cold |-> log = "cold", progress |-> job.progress] :
          log \in job.logs \cup IF job.state = "active" THEN {"clean"} ELSE {}}

\* A mutant: the blocks that have failed are not looked at.
ExitVerdict(cold) ==
  CASE what.state = "active" -> "Running"
    [] what.state = "failed" -> "Failed"
    [] OTHER -> "Complete"
\* The job as it was read.
Verdict(cold) ==
  CASE what.state = "active" -> "Running"
    [] what.state = "failed" \/ (what.state = "complete" /\ cold) -> "Failed"
    [] OTHER -> "Complete"

\* A mutant: the requeue is left to the events of the job.
NeverPolls == FALSE
\* The progress is polled as long as the status that was read is Running.
Polls == Supported(what.from) /\ mine.phase = "Running"

\* A mutant: the status is written whatever the version.
AcceptedInAnyVersion == ~Gone
Accepted == "mine" \in fresh /\ ~Gone

WriteStatus ==
  /\ pc = "writeStatus"
  /\ \E stats \in JobStats :
       LET new == [phase |-> Verdict(stats.cold), progress |-> stats.progress] IN
       \/ new = mine /\ Drop /\ UNCHANGED wu
       \/ new # mine /\ Accepted /\ wu' = [wu EXCEPT !.status = new] /\ Outdate
       \* a conflict is ignored
       \/ new # mine /\ ~Accepted /\ ~Gone /\ Drop /\ UNCHANGED wu
  /\ IF Polls THEN ReturnAfter ELSE Return
  /\ UNCHANGED <<job, cron, user, cache>>

(* Policy Cron *)

CronBuildJob ==
  /\ Seen("Cron")
  /\ seenCron = NoObject
  /\ \E from \in Origins : Take("createCron", NewCronJob(from))

\* A mutant: only the schedule is compared.
CronRescheduled(from) == SpecOf(from.spec).schedule # SpecOf(seenCron.from.spec).schedule
CronOutdated(from) == ~SameHash(from, seenCron.from)

CronRebuildJob ==
  /\ Seen("Cron")
  /\ seenCron # NoObject
  /\ \E from \in Origins : CronOutdated(from) /\ Take("updateCron", NewCronJob(from))

\* The status is not computed.
CronUpToDate ==
  /\ Seen("Cron")
  /\ seenCron # NoObject
  /\ \E from \in Origins : ~CronOutdated(from)
  /\ Skip(FALSE)

CreateCronJob ==
  /\ pc = "createCron"
  /\ cron = NoObject
  /\ cron' = what
  /\ Goto("writeRunning")
  /\ UNCHANGED <<wu, fresh, job, user, cache>>

UpdateCronJob ==
  /\ pc = "updateCron"
  /\ cron # NoObject
  /\ cron' = what
  /\ Drop
  /\ Return
  /\ UNCHANGED <<wu, job, user, cache>>

WriteRunning ==
  /\ pc = "writeRunning"
  /\ \/ Accepted /\ wu' = [wu EXCEPT !.status = [phase |-> "Running", progress |-> 0]] /\ Outdate
     \/ ~Accepted /\ ~Gone /\ Drop /\ UNCHANGED wu
  /\ Return
  /\ UNCHANGED <<job, cron, user, cache>>

\* The WarmUp is no longer there.
WriteGone ==
  /\ pc \in {"writeStatus", "writeRunning"}
  /\ Gone
  /\ Drop
  /\ ReturnError
  /\ UNCHANGED <<wu, job, cron, user, cache>>

\* An API call fails and changes nothing.
CallFails ==
  /\ pc # "idle"
  /\ Occurs("error")
  /\ Drop
  /\ ReturnError
  /\ UNCHANGED <<wu, job, cron, group, warmed, expired, cache>>

-----------------------------------------------------------------------------
(* What surrounds the reconcile *)

\* The operator dies and starts again, with caches that are up to date.
Crash ==
  /\ Occurs("crash")
  /\ Forget
  /\ queued' = TRUE
  /\ timer' = FALSE
  /\ seenWu' = wu
  /\ seenJob' = job
  /\ seenCron' = cron
  /\ fresh' = {"cache"}
  /\ UNCHANGED <<wu, job, cron, group, warmed, expired>>

\* Each event of the WarmUp, and of the job and the cron job it owns, queues it.
Event ==
  /\ queued' = TRUE
  /\ UNCHANGED <<wu, job, cron, user, timer, pc, mine, what>>

ObserveWarmUp ==
  /\ "cache" \notin fresh
  /\ seenWu' = wu
  /\ fresh' = fresh \cup {"cache"}
  /\ Event
  /\ UNCHANGED <<seenJob, seenCron>>

ObserveJob ==
  /\ seenJob # job
  /\ seenJob' = job
  /\ Event
  /\ UNCHANGED <<seenWu, seenCron, fresh>>

ObserveCronJob ==
  /\ seenCron # cron
  /\ seenCron' = cron
  /\ Event
  /\ UNCHANGED <<seenWu, seenJob, fresh>>

TimerFires ==
  /\ timer
  /\ timer' = FALSE
  /\ queued' = TRUE
  /\ UNCHANGED <<wu, fresh, job, cron, user, cache, pc, mine, what>>

\* The status of the cron job changes each time a job of it starts or ends.
CronJobRuns ==
  /\ cron # NoObject
  /\ seenCron = cron
  /\ ~SpecOf(cron.from.spec).suspend
  /\ queued' = TRUE
  /\ UNCHANGED <<wu, fresh, job, cron, user, cache, timer, pc, mine, what>>

TTLPasses ==
  /\ wu.status.phase = "Complete"
  /\ WuSpec.ttl
  /\ expired' = TRUE
  /\ UNCHANGED <<wu, fresh, job, cron, group, warmed, faults, cache, reconcile>>

Active == job # NoObject /\ job.state = "active"
\* A job that ends well has warmed up the cache as far as its logs tell.
Told(from, logs) == ~Supported(from) \/ logs \cap {"clean", "lost"} # {}

JobProgresses ==
  /\ Active
  /\ job.progress < MaxProgress
  /\ job' = [job EXCEPT !.progress = @ + 1]
  /\ UNCHANGED <<wu, fresh, cron, user, cache, reconcile>>

\* A pod fails, and the job starts another.
JobRetries ==
  /\ Active
  /\ Occurs("retry")
  /\ \E log \in Logs : job' = [job EXCEPT !.logs = @ \cup {log}, !.progress = 0]
  /\ UNCHANGED <<wu, fresh, cron, group, warmed, expired, cache, reconcile>>

JobEnds ==
  /\ Active
  /\ \E log \in {"clean", "cold"}, state \in {"complete", "failed"} :
       /\ job' = [job EXCEPT !.logs = @ \cup {log}, !.state = state]
       /\ warmed' = (warmed \/ (state = "complete" /\ Told(job.from, job'.logs)))
  /\ UNCHANGED <<wu, fresh, cron, group, expired, faults, cache, reconcile>>

\* The logs of a job cannot be read any more.
LogsGetLost ==
  /\ job # NoObject
  /\ Occurs("log")
  /\ job' = [job EXCEPT !.logs = {"lost"}]
  /\ warmed' = (warmed \/ job.state = "complete")
  /\ UNCHANGED <<wu, fresh, cron, group, expired, cache, reconcile>>

\* The user deletes a job, and with it its logs, or a cron job.
UserDeletesJob ==
  /\ Occurs("deleteJob")
  /\ \/ job # NoObject /\ job' = NoObject /\ UNCHANGED cron
     \/ cron # NoObject /\ cron' = NoObject /\ UNCHANGED job
  /\ warmed' = (warmed \/ (job # NoObject /\ job.state = "complete"))
  /\ UNCHANGED <<wu, fresh, group, expired, cache, reconcile>>

UserDeletes ==
  /\ ~Gone
  /\ Occurs("delete")
  /\ wu' = [wu EXCEPT !.status = [phase |-> "Gone", progress |-> 0]]
  /\ Outdate
  /\ UNCHANGED <<job, cron, group, warmed, expired, cache, reconcile>>

UserEdits ==
  /\ ~Gone
  /\ Occurs("edit")
  /\ \E s \in Specs \ {wu.spec} : wu' = [wu EXCEPT !.spec = s]
  /\ Outdate
  /\ UNCHANGED <<job, cron, group, warmed, expired, cache, reconcile>>

\* Workers are created, updated and deleted, and caches are cleaned for a while.
GroupChanges ==
  /\ Occurs("group")
  /\ group' \in SUBSET (Workers \cup {Cleaner}) \ {group}
  /\ UNCHANGED <<wu, fresh, job, cron, warmed, expired, cache, reconcile>>

CleanerGoes ==
  /\ Cleaner \in group
  /\ group' = group \ {Cleaner}
  /\ UNCHANGED <<wu, fresh, job, cron, warmed, expired, faults, cache, reconcile>>

\* The garbage collector removes what a WarmUp that is gone has owned.
Collect ==
  /\ Gone
  /\ job # NoObject \/ cron # NoObject
  /\ job' = NoObject
  /\ cron' = NoObject
  /\ UNCHANGED <<wu, fresh, user, cache, reconcile>>

-----------------------------------------------------------------------------
SyncOnce ==
  \/ OnceFinished \/ OnceAwaitTTL \/ OnceExpire \/ OnceFindJob \/ OnceBuildJob
  \/ DeleteWarmUp \/ CreateJob \/ WriteStatus
SyncCron ==
  \/ CronBuildJob \/ CronRebuildJob \/ CronUpToDate
  \/ CreateCronJob \/ UpdateCronJob \/ WriteRunning
Step == SyncGone \/ SyncOnce \/ SyncCron \/ ResolveFails \/ WriteObjectFails \/ WriteGone
Fault == CallFails \/ Crash \/ JobRetries \/ LogsGetLost
User == UserDeletesJob \/ UserDeletes \/ UserEdits \/ GroupChanges
Cluster ==
  \/ ObserveWarmUp \/ ObserveJob \/ ObserveCronJob \/ TimerFires \/ CronJobRuns \/ TTLPasses \/ CleanerGoes \/ Collect
  \/ JobProgresses \/ JobEnds

Next == Step \/ Fault \/ User \/ Cluster

Spec == Init /\ [][Next]_vars

\* The work queue runs what is queued, the informers catch up, timers fire and
\* time passes, a cache is cleaned in the end, a schedule goes on, and owners are
\* collected.  That a job ends is not assumed.
Fairness ==
  /\ WF_vars(Step)
  /\ WF_vars(ObserveWarmUp)
  /\ WF_vars(ObserveJob)
  /\ WF_vars(ObserveCronJob)
  /\ WF_vars(TimerFires)
  /\ WF_vars(CronJobRuns)
  /\ WF_vars(TTLPasses)
  /\ WF_vars(CleanerGoes)
  /\ WF_vars(Collect)

FairSpec == Spec /\ Fairness
-----------------------------------------------------------------------------
(* Properties *)

\* The controller keeps the promise of a WarmUp: a verdict is not changed by a
\* reconcile that has read an old status, an old job or an old spec, and Complete
\* is written only if a job has ended well and a log of it does not tell of
\* blocks that have failed.
Promise == INSTANCE WarmUpPromise WITH
  phase <- wu.status.phase, scheduled <- Scheduled
KeepsPromise == Promise!Spec

\* What a WarmUp can have: a secret with an image, or a worker of its group.
Provided == IF WuSpec.secret # None THEN WuSpec.image # None ELSE group # {}

\* A WarmUp that runs once gets a job, and a verdict when the job has ended; with
\* a TTL it is deleted after it was Complete.  No error, conflict, lost job or old
\* cache leaves it behind.
Concluded ==
  \/ wu.status.phase = "Failed"
  \/ wu.status.phase = "Complete" /\ ~WuSpec.ttl
Settles == <>[](~Gone /\ ~Scheduled /\ Provided => Concluded \/ Active)

\* While a job runs whose image has statistics, the status shows its progress:
\* the handler goes on to ask for it although no event tells of a log.
ShowsProgress ==
  <>[](~Gone /\ ~Scheduled /\ Active /\ wu.status.phase \notin Finished /\ Supported(job.from)
         => wu.status = [phase |-> "Running", progress |-> job.progress] \/ "lost" \in job.logs)

\* A scheduled WarmUp has a cron job of its spec and of a worker that the group
\* has now: after an edit, and after each change of the group that the next run
\* of the schedule follows.
Current ==
  \E p \in IF WuSpec.secret # None THEN {Secret} ELSE group \ {Cleaner} :
    SameHash(cron.from, [spec |-> wu.spec, pod |-> p])
CronJobFollows ==
  <>[](~Gone /\ Scheduled /\ Provided => cron # NoObject /\ (Current \/ SpecOf(cron.from.spec).suspend))

\* Whatever options the worker and the user have, the mount of a job belongs to
\* the group, caches nothing and serves nobody.
Rendered == {o.from : o \in {job, cron}} \ {None}
MountsAsClient ==
  \A from \in Rendered :
    LET options == JobTemplate(from).mountOpts
        client == Range(ClientMountOpts(SpecOf(from.spec).cacheGroup)) IN
    /\ \A i \in DOMAIN options : options[i].key \in IgnoreMountOpts => options[i] \in client
    /\ client \subseteq Range(options)
=============================================================================
